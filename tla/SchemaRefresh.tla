----------------------------- MODULE SchemaRefresh -----------------------------
(***************************************************************************)
(* The schema registry and the refresher together: RegisterSchemaRefresh   *)
(* adds Trigger to the registry's listeners, so Trigger runs inside        *)
(* upsert, under the registry's write lock, while the generator it starts  *)
(* reads the registry through ListSchemas from a goroutine of its own      *)
(* (generator.Generate without a metadata file or a schema package).       *)
(*                                                                         *)
(* Two locks are involved: upsert takes the registry's and then, in        *)
(* Trigger, the refresher's. Whoever holds r.mu never asks for another.    *)
(*                                                                         *)
(* A document describes its own resource and those it relates to           *)
(* (compileSchemaDocument adds them), so the documents of two resources    *)
(* may describe one. The generator turns what it has read into one schema  *)
(* per name and writes its files one after another, in place. A dry run,   *)
(* which writes nothing, and metadata files are not here.                  *)
(***************************************************************************)
EXTENDS Naturals, Sequences, FiniteSets

CONSTANTS
    Publisher,      \* goroutines that register schemas
    Goroutine,      \* flush and run goroutines
    Resource, Document,
    Refresh,        \* the listener RegisterSchemaRefresh adds
    NoEntry, NilDocument, NoClient,
    Describes,      \* [Resource -> the resources its documents describe]
    Steps,          \* the files in the order in which Generate writes them
    Custom,         \* those of WriteCustomOnce
    Overwrite,      \* Options.Force
    NotGenerated    \* no generator run has read, or written, yet

ASSUME GeneratorAssumption ==
    /\ Describes \in [Resource -> SUBSET Resource]
    /\ \A r \in Resource : r \in Describes[r]
    /\ Steps \in Seq(STRING)
    /\ Custom \in SUBSET STRING
    /\ Overwrite \in BOOLEAN
    /\ Goroutine # {}
    /\ Publisher \cap Goroutine = {}
    /\ NoClient \notin Publisher \cup Goroutine
    /\ {NoEntry, NilDocument} \cap Document = {}
    /\ NoEntry # NilDocument
    /\ NotGenerated \notin [Resource -> Document \cup {NoEntry, NilDocument}]

VARIABLES
    entries, listeners, writer, cpc, arg, todo, snapshot, view,       \* SchemaRegistry
    debounced, cancelled, timer, running, pending, trig, gpc, dirty,  \* Refresher
    lastRead,       \* history: the entries the last generator run has read
    output,         \* what each run has made of the entries it has read
    step,           \* the number of files each run has written
    files,          \* the files, each with the entries it was made from (history)
    failed          \* the last run returned an error

registryVars == <<entries, listeners, writer, cpc, arg, todo, snapshot, view>>
refresherVars == <<debounced, cancelled, timer, running, pending, trig, gpc, dirty>>
outputVars == <<lastRead, output, step, files, failed>>
svars == <<registryVars, refresherVars, outputVars>>

Registry == INSTANCE SchemaRegistry
    WITH Client <- Publisher \cup Goroutine, Listener <- {Refresh},
         Reentrant <- {}, Unencodable <- {}, pc <- cpc

Refresher == INSTANCE Refresher WITH Caller <- Publisher, pc <- gpc

File == {Steps[i] : i \in DOMAIN Steps}

-----------------------------------------------------------------------------
(* metadata.FromSchemaEntries.                                             *)

\* The entries whose document describes n. One without a document is skipped.
Describing(n, reg) == {r \in Resource : reg[r] \in Document /\ n \in Describes[r]}

\* list() ranges over a map, in any order, and of two entries that describe
\* one name the later one wins.
Orders ==
    {o \in [Resource -> 1 .. Cardinality(Resource)] : \A q, r \in Resource : o[q] = o[r] => q = r}

SchemasIn(order, reg) ==
    [n \in Resource |->
        IF Describing(n, reg) = {} THEN NoEntry
        ELSE LET last == CHOOSE r \in Describing(n, reg) :
                             \A q \in Describing(n, reg) : order[q] <= order[r]
             IN  <<last, reg[last]>>]

\* A generation: the entries read, and for each name the entry its schema is from.
Generations(reg) == {[from |-> reg, schemas |-> SchemasIn(o, reg)] : o \in Orders}

ASSUME GenerationAssumption ==
    \A reg \in Registry!Entries : NotGenerated \notin Generations(reg)

Readings == Registry!Entries \cup {NotGenerated}

\* A run between two files has an output and the refresher knows it as the
\* one that generates; a file comes from a reading, like the output.
STypeOK ==
    /\ Registry!RTypeOK
    /\ Refresher!TypeOK
    /\ lastRead \in Readings
    /\ \A g \in Goroutine :
          /\ gpc[g] = "generate" <=> output[g] # NotGenerated
          /\ output[g] # NotGenerated => output[g] \in Generations(lastRead)
          /\ step[g] \in 0 .. Len(Steps)
    /\ \A f \in File : files[f] # NotGenerated => files[f] \in Generations(files[f].from)
    /\ failed \in BOOLEAN
    \* Trigger runs only inside the upsert that called it
    /\ \A c \in Publisher : trig[c] # "idle" => writer = c

SInit ==
    /\ Registry!RInit
    /\ Refresher!Init
    /\ lastRead = NotGenerated
    /\ output = [g \in Goroutine |-> NotGenerated]
    /\ step = [g \in Goroutine |-> 0]
    /\ files = [f \in File |-> NotGenerated]
    /\ failed = FALSE

-----------------------------------------------------------------------------
(* Faults: an action with one plausible bug, named by PROJECT.json.        *)

\* The listener does `go refresher.Trigger()'.
TriggerStartDetached(c) ==
    /\ cpc[c] = "notify"
    /\ todo[c] # <<>>
    /\ Refresher!TriggerEnter(c)
    /\ Registry!Notify(c)
    /\ UNCHANGED outputVars

\* The listener waits for the run in progress before it asks for another.
TriggerEndWaits(c) ==
    /\ \A g \in Goroutine : gpc[g] = "none"
    /\ Refresher!TriggerLocked(c)
    /\ Registry!Notify(c)
    /\ UNCHANGED outputVars

\* An existing file is left alone, whoever writes it.
WriteFileOnce(g) ==
    /\ gpc[g] = "generate"
    /\ step[g] < Len(Steps)
    /\ LET f == Steps[step[g] + 1]
       IN  files' = [files EXCEPT ![f] = IF @ = NotGenerated THEN output[g] ELSE @]
    /\ step' = [step EXCEPT ![g] = @ + 1]
    /\ UNCHANGED <<registryVars, refresherVars, lastRead, output, failed>>

\* A run that could not write a file goes on with the next one.
GenerateFailsSilently(g) ==
    /\ Refresher!GeneratorReturns(g)
    /\ output' = [output EXCEPT ![g] = NotGenerated]
    /\ step' = [step EXCEPT ![g] = 0]
    /\ UNCHANGED <<registryVars, lastRead, files, failed>>

-----------------------------------------------------------------------------
(* The registry, away from Trigger.                                        *)

Publish(c) ==
    /\ \E r \in Resource, d \in Document : Registry!RegisterSchemaEntry(c, r, d)
    /\ UNCHANGED <<refresherVars, outputVars>>

\* RegisterSchemaRefresh: the entries already there do not start a run.
RegisterSchemaRefresh(c) ==
    /\ Registry!RegisterSchemaListener(c, Refresh)
    /\ UNCHANGED <<refresherVars, outputVars>>

TakeLock(c) ==
    /\ Registry!Upsert(c) \/ Registry!AddListener(c)
    /\ UNCHANGED <<refresherVars, outputVars>>

ReleaseLock(c) ==
    /\ Registry!UpsertReturns(c)
    /\ UNCHANGED <<refresherVars, outputVars>>

-----------------------------------------------------------------------------
(* Trigger, called by upsert.                                              *)

\* The listener is entered; with the context done it returns at once.
TriggerStart(c) ==
    /\ cpc[c] = "notify"
    /\ todo[c] # <<>>
    /\ Refresher!TriggerEnter(c)
    /\ IF cancelled THEN Registry!Notify(c) ELSE UNCHANGED registryVars
    /\ UNCHANGED outputVars

\* Trigger does its work under r.mu and returns to upsert.
TriggerEnd(c) ==
    /\ Refresher!TriggerLocked(c)
    /\ Registry!Notify(c)
    /\ UNCHANGED outputVars

-----------------------------------------------------------------------------
(* The refresher's own goroutines, and the generator.                      *)

Schedule ==
    /\ \/ Refresher!Cancel
       \/ Refresher!TimerElapses
       \/ Refresher!TimerFires
    /\ UNCHANGED <<registryVars, outputVars>>

Step(g) ==
    /\ \/ Refresher!FlushEnter(g) \/ Refresher!FlushPending(g) \/ Refresher!FlushRun(g)
       \/ Refresher!RunEnter(g)
       \/ Refresher!FinishAgain(g) \/ Refresher!FinishIdle(g)
    /\ UNCHANGED <<registryVars, outputVars>>

\* loadSchemas: metadata.FromRegistry lists the registry, and waits for a
\* writer to do so.
LoadSchemas(g) ==
    /\ Refresher!GeneratorReads(g)
    /\ Registry!ListSchemas(g)
    /\ lastRead' = entries
    /\ \E s \in Generations(lastRead') : output' = [output EXCEPT ![g] = s]
    /\ UNCHANGED <<step, files, failed>>

\* The next file. One of WriteCustomOnce is written when it is missing.
WriteFile(g) ==
    /\ gpc[g] = "generate"
    /\ step[g] < Len(Steps)
    /\ LET f == Steps[step[g] + 1]
           kept == f \in Custom /\ ~Overwrite /\ files[f] # NotGenerated
       IN  files' = [files EXCEPT ![f] = IF kept THEN @ ELSE output[g]]
    /\ step' = [step EXCEPT ![g] = @ + 1]
    /\ UNCHANGED <<registryVars, refresherVars, lastRead, output, failed>>

GenerateSucceeds(g) ==
    /\ Refresher!GeneratorReturns(g)
    /\ step[g] = Len(Steps)
    /\ output' = [output EXCEPT ![g] = NotGenerated]
    /\ step' = [step EXCEPT ![g] = 0]
    /\ failed' = FALSE
    /\ UNCHANGED <<registryVars, lastRead, files>>

\* Generate gives up somewhere: what it has written stays, OnError is told,
\* nobody retries.
GenerateFails(g) ==
    /\ Refresher!GeneratorReturns(g)
    /\ output' = [output EXCEPT ![g] = NotGenerated]
    /\ step' = [step EXCEPT ![g] = 0]
    /\ failed' = TRUE
    /\ UNCHANGED <<registryVars, lastRead, files>>

-----------------------------------------------------------------------------

PublisherStep(c) == TakeLock(c) \/ TriggerStart(c) \/ TriggerEnd(c) \/ ReleaseLock(c)
GoroutineStep(g) ==
    Step(g) \/ LoadSchemas(g) \/ WriteFile(g) \/ GenerateSucceeds(g) \/ GenerateFails(g)

SNext ==
    \/ \E c \in Publisher : Publish(c) \/ RegisterSchemaRefresh(c) \/ PublisherStep(c)
    \/ Schedule
    \/ \E g \in Goroutine : GoroutineStep(g)

SSpec == SInit /\ [][SNext]_svars

\* As in the two components: strong fairness where the registry's lock is
\* waited for, weak fairness for the rest of the code.
SFairness ==
    /\ \A c \in Publisher : SF_svars(TakeLock(c)) /\ WF_svars(PublisherStep(c))
    /\ WF_svars(Refresher!TimerElapses /\ UNCHANGED <<registryVars, outputVars>>)
    /\ WF_svars(Refresher!TimerFires /\ UNCHANGED <<registryVars, outputVars>>)
    /\ \A g \in Goroutine : SF_svars(LoadSchemas(g)) /\ WF_svars(GoroutineStep(g))

FairSSpec == SSpec /\ SFairness

-----------------------------------------------------------------------------
(* Properties.                                                             *)

\* No publisher is inside upsert and the refresher has nothing in flight.
AtRest ==
    /\ writer = NoClient
    /\ ~cancelled
    /\ timer = "off"
    /\ \A g \in Goroutine : gpc[g] = "none"

\* Whenever things are at rest the last generator run has read the registry
\* as it is now: no schema stored while a run was reading, finishing or
\* waiting for the registry's lock has been missed (unless the refresher was
\* never told of anything).
RestIsCurrent ==
    AtRest => ~dirty /\ lastRead \in {entries, NotGenerated}

\* A run that succeeds puts right what runs before it have left half written:
\* at rest, all regenerated files are of one generation, made from the last
\* reading, unless the last run has failed.
FilesOfOneGeneration ==
    AtRest /\ ~failed /\ lastRead # NotGenerated =>
        \E s \in Generations(lastRead) : \A f \in File \ Custom : files[f] = s

\* Every registration returns: a publisher inside Trigger does not wait, even
\* indirectly, for a generator that waits for the publisher's lock.
PublishersReturn == \A c \in Publisher : cpc[c] # "idle" ~> cpc[c] = "idle"

\* Once publishers pause, the regenerated files are made from the registry as
\* it is and stay so, unless the context is cancelled or the generator failed.
ArtifactsCatchUp ==
    <>[](\A c \in Publisher : cpc[c] = "idle")
        => <>[](\/ cancelled \/ failed
                \/ lastRead = NotGenerated
                \/ \A f \in File \ Custom :
                      files[f] # NotGenerated /\ files[f].from = entries)

=============================================================================
