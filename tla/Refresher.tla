------------------------------ MODULE Refresher ------------------------------
(***************************************************************************)
(* gql/refresh: the Refresher that listens to the schema registry and      *)
(* regenerates the GraphQL artifacts.                                      *)
(*                                                                         *)
(* Trigger may be called by any goroutine, the debounce timer runs flush   *)
(* in a goroutine of its own, and a generator run is one more goroutine.   *)
(* They meet in the fields running, pending and timer, guarded by r.mu.    *)
(* A critical section of r.mu calls nothing that blocks, so it is one      *)
(* step; the context is tested before the lock is taken, which is why      *)
(* Trigger and flush have two.                                             *)
(***************************************************************************)

CONSTANTS
    Caller,       \* goroutines that call Trigger
    Goroutine     \* identities for flush and run goroutines alive at once

ASSUME RefresherAssumption == Goroutine # {}

VARIABLES
    debounced,    \* opts.Debounce > 0
    cancelled,    \* r.ctx.Err() # nil
    timer,        \* "off" (nil, or fired), "armed", or "due": elapsed, not yet run
    running,      \* r.running
    pending,      \* r.pending
    trig,         \* where each caller is in Trigger
    pc,           \* where each flush or run goroutine is
    dirty         \* history: announced by Trigger, not yet read by a generator

vars == <<debounced, cancelled, timer, running, pending, trig, pc, dirty>>

\* The goroutine owns r.running: from the moment the flag is set for it to
\* the critical section of finish that clears the flag.
RunPoints == {"run", "call", "generate", "finish", "abort"}

\* The generator has been, or is certain to be, invoked.
GeneratorPoints == {"call", "generate"}

\* The types of the variables; a timer exists only where a debounce was asked for.
TypeOK ==
    /\ debounced \in BOOLEAN
    /\ cancelled \in BOOLEAN
    /\ timer \in {"off", "armed", "due"}
    /\ running \in BOOLEAN
    /\ pending \in BOOLEAN
    /\ trig \in [Caller -> {"idle", "lock"}]
    /\ pc \in [Goroutine -> {"none", "flush", "lock"} \cup RunPoints]
    /\ dirty \in BOOLEAN
    /\ timer # "off" => debounced

Init ==
    /\ debounced \in BOOLEAN
    /\ cancelled = FALSE
    /\ timer = "off"
    /\ running = FALSE
    /\ pending = FALSE
    /\ trig = [c \in Caller |-> "idle"]
    /\ pc = [g \in Goroutine |-> "none"]
    /\ dirty = FALSE

-----------------------------------------------------------------------------
(* Faults. Each operator is the action it is named after with one plausible *)
(* bug; PROJECT.json names the property that the bug breaks.                *)

\* The debounced branch is taken whatever opts.Debounce says.
TriggerDebouncedAlways(c) ==
    /\ trig[c] = "lock"
    /\ timer' = "armed"
    /\ trig' = [trig EXCEPT ![c] = "idle"]
    /\ UNCHANGED <<debounced, cancelled, running, pending, pc, dirty>>

\* The note for the running generator is not left.
TriggerPendingForgets(c) ==
    /\ trig[c] = "lock"
    /\ ~debounced
    /\ running
    /\ trig' = [trig EXCEPT ![c] = "idle"]
    /\ UNCHANGED <<debounced, cancelled, timer, running, pending, pc, dirty>>

\* A run is started beside the one that owns the flag.
TriggerRunTwice(c) ==
    /\ trig[c] = "lock"
    /\ ~debounced
    /\ running' = TRUE
    /\ \E g \in Goroutine :
          /\ pc[g] = "none"
          /\ pc' = [pc EXCEPT ![g] = "run"]
    /\ trig' = [trig EXCEPT ![c] = "idle"]
    /\ UNCHANGED <<debounced, cancelled, timer, pending, dirty>>

\* flush finds a run going on and goes away.
FlushPendingForgets(g) ==
    /\ pc[g] = "lock"
    /\ running
    /\ pc' = [pc EXCEPT ![g] = "none"]
    /\ UNCHANGED <<debounced, cancelled, timer, running, pending, trig, dirty>>

\* flush does not look at the flag before it sets it.
FlushRunTwice(g) ==
    /\ pc[g] = "lock"
    /\ running' = TRUE
    /\ pc' = [pc EXCEPT ![g] = "run"]
    /\ UNCHANGED <<debounced, cancelled, timer, pending, trig, dirty>>

\* run relies on the test its starter made.
RunEnterUntested(g) ==
    /\ pc[g] = "run"
    /\ pc' = [pc EXCEPT ![g] = "call"]
    /\ UNCHANGED <<debounced, cancelled, timer, running, pending, trig, dirty>>

\* finish clears the flag without a look at the note.
FinishIdleForgets(g) ==
    /\ pc[g] \in {"finish", "abort"}
    /\ running' = FALSE
    /\ pc' = [pc EXCEPT ![g] = "none"]
    /\ UNCHANGED <<debounced, cancelled, timer, pending, trig, dirty>>

-----------------------------------------------------------------------------
(* The owner of the context.                                               *)

Cancel ==
    /\ ~cancelled
    /\ cancelled' = TRUE
    /\ UNCHANGED <<debounced, timer, running, pending, trig, pc, dirty>>

-----------------------------------------------------------------------------
(* Trigger.                                                                *)

\* A schema has changed and its listener calls Trigger, which returns at once
\* when the context is done.
TriggerEnter(c) ==
    /\ trig[c] = "idle"
    /\ dirty' = TRUE
    /\ trig' = [trig EXCEPT ![c] = IF cancelled THEN "idle" ELSE "lock"]
    /\ UNCHANGED <<debounced, cancelled, timer, running, pending, pc>>

\* AfterFunc the first time, Reset later: both (re)arm the one timer.
TriggerDebounced(c) ==
    /\ trig[c] = "lock"
    /\ debounced
    /\ timer' = "armed"
    /\ trig' = [trig EXCEPT ![c] = "idle"]
    /\ UNCHANGED <<debounced, cancelled, running, pending, pc, dirty>>

\* A run owns the flag: leave it a note.
TriggerPending(c) ==
    /\ trig[c] = "lock"
    /\ ~debounced
    /\ running
    /\ pending' = TRUE
    /\ trig' = [trig EXCEPT ![c] = "idle"]
    /\ UNCHANGED <<debounced, cancelled, timer, running, pc, dirty>>

\* go r.run()
TriggerRun(c) ==
    /\ trig[c] = "lock"
    /\ ~debounced
    /\ ~running
    /\ running' = TRUE
    /\ \E g \in Goroutine :
          /\ pc[g] = "none"
          /\ pc' = [pc EXCEPT ![g] = "run"]
    /\ trig' = [trig EXCEPT ![c] = "idle"]
    /\ UNCHANGED <<debounced, cancelled, timer, pending, dirty>>

TriggerLocked(c) == TriggerDebounced(c) \/ TriggerPending(c) \/ TriggerRun(c)

-----------------------------------------------------------------------------
(* The debounce timer (package time) and flush.                            *)

\* The debounce interval has passed without a Reset.
TimerElapses ==
    /\ timer = "armed"
    /\ timer' = "due"
    /\ UNCHANGED <<debounced, cancelled, running, pending, trig, pc, dirty>>

\* The runtime starts flush in its own goroutine; an earlier flush may still
\* be on its way. Goroutine bounds how many are alive at once.
TimerFires ==
    /\ timer = "due"
    /\ timer' = "off"
    /\ \E g \in Goroutine :
          /\ pc[g] = "none"
          /\ pc' = [pc EXCEPT ![g] = "flush"]
    /\ UNCHANGED <<debounced, cancelled, running, pending, trig, dirty>>

FlushEnter(g) ==
    /\ pc[g] = "flush"
    /\ pc' = [pc EXCEPT ![g] = IF cancelled THEN "none" ELSE "lock"]
    /\ UNCHANGED <<debounced, cancelled, timer, running, pending, trig, dirty>>

FlushPending(g) ==
    /\ pc[g] = "lock"
    /\ running
    /\ pending' = TRUE
    /\ pc' = [pc EXCEPT ![g] = "none"]
    /\ UNCHANGED <<debounced, cancelled, timer, running, trig, dirty>>

\* flush becomes the run: it calls r.run() after the unlock.
FlushRun(g) ==
    /\ pc[g] = "lock"
    /\ ~running
    /\ running' = TRUE
    /\ pc' = [pc EXCEPT ![g] = "run"]
    /\ UNCHANGED <<debounced, cancelled, timer, pending, trig, dirty>>

-----------------------------------------------------------------------------
(* run and finish.                                                         *)

RunEnter(g) ==
    /\ pc[g] = "run"
    /\ pc' = [pc EXCEPT ![g] = IF cancelled THEN "abort" ELSE "call"]
    /\ UNCHANGED <<debounced, cancelled, timer, running, pending, trig, dirty>>

\* The generator is called and loads the schemas, its first step.
GeneratorReads(g) ==
    /\ pc[g] = "call"
    /\ pc' = [pc EXCEPT ![g] = "generate"]
    /\ dirty' = FALSE
    /\ UNCHANGED <<debounced, cancelled, timer, running, pending, trig>>

\* The generator returns and OnResult, or OnError, has been called. Neither is
\* called with r.mu held, and neither decides what happens next.
GeneratorReturns(g) ==
    /\ pc[g] = "generate"
    /\ pc' = [pc EXCEPT ![g] = "finish"]
    /\ UNCHANGED <<debounced, cancelled, timer, running, pending, trig, dirty>>

\* finish(true) with a note left: the flag is handed to a new goroutine, which
\* takes over the identity of the one that ends here.
FinishAgain(g) ==
    /\ pc[g] = "finish"
    /\ pending
    /\ ~cancelled
    /\ pending' = FALSE
    /\ pc' = [pc EXCEPT ![g] = "run"]
    /\ UNCHANGED <<debounced, cancelled, timer, running, trig, dirty>>

\* finish(true) with nothing to do, and finish(false): pending stays as it is.
FinishIdle(g) ==
    /\ \/ pc[g] = "finish" /\ (~pending \/ cancelled)
       \/ pc[g] = "abort"
    /\ running' = FALSE
    /\ pc' = [pc EXCEPT ![g] = "none"]
    /\ UNCHANGED <<debounced, cancelled, timer, pending, trig, dirty>>

-----------------------------------------------------------------------------

GoroutineStep(g) ==
    \/ FlushEnter(g) \/ FlushPending(g) \/ FlushRun(g)
    \/ RunEnter(g) \/ GeneratorReads(g) \/ GeneratorReturns(g)
    \/ FinishAgain(g) \/ FinishIdle(g)

Next ==
    \/ Cancel
    \/ \E c \in Caller : TriggerEnter(c) \/ TriggerLocked(c)
    \/ TimerElapses
    \/ TimerFires
    \/ \E g \in Goroutine : GoroutineStep(g)

Spec == Init /\ [][Next]_vars

\* Goroutines are scheduled and r.mu is starvation free; a generator run
\* returns; a timer left alone elapses and is run. Nothing obliges anybody to
\* call Trigger or to cancel, and a timer that is Reset again and again need
\* never fire: a Reset takes "due" back to "armed".
Fairness ==
    /\ \A c \in Caller : WF_vars(TriggerLocked(c))
    /\ WF_vars(TimerElapses)
    /\ WF_vars(TimerFires)
    /\ \A g \in Goroutine : WF_vars(GoroutineStep(g))

FairSpec == Spec /\ Fairness

-----------------------------------------------------------------------------
(* Properties.                                                             *)

Owners == {g \in Goroutine : pc[g] \in RunPoints}
Generating == {g \in Goroutine : pc[g] \in GeneratorPoints}

\* However Trigger, timer and finish interleave, the running flag has exactly
\* one owner while it is set and none while it is clear. Two generator runs
\* would write the same files at once.
RunningHasOneOwner ==
    /\ \A g, h \in Owners : g = h
    /\ running <=> Owners # {}

\* Something is on its way that will make a generator read the schemas.
WakeupInFlight ==
    \/ \E c \in Caller : trig[c] = "lock"
    \/ timer # "off"
    \/ \E g \in Goroutine : pc[g] \in {"flush", "lock", "run", "call"}
    \/ pending /\ running

\* No announced change is forgotten: while one has not been read and the
\* context is alive, some goroutine, the timer or the pending flag of a live
\* run still carries it (Trigger, flush and finish against one another).
NoLostTrigger == dirty /\ ~cancelled => WakeupInFlight

\* Once the context is done and no generator is being invoked, none is ever
\* invoked again, whatever callers and flushes had passed their own test of
\* the context before it was cancelled (the second test, in run).
NoRunAfterCancel ==
    [][cancelled /\ Generating = {} => Generating' = {}]_vars

\* The refresher keeps the promise of RefreshContract.
Contract == INSTANCE RefreshContract WITH Run <- Goroutine, active <- Generating
ImplementsContract == Contract!CSpec

\* Without debounce every announced change is read, or the context cancelled,
\* even if schemas keep changing.
ImmediateRefresh == (dirty /\ ~debounced) ~> (~dirty \/ cancelled)

\* With debounce the same holds once the changes pause: only a stream of
\* Trigger calls that never ends may keep the timer from firing.
DebouncedRefresh ==
    <>[](\A c \in Caller : trig[c] = "idle")
        => [](dirty => <>(~dirty \/ cancelled))

=============================================================================
