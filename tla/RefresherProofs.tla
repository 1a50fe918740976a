--------------------------- MODULE RefresherProofs ---------------------------
(***************************************************************************)
(* What holds of the Refresher for any sets of callers and goroutines:     *)
(* type correctness, one owner of the running flag, no lost trigger, no    *)
(* generator run after the context is done, and the refinement of          *)
(* RefreshContract.                                                        *)
(***************************************************************************)
EXTENDS Refresher, TLAPS

(* Every run that gave up did so because it saw the context done; without
   this, finish(false) could drop a pending flag that still matters. *)
AbortedByCancel == \A g \in Goroutine : pc[g] = "abort" => cancelled

(* The inductive invariant. *)
IInv ==
    /\ TypeOK
    /\ RunningHasOneOwner
    /\ AbortedByCancel
    /\ NoLostTrigger

-----------------------------------------------------------------------------

(* The variables keep their types, and a timer is armed only with debounce. *)
THEOREM TypeCorrect == Spec => []TypeOK
<1>1. Init => TypeOK
  BY DEF Init, TypeOK, RunPoints
<1>2. TypeOK /\ [Next]_vars => TypeOK'
  <2> SUFFICES ASSUME TypeOK, [Next]_vars PROVE TypeOK'
    OBVIOUS
  <2> USE DEF TypeOK, RunPoints
  <2>1. CASE Cancel
    BY <2>1 DEF Cancel
  <2>2. ASSUME NEW c \in Caller, TriggerEnter(c) PROVE TypeOK'
    BY <2>2 DEF TriggerEnter
  <2>3. ASSUME NEW c \in Caller, TriggerLocked(c) PROVE TypeOK'
    BY <2>3 DEF TriggerLocked, TriggerDebounced, TriggerPending, TriggerRun
  <2>4. CASE TimerElapses
    BY <2>4 DEF TimerElapses
  <2>5. CASE TimerFires
    BY <2>5 DEF TimerFires
  <2>6. ASSUME NEW g \in Goroutine, GoroutineStep(g) PROVE TypeOK'
    BY <2>6 DEF GoroutineStep, FlushEnter, FlushPending, FlushRun, RunEnter,
                GeneratorReads, GeneratorReturns, FinishAgain, FinishIdle
  <2>7. CASE UNCHANGED vars
    BY <2>7 DEF vars
  <2> QED
    BY <2>1, <2>2, <2>3, <2>4, <2>5, <2>6, <2>7 DEF Next
<1> QED
  BY <1>1, <1>2, PTL DEF Spec

-----------------------------------------------------------------------------

(* One owner of the running flag, preserved by every step. *)
LEMMA OwnerStep ==
    ASSUME TypeOK, RunningHasOneOwner, [Next]_vars
    PROVE  RunningHasOneOwner'
<1> USE DEF TypeOK, RunPoints, RunningHasOneOwner, Owners
<1>1. CASE Cancel
  BY <1>1 DEF Cancel
<1>2. ASSUME NEW c \in Caller, TriggerEnter(c) PROVE RunningHasOneOwner'
  BY <1>2 DEF TriggerEnter
<1>3. ASSUME NEW c \in Caller, TriggerLocked(c) PROVE RunningHasOneOwner'
  <2>1. CASE TriggerDebounced(c)
    BY <2>1 DEF TriggerDebounced
  <2>2. CASE TriggerPending(c)
    BY <2>2 DEF TriggerPending
  <2>3. CASE TriggerRun(c)
    <3>1. PICK g \in Goroutine : pc[g] = "none" /\ pc' = [pc EXCEPT ![g] = "run"]
      BY <2>3 DEF TriggerRun
    <3>2. Owners = {} /\ Owners' = {g} /\ running'
      BY <2>3, <3>1 DEF TriggerRun
    <3> QED
      BY <3>2
  <2> QED
    BY <1>3, <2>1, <2>2, <2>3 DEF TriggerLocked
<1>4. CASE TimerElapses
  BY <1>4 DEF TimerElapses
<1>5. CASE TimerFires
  BY <1>5 DEF TimerFires
<1>6. ASSUME NEW g \in Goroutine, GoroutineStep(g) PROVE RunningHasOneOwner'
  <2>1. CASE FlushEnter(g) \/ FlushPending(g)
    <3>1. Owners' = Owners /\ running' = running
      BY <2>1 DEF FlushEnter, FlushPending
    <3> QED
      BY <3>1
  <2>2. CASE FlushRun(g)
    <3>1. Owners = {} /\ Owners' = {g} /\ running'
      BY <2>2 DEF FlushRun
    <3> QED
      BY <3>1
  <2>3. CASE RunEnter(g) \/ GeneratorReads(g) \/ GeneratorReturns(g) \/ FinishAgain(g)
    <3>1. Owners' = Owners /\ running' = running
      BY <2>3 DEF RunEnter, GeneratorReads, GeneratorReturns, FinishAgain
    <3> QED
      BY <3>1
  <2>4. CASE FinishIdle(g)
    <3>1. Owners = {g} /\ Owners' = {} /\ ~running'
      BY <2>4 DEF FinishIdle
    <3> QED
      BY <3>1
  <2> QED
    BY <1>6, <2>1, <2>2, <2>3, <2>4 DEF GoroutineStep
<1>7. CASE UNCHANGED vars
  BY <1>7 DEF vars
<1> QED
  BY <1>1, <1>2, <1>3, <1>4, <1>5, <1>6, <1>7 DEF Next

(* Only a cancelled context makes a run abort, and it stays cancelled. *)
LEMMA AbortStep ==
    ASSUME TypeOK, AbortedByCancel, [Next]_vars
    PROVE  AbortedByCancel'
<1> USE DEF TypeOK, RunPoints, AbortedByCancel
<1>1. CASE Cancel
  BY <1>1 DEF Cancel
<1>2. ASSUME NEW c \in Caller, TriggerEnter(c) \/ TriggerLocked(c)
      PROVE  AbortedByCancel'
  BY <1>2 DEF TriggerEnter, TriggerLocked, TriggerDebounced, TriggerPending, TriggerRun
<1>3. CASE TimerElapses \/ TimerFires
  BY <1>3 DEF TimerElapses, TimerFires
<1>4. ASSUME NEW g \in Goroutine, GoroutineStep(g) PROVE AbortedByCancel'
  BY <1>4 DEF GoroutineStep, FlushEnter, FlushPending, FlushRun, RunEnter,
              GeneratorReads, GeneratorReturns, FinishAgain, FinishIdle
<1>5. CASE UNCHANGED vars
  BY <1>5 DEF vars
<1> QED
  BY <1>1, <1>2, <1>3, <1>4, <1>5 DEF Next

(* No lost trigger: whatever stops carrying a change hands it on. *)
LEMMA TriggerStep ==
    ASSUME TypeOK, RunningHasOneOwner, AbortedByCancel, NoLostTrigger, [Next]_vars
    PROVE  NoLostTrigger'
<1> USE DEF TypeOK, RunPoints, NoLostTrigger, WakeupInFlight
<1>1. CASE Cancel
  BY <1>1 DEF Cancel
<1>2. ASSUME NEW c \in Caller, TriggerEnter(c) PROVE NoLostTrigger'
  BY <1>2 DEF TriggerEnter
<1>3. ASSUME NEW c \in Caller, TriggerLocked(c) PROVE NoLostTrigger'
  BY <1>3 DEF TriggerLocked, TriggerDebounced, TriggerPending, TriggerRun
<1>4. CASE TimerElapses
  BY <1>4 DEF TimerElapses
<1>5. CASE TimerFires
  BY <1>5 DEF TimerFires
<1>6. ASSUME NEW g \in Goroutine, GoroutineStep(g) PROVE NoLostTrigger'
  <2>1. CASE FlushEnter(g)
    BY <2>1 DEF FlushEnter
  <2>2. CASE FlushPending(g)
    BY <2>2 DEF FlushPending
  <2>3. CASE FlushRun(g)
    BY <2>3 DEF FlushRun
  <2>4. CASE RunEnter(g)
    BY <2>4 DEF RunEnter
  <2>5. CASE GeneratorReads(g)
    BY <2>5 DEF GeneratorReads
  <2>6. CASE GeneratorReturns(g)
    BY <2>6 DEF GeneratorReturns
  <2>7. CASE FinishAgain(g)
    BY <2>7 DEF FinishAgain
  <2>8. CASE FinishIdle(g)
    BY <2>8 DEF FinishIdle, AbortedByCancel
  <2> QED
    BY <1>6, <2>1, <2>2, <2>3, <2>4, <2>5, <2>6, <2>7, <2>8 DEF GoroutineStep
<1>7. CASE UNCHANGED vars
  BY <1>7 DEF vars
<1> QED
  BY <1>1, <1>2, <1>3, <1>4, <1>5, <1>6, <1>7 DEF Next

(* The conjunction is inductive. *)
LEMMA Inductive == Spec => []IInv
<1>1. Init => IInv
  BY DEF Init, IInv, TypeOK, RunningHasOneOwner, Owners, RunPoints,
         AbortedByCancel, NoLostTrigger
<1>2. IInv /\ TypeOK' /\ [Next]_vars => IInv'
  BY OwnerStep, AbortStep, TriggerStep DEF IInv
<1> QED
  BY <1>1, <1>2, TypeCorrect, PTL DEF Spec

(* At most one goroutine runs the generator, and the running flag says so. *)
THEOREM OneOwner == Spec => []RunningHasOneOwner
<1>1. IInv => RunningHasOneOwner
  BY DEF IInv
<1> QED
  BY <1>1, Inductive, PTL

(* No announced change is forgotten while the context is alive. *)
THEOREM TriggersSurvive == Spec => []NoLostTrigger
<1>1. IInv => NoLostTrigger
  BY DEF IInv
<1> QED
  BY <1>1, Inductive, PTL

-----------------------------------------------------------------------------

(* After the context is done, no generator run starts. *)
THEOREM QuietAfterCancel == Spec => NoRunAfterCancel
<1>1. TypeOK /\ [Next]_vars => [cancelled /\ Generating = {} => Generating' = {}]_vars
  <2> SUFFICES ASSUME TypeOK, Next, cancelled, Generating = {}
               PROVE  Generating' = {}
    OBVIOUS
  <2> USE DEF TypeOK, RunPoints, Generating, GeneratorPoints
  <2>1. CASE Cancel
    BY <2>1 DEF Cancel
  <2>2. ASSUME NEW c \in Caller, TriggerEnter(c) \/ TriggerLocked(c)
        PROVE  Generating' = {}
    BY <2>2 DEF TriggerEnter, TriggerLocked, TriggerDebounced, TriggerPending, TriggerRun
  <2>3. CASE TimerElapses \/ TimerFires
    BY <2>3 DEF TimerElapses, TimerFires
  <2>4. ASSUME NEW g \in Goroutine, GoroutineStep(g) PROVE Generating' = {}
    BY <2>4 DEF GoroutineStep, FlushEnter, FlushPending, FlushRun, RunEnter,
                GeneratorReads, GeneratorReturns, FinishAgain, FinishIdle
  <2> QED
    BY <2>1, <2>2, <2>3, <2>4 DEF Next
<1> QED
  BY <1>1, TypeCorrect, PTL DEF Spec, NoRunAfterCancel

-----------------------------------------------------------------------------

(* The only owner of the flag is the only goroutine that can be generating. *)
LEMMA GeneratingIsOwned ==
    ASSUME RunningHasOneOwner, NEW g \in Owners
    PROVE  Generating \subseteq {g}
BY DEF RunningHasOneOwner, Owners, Generating, GeneratorPoints, RunPoints

(* The refresher implements RefreshContract: a run of the contract starts when
   run() passes its test of the context, and ends when the generator returns. *)
THEOREM Refinement == Spec => ImplementsContract
<1>1. Init => Contract!CInit
  BY DEF Init, Contract!CInit, Generating, GeneratorPoints
<1>2. IInv /\ [Next]_vars => [Contract!CNext]_(Contract!cvars)
  <2> SUFFICES ASSUME IInv, [Next]_vars
               PROVE  [Contract!CNext]_(Contract!cvars)
    OBVIOUS
  <2> DEFINE Same == UNCHANGED <<dirty, Generating, cancelled>>
  <2>0. Same => UNCHANGED Contract!cvars
    BY DEF Contract!cvars
  <2> USE DEF IInv, TypeOK, RunPoints, GeneratorPoints
  <2>1. CASE Cancel
    <3>1. Contract!CancelContext
      BY <2>1 DEF Cancel, Contract!CancelContext, Generating
    <3> QED
      BY <3>1 DEF Contract!CNext
  <2>2. ASSUME NEW c \in Caller, TriggerEnter(c)
        PROVE  [Contract!CNext]_(Contract!cvars)
    <3>1. Contract!Announce
      BY <2>2 DEF TriggerEnter, Contract!Announce, Generating
    <3> QED
      BY <3>1 DEF Contract!CNext
  <2>3. ASSUME NEW c \in Caller, TriggerLocked(c)
        PROVE  [Contract!CNext]_(Contract!cvars)
    <3>1. Same
      BY <2>3 DEF TriggerLocked, TriggerDebounced, TriggerPending, TriggerRun, Generating
    <3> QED
      BY <3>1, <2>0
  <2>4. CASE TimerElapses \/ TimerFires
    <3>1. Same
      BY <2>4 DEF TimerElapses, TimerFires, Generating
    <3> QED
      BY <3>1, <2>0
  <2>5. ASSUME NEW g \in Goroutine, GoroutineStep(g)
        PROVE  [Contract!CNext]_(Contract!cvars)
    <3>1. CASE FlushEnter(g) \/ FlushPending(g) \/ FlushRun(g)
      <4>1. Same
        BY <3>1 DEF FlushEnter, FlushPending, FlushRun, Generating
      <4> QED
        BY <4>1, <2>0
    <3>2. CASE RunEnter(g)
      <4>1. g \in Owners
        BY <3>2 DEF RunEnter, Owners
      <4>2. Generating = {}
        BY <3>2, <4>1, GeneratingIsOwned DEF RunEnter, Generating
      <4>3. CASE cancelled
        <5>1. Same
          BY <3>2, <4>2, <4>3 DEF RunEnter, Generating
        <5> QED
          BY <5>1, <2>0
      <4>4. CASE ~cancelled
        <5>1. Contract!StartRun(g)
          BY <3>2, <4>2, <4>4 DEF RunEnter, Generating, Contract!StartRun
        <5> QED
          BY <5>1 DEF Contract!CNext
      <4> QED
        BY <4>3, <4>4
    <3>3. CASE GeneratorReads(g)
      <4>1. Contract!ReadSchemas
        BY <3>3 DEF GeneratorReads, Contract!ReadSchemas, Generating
      <4> QED
        BY <4>1 DEF Contract!CNext
    <3>4. CASE GeneratorReturns(g)
      <4>1. g \in Owners
        BY <3>4 DEF GeneratorReturns, Owners
      <4>2. Generating = {g}
        BY <3>4, <4>1, GeneratingIsOwned DEF GeneratorReturns, Generating
      <4>3. Contract!EndRun(g)
        BY <3>4, <4>2 DEF GeneratorReturns, Generating, Contract!EndRun
      <4> QED
        BY <4>3 DEF Contract!CNext
    <3>5. CASE FinishAgain(g) \/ FinishIdle(g)
      <4>1. Same
        BY <3>5 DEF FinishAgain, FinishIdle, Generating
      <4> QED
        BY <4>1, <2>0
    <3> QED
      BY <2>5, <3>1, <3>2, <3>3, <3>4, <3>5 DEF GoroutineStep
  <2>6. CASE UNCHANGED vars
    <3>1. Same
      BY <2>6 DEF vars, Generating
    <3> QED
      BY <3>1, <2>0
  <2> QED
    BY <2>1, <2>2, <2>3, <2>4, <2>5, <2>6 DEF Next
<1> QED
  BY <1>1, <1>2, Inductive, PTL DEF Spec, ImplementsContract, Contract!CSpec

=============================================================================
