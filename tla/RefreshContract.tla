--------------------------- MODULE RefreshContract ---------------------------
(***************************************************************************)
(* What gql/refresh promises to the owner of a schema registry, without    *)
(* its timers, goroutines and flags: whoever changes a schema calls        *)
(* Trigger, and generator runs, one at a time, read the schemas until the  *)
(* owner cancels the context.                                              *)
(***************************************************************************)

CONSTANT Run            \* identities of generator invocations

VARIABLES dirty,        \* a change has been announced that no run has read
          active,       \* the generator invocations in progress
          cancelled     \* the context given to RegisterSchemaRefresh is done

cvars == <<dirty, active, cancelled>>

CInit ==
    /\ dirty = FALSE
    /\ active = {}
    /\ cancelled = FALSE

\* Somebody announces a change through Trigger.
Announce ==
    /\ dirty' = TRUE
    /\ UNCHANGED <<active, cancelled>>

\* A run starts: never beside another one, never once the context is done.
StartRun(r) ==
    /\ active = {}
    /\ ~cancelled
    /\ active' = {r}
    /\ UNCHANGED <<dirty, cancelled>>

\* The run reads the schemas; what was announced before is covered.
ReadSchemas ==
    /\ active # {}
    /\ dirty' = FALSE
    /\ UNCHANGED <<active, cancelled>>

EndRun(r) ==
    /\ active = {r}
    /\ active' = {}
    /\ UNCHANGED <<dirty, cancelled>>

CancelContext ==
    /\ cancelled' = TRUE
    /\ UNCHANGED <<dirty, active>>

CNext ==
    \/ Announce
    \/ \E r \in Run : StartRun(r) \/ EndRun(r)
    \/ ReadSchemas
    \/ CancelContext

CSpec == CInit /\ [][CNext]_cvars

=============================================================================
