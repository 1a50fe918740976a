--------------------------- MODULE RegistryContract ---------------------------
(***************************************************************************)
(* What the schema registry promises to those who publish schemas, read    *)
(* them and listen to them, without its lock and its calls: entries are    *)
(* announced one after another, each to every listener there is, once and  *)
(* with the registry as it then stands; and nobody reads the registry, or  *)
(* begins to listen to it, in the middle of an announcement.               *)
(***************************************************************************)
CONSTANTS Reader, Listener, Resource, Stored, NoEntry

VARIABLES registry,     \* what is stored under each resource name
          audience,     \* those who listen
          behind,       \* those who have not been told of the latest entry
          told,         \* the registry as each listener was told of it
          read          \* the registry as each reader last read it

kvars == <<registry, audience, behind, told, read>>

KInit ==
    /\ registry = [r \in Resource |-> NoEntry]
    /\ audience = {} /\ behind = {}
    /\ told = [l \in Listener |-> registry]
    /\ read = [c \in Reader |-> registry]

\* A new entry, or a new document for one; the next waits until all know of it.
Store(r, d) ==
    /\ behind = {}
    /\ registry' = [registry EXCEPT ![r] = d]
    /\ behind' = audience
    /\ UNCHANGED <<audience, told, read>>

Tell(l) ==
    /\ l \in behind
    /\ told' = [told EXCEPT ![l] = registry]
    /\ behind' = behind \ {l}
    /\ UNCHANGED <<registry, audience, read>>

\* What was stored before is where a listener begins.
Listen(l) ==
    /\ behind = {}
    /\ l \notin audience
    /\ audience' = audience \cup {l}
    /\ told' = [told EXCEPT ![l] = registry]
    /\ UNCHANGED <<registry, behind, read>>

Read(c) ==
    /\ behind = {}
    /\ read' = [read EXCEPT ![c] = registry]
    /\ UNCHANGED <<registry, audience, behind, told>>

KNext ==
    \/ \E r \in Resource, d \in Stored : Store(r, d)
    \/ \E l \in Listener : Tell(l) \/ Listen(l)
    \/ \E c \in Reader : Read(c)

KSpec == KInit /\ [][KNext]_kvars

=============================================================================
