-------------------------- MODULE ControllerContract --------------------------
(***************************************************************************)
(* What a CRUD controller promises to the owner of the repository, without *)
(* guards, policies, hooks and bodies: a request changes the repository    *)
(* once at most, in one step and before it is answered; it changes no      *)
(* record that it does not name; an update or a delete by id comes after   *)
(* each of its records was found in scope, and never brings back one that  *)
(* has gone meanwhile; an insert stores all of its records, over none that *)
(* exists, or nothing.                                                     *)
(***************************************************************************)
EXTENDS Naturals, Sequences

CONSTANTS Request, Id, Row, NoRecord, Owner,
          Op, Creates, Updates, Deletes,
          Scoped,       \* operations that look their records up first
          Visible       \* as in Controller

VARIABLES store,        \* the repository
          call,         \* what each request asks for, once it has come in
          found,        \* the records each has looked up, as they were then
          changed,      \* the ids whose records each has changed
          reply         \* the kind of its answer

kvars == <<store, call, found, changed, reply>>

KInit ==
    /\ store \in [Id -> Row \cup {NoRecord}]
    /\ call = [r \in Request |-> [op |-> "none", ids |-> <<>>]]
    /\ found = [r \in Request |-> <<>>]
    /\ changed = [r \in Request |-> {}]
    /\ reply = [r \in Request |-> "none"]

Named(r) == {call[r].ids[i] : i \in DOMAIN call[r].ids}
Existing(r) == {id \in Named(r) : store[id] # NoRecord}
AllFound(r) == call[r].op \in Scoped => Len(found[r]) = Len(call[r].ids)

Ask(r) ==
    /\ call[r].op = "none"
    /\ call'[r] \in [op : Op, ids : Seq(Id)]
    /\ call' = [call EXCEPT ![r] = call'[r]]
    /\ UNCHANGED <<store, found, changed, reply>>

\* The next record is there, and its owner visible to the operation and to reads.
Find(r) ==
    /\ call[r].op \in Scoped
    /\ Len(found[r]) < Len(call[r].ids)
    /\ LET record == store[call[r].ids[Len(found[r]) + 1]]
       IN  /\ record # NoRecord
           /\ record[Owner] \in Visible[call[r].op] \cap Visible["read"]
           /\ found' = [found EXCEPT ![r] = Append(@, record)]
    /\ UNCHANGED <<store, call, changed, reply>>

Change(r) ==
    /\ reply[r] = "none" /\ changed[r] = {}
    /\ AllFound(r)
    /\ store' \in [Id -> Row \cup {NoRecord}]
    /\ \E S \in {Named(r), Existing(r)} :
          /\ changed' = [changed EXCEPT ![r] = S]
          /\ \A id \in Id \ S : store'[id] = store[id]
          /\ \/ call[r].op \in Creates /\ S = Named(r) /\ Existing(r) = {}
                /\ \A id \in S : store'[id] # NoRecord
             \/ call[r].op \in Updates /\ S = Existing(r) /\ \A id \in S : store'[id] # NoRecord
             \/ call[r].op \in Deletes /\ S = Existing(r) /\ \A id \in S : store'[id] = NoRecord
    /\ UNCHANGED <<call, found, reply>>

\* An error may come after the change: an After hook has failed.
Answer(r, kind) ==
    /\ call[r].op # "none" /\ reply[r] = "none"
    /\ kind = "ok" => AllFound(r) /\ (call[r].op \in Creates => changed[r] = Named(r))
    /\ reply' = [reply EXCEPT ![r] = kind]
    /\ UNCHANGED <<store, call, found, changed>>

KNext ==
    \E r \in Request :
        Ask(r) \/ Find(r) \/ Change(r) \/ \E kind \in {"ok", "error"} : Answer(r, kind)

KSpec == KInit /\ [][KNext]_kvars

=============================================================================
