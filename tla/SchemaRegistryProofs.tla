-------------------------- MODULE SchemaRegistryProofs --------------------------
(***************************************************************************)
(* Theorems about SchemaRegistry, for any clients, resources, documents    *)
(* and listeners.                                                          *)
(***************************************************************************)
EXTENDS SchemaRegistry, SequenceTheorems, TLAPS

\* While upsert calls the listeners, the entry is stored, a listener that has
\* been called agrees with the registry, and any other is still to be called
\* and lacks this one entry.
Announcing ==
    \A c \in Client : pc[c] = "notify" =>
        /\ arg[c] \in Resource \X Document
        /\ entries[arg[c][1]] = Cloned(arg[c][2])
        /\ \A l \in Registered :
              \/ view[l] = entries
              \/ /\ \E i \in DOMAIN todo[c] : todo[c][i] = l
                 /\ [view[l] EXCEPT ![arg[c][1]] = Cloned(arg[c][2])] = entries

\* What a client carries fits the call it is in.
Calls ==
    \A c \in Client :
        /\ pc[c] = "upsert" => arg[c] \in Resource \X Document
        /\ pc[c] = "add" => arg[c] \in Listener

RIInv == RTypeOK /\ ListenersCurrent /\ Announcing /\ Calls

-----------------------------------------------------------------------------

\* A stored document is a document or none (cloneSchemaDocument).
LEMMA ClonedType ==
    ASSUME NEW d \in Document PROVE Cloned(d) \in Stored
BY DEF Cloned, Stored

\* The registered listeners are listeners, and one more after addListener.
LEMMA RegisteredType ==
    ASSUME listeners \in Seq(Listener)
    PROVE  /\ Registered \subseteq Listener
           /\ \A l \in Listener :
                 {Append(listeners, l)[i] : i \in DOMAIN Append(listeners, l)}
                     = Registered \cup {l}
<1>1. DOMAIN listeners = 1 .. Len(listeners) /\ Len(listeners) \in Nat
  OBVIOUS
<1>2. Registered \subseteq Listener
  BY <1>1 DEF Registered
<1>3. ASSUME NEW l \in Listener
      PROVE  {Append(listeners, l)[i] : i \in DOMAIN Append(listeners, l)}
                 = Registered \cup {l}
  <2> DEFINE s == Append(listeners, l)
  <2>1. /\ DOMAIN s = 1 .. Len(listeners) + 1
        /\ \A i \in 1 .. Len(listeners) : s[i] = listeners[i]
        /\ s[Len(listeners) + 1] = l
    BY <1>1
  <2> HIDE DEF s
  <2>2. 1 .. Len(listeners) + 1 = (1 .. Len(listeners)) \cup {Len(listeners) + 1}
    BY <1>1
  <2>3. {s[i] : i \in DOMAIN s} = Registered \cup {l}
    BY <1>1, <2>1, <2>2 DEF Registered
  <2> QED
    BY <2>3 DEF s
<1> QED
  BY <1>2, <1>3

\* An empty registry and no listeners.
LEMMA InitHolds == RInit => RIInv
<1> SUFFICES ASSUME RInit PROVE RIInv
  OBVIOUS
<1>1. RTypeOK
  BY RegistryAssumption DEF RInit, RTypeOK, Entries
<1>2. Registered = {}
  BY DEF RInit, Registered
<1> QED
  BY <1>1, <1>2 DEF RInit, RIInv, ListenersCurrent, Announcing, Calls

-----------------------------------------------------------------------------
(* One lemma per action.                                                   *)

LEMMA RegisterSchemaEntryStep ==
    ASSUME RIInv, NEW c \in Client, NEW r \in Resource, NEW d \in Document,
           RegisterSchemaEntry(c, r, d)
    PROVE  RIInv'
<1> USE DEF RIInv, RegisterSchemaEntry
<1>1. RTypeOK'
  BY DEF RTypeOK
<1>2. ListenersCurrent'
  BY DEF ListenersCurrent, Registered
<1>3. Announcing'
  BY DEF Announcing, Registered, RTypeOK
<1>4. Calls'
  BY DEF Calls, RTypeOK
<1> QED
  BY <1>1, <1>2, <1>3, <1>4

LEMMA RegisterSchemaListenerStep ==
    ASSUME RIInv, NEW c \in Client, NEW l \in Listener, RegisterSchemaListener(c, l)
    PROVE  RIInv'
<1> USE DEF RIInv, RegisterSchemaListener
<1>1. RTypeOK'
  BY DEF RTypeOK
<1>2. ListenersCurrent'
  BY DEF ListenersCurrent, Registered
<1>3. Announcing'
  BY DEF Announcing, Registered, RTypeOK
<1>4. Calls'
  BY DEF Calls, RTypeOK
<1> QED
  BY <1>1, <1>2, <1>3, <1>4

LEMMA ListSchemasStep ==
    ASSUME RIInv, NEW c \in Client, ListSchemas(c)
    PROVE  RIInv'
<1> USE DEF RIInv, ListSchemas
<1>1. RTypeOK'
  BY DEF RTypeOK
<1> QED
  BY <1>1 DEF ListenersCurrent, Announcing, Calls, Registered

\* The lock is free, so every listener agrees with the registry before the
\* entry is stored, and lacks just this entry afterwards.
LEMMA UpsertStep ==
    ASSUME RIInv, NEW c \in Client, Upsert(c)
    PROVE  RIInv'
<1> DEFINE r == arg[c][1]
           d == arg[c][2]
<1>1. arg[c] \in Resource \X Document /\ r \in Resource /\ d \in Document
  BY DEF RIInv, Calls, Upsert
<1>2. Cloned(d) \in Stored
  BY <1>1, ClonedType
<1>3. entries' = [entries EXCEPT ![r] = Cloned(d)] /\ entries' \in Entries
  BY <1>1, <1>2 DEF RIInv, RTypeOK, Upsert, Entries
<1>4. RTypeOK'
  BY <1>3, RegistryAssumption DEF RIInv, RTypeOK, Upsert
<1>5. ListenersCurrent'
  BY RegistryAssumption DEF ListenersCurrent, Upsert
<1>6. ASSUME NEW l \in Registered
      PROVE  /\ [view[l] EXCEPT ![r] = Cloned(d)] = entries'
             /\ \E i \in DOMAIN listeners : listeners[i] = l
  BY <1>3 DEF RIInv, ListenersCurrent, Upsert, Registered
<1>7. Announcing'
  <2> SUFFICES ASSUME NEW b \in Client, (pc[b] = "notify")'
               PROVE  /\ (arg[b] \in Resource \X Document)'
                      /\ (entries[arg[b][1]] = Cloned(arg[b][2]))'
                      /\ \A l \in Registered' :
                            \/ (view[l] = entries)'
                            \/ /\ (\E i \in DOMAIN todo[b] : todo[b][i] = l)'
                               /\ ([view[l] EXCEPT ![arg[b][1]] = Cloned(arg[b][2])] = entries)'
    BY DEF Announcing
  <2>1. b = c
    BY <1>4 DEF RTypeOK, Upsert
  <2>2. arg' = arg /\ view' = view /\ Registered' = Registered /\ todo'[c] = listeners
    BY DEF Upsert, Registered, RIInv, RTypeOK
  <2>3. entries'[r] = Cloned(d)
    BY <1>1, <1>3 DEF RIInv, RTypeOK, Entries
  <2> QED
    BY <1>1, <1>6, <2>1, <2>2, <2>3 DEF Cloned
<1>8. Calls'
  BY DEF RIInv, Calls, Upsert, RTypeOK
<1> QED
  BY <1>4, <1>5, <1>7, <1>8 DEF RIInv

\* The listener that is called catches up; the others keep what they know.
LEMMA NotifyStep ==
    ASSUME RIInv, NEW c \in Client, Notify(c)
    PROVE  RIInv'
<1> DEFINE r == arg[c][1]
           d == arg[c][2]
           h == Head(todo[c])
<1>1. /\ pc[c] = "notify" /\ writer = c
      /\ arg[c] \in Resource \X Document /\ r \in Resource /\ d \in Document
      /\ entries[r] = Cloned(d)
  BY DEF RIInv, RTypeOK, Announcing, Notify
<1>2. /\ todo[c] \in Seq(Listener) /\ todo[c] # <<>>
      /\ h \in Listener /\ Tail(todo[c]) \in Seq(Listener)
      /\ \A i \in DOMAIN todo[c] : i = 1 \/ (i - 1 \in DOMAIN Tail(todo[c])
                                             /\ Tail(todo[c])[i - 1] = todo[c][i])
  BY DEF RIInv, RTypeOK, Notify
<1>3. /\ view' = [view EXCEPT ![h][r] = Cloned(d)]
      /\ view'[h] = [view[h] EXCEPT ![r] = Cloned(d)]
      /\ \A l \in Listener \ {h} : view'[l] = view[l]
  BY <1>2 DEF RIInv, RTypeOK, Notify
<1>4. Cloned(d) \in Stored
  BY <1>1, ClonedType
<1>5. RTypeOK'
  BY <1>1, <1>2, <1>3, <1>4 DEF RIInv, RTypeOK, Notify, Entries
<1>6. ListenersCurrent'
  BY <1>1, RegistryAssumption DEF ListenersCurrent, Notify
<1>7. h = todo[c][1] /\ todo'[c] = Tail(todo[c])
  BY <1>2 DEF RIInv, RTypeOK, Notify
<1>8. ASSUME NEW l \in Registered
      PROVE  \/ view'[l] = entries
             \/ /\ \E i \in DOMAIN todo'[c] : todo'[c][i] = l
                /\ [view'[l] EXCEPT ![r] = Cloned(d)] = entries
  <2>1. l \in Listener
    BY RegisteredType DEF RIInv, RTypeOK
  <2>2. \/ view[l] = entries
        \/ /\ \E i \in DOMAIN todo[c] : todo[c][i] = l
           /\ [view[l] EXCEPT ![r] = Cloned(d)] = entries
    BY <1>1 DEF RIInv, Announcing
  <2>3. CASE l = h
    <3>1. CASE view[l] = entries
      BY <1>1, <1>3, <2>3, <3>1 DEF RIInv, RTypeOK, Entries
    <3>2. CASE [view[l] EXCEPT ![r] = Cloned(d)] = entries
      BY <1>3, <2>3, <3>2
    <3> QED
      BY <2>2, <3>1, <3>2
  <2>4. CASE l # h
    <3>1. view'[l] = view[l]
      BY <1>3, <2>1, <2>4
    <3>2. ASSUME NEW i \in DOMAIN todo[c], todo[c][i] = l
          PROVE  i - 1 \in DOMAIN todo'[c] /\ todo'[c][i - 1] = l
      BY <1>2, <1>7, <2>4, <3>2
    <3>3. ASSUME \E i \in DOMAIN todo[c] : todo[c][i] = l
          PROVE  \E i \in DOMAIN todo'[c] : todo'[c][i] = l
      BY <3>2, <3>3
    <3> QED
      BY <2>2, <3>1, <3>3
  <2> QED
    BY <2>3, <2>4
<1>9. Announcing'
  <2>1. \A b \in Client : pc'[b] = "notify" => b = c
    BY <1>1 DEF RIInv, RTypeOK, Notify
  <2>2. UNCHANGED <<entries, arg>> /\ Registered' = Registered
    BY DEF Notify, Registered
  <2> QED
    BY <1>1, <1>8, <2>1, <2>2 DEF Announcing, Cloned
<1>10. Calls'
  BY DEF RIInv, Calls, Notify
<1> QED
  BY <1>5, <1>6, <1>9, <1>10 DEF RIInv

\* Nobody is left to be called, so everybody agrees with the registry.
LEMMA UpsertReturnsStep ==
    ASSUME RIInv, NEW c \in Client, UpsertReturns(c)
    PROVE  RIInv'
<1>1. pc[c] = "notify" /\ writer = c /\ DOMAIN todo[c] = {}
  BY DEF RIInv, RTypeOK, UpsertReturns
<1>2. RTypeOK'
  BY <1>1, RegistryAssumption DEF RIInv, RTypeOK, UpsertReturns
<1>3. ListenersCurrent'
  BY <1>1 DEF RIInv, ListenersCurrent, Announcing, UpsertReturns, Registered
<1>4. Announcing' /\ Calls'
  BY <1>1, <1>2, RegistryAssumption DEF RIInv, Announcing, Calls, UpsertReturns, RTypeOK
<1> QED
  BY <1>2, <1>3, <1>4 DEF RIInv

\* The new listener starts with the registry as it is.
LEMMA AddListenerStep ==
    ASSUME RIInv, NEW c \in Client, AddListener(c)
    PROVE  RIInv'
<1> DEFINE l == arg[c]
<1>1. l \in Listener /\ \A b \in Client : pc[b] # "notify"
  BY RegistryAssumption DEF RIInv, Calls, AddListener, RTypeOK
<1>2. RTypeOK'
  BY <1>1 DEF RIInv, RTypeOK, AddListener
<1>3. Registered' = Registered \cup {l}
  <2>1. listeners' = Append(listeners, l) /\ listeners \in Seq(Listener)
    BY DEF AddListener, RIInv, RTypeOK
  <2> HIDE DEF l
  <2> QED
    BY <1>1, <2>1, RegisteredType DEF Registered
<1>4. /\ view'[l] = entries
      /\ \A k \in Registered : k # l => view'[k] = view[k]
  BY <1>1, RegisteredType DEF RIInv, RTypeOK, AddListener
<1>5. ListenersCurrent'
  BY <1>3, <1>4 DEF RIInv, ListenersCurrent, AddListener
<1>6. Announcing' /\ Calls'
  BY <1>1 DEF RIInv, Announcing, Calls, AddListener, RTypeOK
<1> QED
  BY <1>2, <1>5, <1>6 DEF RIInv

-----------------------------------------------------------------------------

LEMMA NextHolds == RIInv /\ [RNext]_rvars => RIInv'
<1> SUFFICES ASSUME RIInv, [RNext]_rvars PROVE RIInv'
  OBVIOUS
<1>1. CASE UNCHANGED rvars
  BY <1>1 DEF rvars, RIInv, RTypeOK, ListenersCurrent, Announcing, Calls, Registered
<1>2. ASSUME NEW c \in Client, NEW r \in Resource, NEW d \in Document,
             RegisterSchemaEntry(c, r, d)
      PROVE  RIInv'
  BY <1>2, RegisterSchemaEntryStep
<1>3. ASSUME NEW c \in Client, NEW l \in Listener, RegisterSchemaListener(c, l)
      PROVE  RIInv'
  BY <1>3, RegisterSchemaListenerStep
<1>4. ASSUME NEW c \in Client, ListSchemas(c) PROVE RIInv'
  BY <1>4, ListSchemasStep
<1>5. ASSUME NEW c \in Client, InCall(c) PROVE RIInv'
  BY <1>5, UpsertStep, NotifyStep, UpsertReturnsStep, AddListenerStep DEF InCall
<1> QED
  BY <1>1, <1>2, <1>3, <1>4, <1>5 DEF RNext

\* The types, and that a client is past Lock exactly while it holds the lock.
THEOREM TypeCorrect == RSpec => []RTypeOK
<1>1. RIInv => RTypeOK
  BY DEF RIInv
<1> QED
  BY <1>1, InitHolds, NextHolds, PTL DEF RSpec

\* Listeners agree with the registry whenever nobody is inside upsert, however
\* many publishers, listeners and documents there are.
THEOREM ListenersAgree == RSpec => []ListenersCurrent
<1>1. RIInv => ListenersCurrent
  BY DEF RIInv
<1> QED
  BY <1>1, InitHolds, NextHolds, PTL DEF RSpec

\* No reader sees a document that a listener has not been told of.
THEOREM AnnouncedFirst == RSpec => VisibleAfterAnnounced
<1> DEFINE Seen == \A c \in Client : snapshot'[c] # snapshot[c]
                      => \A l \in Registered : view[l] = snapshot'[c]
<1>1. RIInv /\ RNext => Seen
  <2> SUFFICES ASSUME RIInv, RNext, NEW c \in Client, snapshot'[c] # snapshot[c],
                      NEW l \in Registered
               PROVE  view[l] = snapshot'[c]
    OBVIOUS
  <2>1. PICK b \in Client : ListSchemas(b)
    BY DEF RNext, InCall, RegisterSchemaEntry, RegisterSchemaListener, Upsert,
           Notify, UpsertReturns, AddListener
  <2>2. snapshot'[c] = entries
    BY <2>1 DEF ListSchemas, RIInv, RTypeOK
  <2> QED
    BY <2>1, <2>2 DEF ListSchemas, RIInv, ListenersCurrent
<1>2. RIInv /\ UNCHANGED rvars => UNCHANGED rvars
  OBVIOUS
<1>3. RIInv /\ [RNext]_rvars => [Seen]_rvars
  BY <1>1
<1> QED
  BY <1>3, InitHolds, NextHolds, PTL DEF RSpec, VisibleAfterAnnounced

-----------------------------------------------------------------------------
(* The contract.                                                           *)

Distinct(s) == \A i, j \in DOMAIN s : s[i] = s[j] => i = j

\* A listener is registered once and is called once for each entry.
Once ==
    /\ Distinct(listeners)
    /\ \A c \in Client : pc[c] = "add" =>
          /\ arg[c] \notin Registered
          /\ \A b \in Client \ {c} : pc[b] = "add" => arg[b] # arg[c]
    /\ \A c \in Client : pc[c] = "notify" =>
          /\ Distinct(todo[c])
          /\ \A i \in DOMAIN todo[c] : todo[c][i] \in Registered

\* A sequence without its first element.
LEMMA TailOf ==
    ASSUME NEW S, NEW s \in Seq(S), s # <<>>
    PROVE  /\ Tail(s) \in Seq(S) /\ Head(s) = s[1] /\ 1 \in DOMAIN s
           /\ \A i \in DOMAIN Tail(s) : i + 1 \in DOMAIN s /\ Tail(s)[i] = s[i + 1]
           /\ \A i \in DOMAIN s : i = 1 \/ (i - 1 \in DOMAIN Tail(s) /\ Tail(s)[i - 1] = s[i])
           /\ DOMAIN Tail(s) \subseteq Nat \ {0} /\ DOMAIN s \subseteq Nat \ {0}
OBVIOUS

\* What Notify leaves to be called.
LEMMA NotifyTakes ==
    ASSUME RTypeOK, Once, NEW c \in Client, Notify(c)
    PROVE  /\ Head(todo[c]) \in Registered
           /\ Distinct(todo'[c])
           /\ \A l : (\E i \in DOMAIN todo'[c] : todo'[c][i] = l) <=>
                        /\ \E i \in DOMAIN todo[c] : todo[c][i] = l
                        /\ l # Head(todo[c])
<1> DEFINE s == todo[c]
<1>1. /\ s \in Seq(Listener) /\ s # <<>> /\ todo'[c] = Tail(s) /\ pc[c] = "notify"
  BY DEF RTypeOK, Notify
<1>2. Distinct(s) /\ \A i \in DOMAIN s : s[i] \in Registered
  BY <1>1 DEF Once
<1> HIDE DEF s
<1>3. /\ Head(s) = s[1] /\ 1 \in DOMAIN s
      /\ \A i \in DOMAIN Tail(s) : i + 1 \in DOMAIN s /\ Tail(s)[i] = s[i + 1]
      /\ \A i \in DOMAIN s : i = 1 \/ (i - 1 \in DOMAIN Tail(s) /\ Tail(s)[i - 1] = s[i])
      /\ DOMAIN Tail(s) \subseteq Nat \ {0}
  BY <1>1, TailOf
<1>4. Distinct(Tail(s))
  <2> SUFFICES ASSUME NEW i \in DOMAIN Tail(s), NEW j \in DOMAIN Tail(s), Tail(s)[i] = Tail(s)[j]
               PROVE  i = j
    BY DEF Distinct
  <2>1. i + 1 = j + 1
    BY <1>2, <1>3 DEF Distinct
  <2> QED
    BY <1>3, <2>1
<1>5. ASSUME NEW i \in DOMAIN Tail(s) PROVE Tail(s)[i] # Head(s)
  <2>1. i + 1 # 1
    BY <1>3
  <2> QED
    BY <1>2, <1>3, <2>1 DEF Distinct
<1>6. ASSUME NEW l
      PROVE  (\E i \in DOMAIN Tail(s) : Tail(s)[i] = l) <=>
                 (\E i \in DOMAIN s : s[i] = l) /\ l # Head(s)
  <2> DEFINE In(t) == \E i \in DOMAIN t : t[i] = l
  <2>1. In(Tail(s)) => In(s) /\ l # Head(s)
    BY <1>3, <1>5
  <2>2. In(s) /\ l # Head(s) => In(Tail(s))
    BY <1>3
  <2>3. In(Tail(s)) <=> In(s) /\ l # Head(s)
    <3> HIDE DEF In
    <3> QED
      BY <2>1, <2>2
  <2> QED
    BY <2>3
<1>7. Head(s) \in Registered
  BY <1>2, <1>3
<1>8. Distinct(todo'[c])
  BY <1>1, <1>4
<1>9. \A l : (\E i \in DOMAIN todo'[c] : todo'[c][i] = l) <=>
                 (\E i \in DOMAIN s : s[i] = l) /\ l # Head(s)
  BY <1>1, <1>6
<1> QED
  BY <1>7, <1>8, <1>9 DEF s

LEMMA OnceNext ==
    ASSUME RIInv, Once, RNext
    PROVE  Once'
<1>1. RTypeOK /\ Calls
  BY DEF RIInv
<1>2. PICK c \in Client :
        \/ \E r \in Resource, d \in Document : RegisterSchemaEntry(c, r, d)
        \/ \E l \in Listener : RegisterSchemaListener(c, l)
        \/ ListSchemas(c)
        \/ InCall(c)
  BY DEF RNext
<1>3. CASE (\E r \in Resource, d \in Document : RegisterSchemaEntry(c, r, d)) \/ ListSchemas(c)
  <2>1. /\ UNCHANGED <<listeners, todo>> /\ Registered' = Registered
        /\ \A b \in Client : pc'[b] \in {"add", "notify"} => pc'[b] = pc[b] /\ arg'[b] = arg[b]
    BY <1>1, <1>3 DEF RegisterSchemaEntry, ListSchemas, Registered, RTypeOK
  <2> QED
    BY <2>1 DEF Once, Distinct
<1>4. ASSUME NEW l \in Listener, RegisterSchemaListener(c, l) PROVE Once'
  <2>1. /\ UNCHANGED <<listeners, todo>> /\ Registered' = Registered
        /\ l \notin Registered /\ \A b \in Client : arg[b] # l
        /\ pc'[c] = "add" /\ arg'[c] = l
        /\ \A b \in Client : b # c => pc'[b] = pc[b] /\ arg'[b] = arg[b]
    BY <1>1, <1>4 DEF RegisterSchemaListener, Registered, RTypeOK
  <2> QED
    BY <2>1 DEF Once, Distinct
<1>5. CASE Upsert(c)
  <2>1. /\ UNCHANGED <<listeners, arg>> /\ Registered' = Registered
        /\ pc'[c] = "notify" /\ todo'[c] = listeners
        /\ \A b \in Client : b # c => pc'[b] = pc[b] /\ todo'[b] = todo[b]
    BY <1>1, <1>5 DEF Upsert, Registered, RTypeOK
  <2>2. \A i \in DOMAIN listeners : listeners[i] \in Registered
    BY DEF Registered
  <2> QED
    BY <2>1, <2>2 DEF Once, Distinct
<1>6. CASE Notify(c)
  <2>1. /\ UNCHANGED <<listeners, arg, pc>> /\ Registered' = Registered
        /\ \A b \in Client : b # c => todo'[b] = todo[b]
    BY <1>1, <1>6 DEF Notify, Registered, RTypeOK
  <2>2. Distinct(todo'[c])
    BY <1>1, <1>6, NotifyTakes
  <2>3. \A i \in DOMAIN todo'[c] : todo'[c][i] \in Registered
    <3>1. \A i \in DOMAIN todo[c] : todo[c][i] \in Registered
      BY <1>6 DEF Once, Notify
    <3> QED
      BY <1>1, <1>6, <3>1, NotifyTakes
  <2> QED
    BY <2>1, <2>2, <2>3 DEF Once, Distinct
<1>7. CASE UpsertReturns(c)
  <2>1. /\ UNCHANGED <<listeners, todo>> /\ Registered' = Registered
        /\ pc'[c] = "idle"
        /\ \A b \in Client : b # c => pc'[b] = pc[b] /\ arg'[b] = arg[b]
    BY <1>1, <1>7 DEF UpsertReturns, Registered, RTypeOK
  <2> QED
    BY <2>1 DEF Once, Distinct
<1>8. CASE AddListener(c)
  <2>1. /\ listeners' = Append(listeners, arg[c]) /\ UNCHANGED todo
        /\ pc[c] = "add" /\ pc'[c] = "idle"
        /\ \A b \in Client : b # c => pc'[b] = pc[b] /\ arg'[b] = arg[b]
        /\ arg[c] \in Listener
    BY <1>1, <1>8 DEF AddListener, RTypeOK, Calls
  <2>2. listeners \in Seq(Listener) /\ arg[c] \notin Registered
    BY <1>1, <2>1 DEF RTypeOK, Once
  <2>3. Registered' = Registered \cup {arg[c]}
    BY <2>1, <2>2, RegisteredType DEF Registered
  <2>4. Distinct(listeners')
    <3>1. /\ DOMAIN listeners = 1 .. Len(listeners) /\ Len(listeners) \in Nat
          /\ DOMAIN listeners' = 1 .. Len(listeners) + 1
          /\ \A i \in DOMAIN listeners : listeners'[i] = listeners[i]
          /\ listeners'[Len(listeners) + 1] = arg[c]
      BY <2>1, <2>2
    <3>2. \A i \in DOMAIN listeners : listeners[i] # arg[c]
      BY <2>2 DEF Registered
    <3>3. Distinct(listeners)
      BY DEF Once
    <3>4. \A i \in DOMAIN listeners' : i \in DOMAIN listeners \/ i = Len(listeners) + 1
      BY <3>1
    <3> QED
      BY <3>1, <3>2, <3>3, <3>4 DEF Distinct
  <2>5. \A b \in Client : pc'[b] = "add" =>
            /\ arg'[b] \notin Registered'
            /\ \A a \in Client \ {b} : pc'[a] = "add" => arg'[a] # arg'[b]
    <3> SUFFICES ASSUME NEW b \in Client, pc'[b] = "add"
                 PROVE  /\ arg'[b] \notin Registered'
                        /\ \A a \in Client \ {b} : pc'[a] = "add" => arg'[a] # arg'[b]
      OBVIOUS
    <3>1. b # c /\ pc[b] = "add" /\ arg'[b] = arg[b]
      BY <2>1
    <3>2. arg[b] \notin Registered /\ arg[b] # arg[c]
      BY <2>1, <3>1 DEF Once
    <3>3. \A a \in Client \ {b} : pc'[a] = "add" => a # c
      BY <2>1
    <3> QED
      BY <2>1, <2>3, <3>1, <3>2, <3>3 DEF Once
  <2>6. \A b \in Client : pc'[b] = "notify" =>
            /\ Distinct(todo'[b])
            /\ \A i \in DOMAIN todo'[b] : todo'[b][i] \in Registered'
    BY <2>1, <2>3 DEF Once
  <2> QED
    BY <2>4, <2>5, <2>6 DEF Once, Distinct
<1> QED
  BY <1>2, <1>3, <1>4, <1>5, <1>6, <1>7, <1>8 DEF InCall

LEMMA OnceHolds == RSpec => [](RIInv /\ Once)
<1>1. RInit => Once
  BY DEF RInit, Once, Distinct, Registered
<1>2. RIInv /\ Once /\ [RNext]_rvars => (RIInv /\ Once)'
  <2>1. Once /\ UNCHANGED rvars => Once'
    BY DEF rvars, Once, Distinct, Registered
  <2> QED
    BY <2>1, NextHolds, OnceNext
<1> QED
  BY <1>1, <1>2, InitHolds, PTL DEF RSpec

-----------------------------------------------------------------------------
(* Each action as a step of the contract.                                  *)

\* Nobody is left to be told while nobody is inside upsert.
LEMMA AllTold ==
    ASSUME RTypeOK, writer = NoClient
    PROVE  Behind = {}
BY RegistryAssumption DEF RTypeOK, Behind

LEMMA UpsertStores ==
    ASSUME RIInv, Once, NEW c \in Client, Upsert(c)
    PROVE  Contract!KNext
<1> DEFINE r == arg[c][1]
           d == Cloned(arg[c][2])
<1>1. RTypeOK /\ arg[c] \in Resource \X Document
  BY DEF RIInv, Calls, Upsert
<1>2. r \in Resource /\ d \in Stored
  BY <1>1, ClonedType
<1>3. /\ entries' = [entries EXCEPT ![r] = d]
      /\ UNCHANGED <<view, snapshot>> /\ Registered' = Registered
      /\ writer = NoClient /\ pc'[c] = "notify" /\ todo'[c] = listeners
      /\ \A b \in Client : pc[b] # "notify" /\ (b # c => pc'[b] # "notify")
  BY <1>1, RegistryAssumption DEF Upsert, Registered, RTypeOK
<1> HIDE DEF r, d
<1>4. Behind' = Registered
  <2>1. Registered \subseteq Listener
    BY <1>1, RegisteredType DEF RTypeOK
  <2> QED
    BY <1>3, <2>1 DEF Behind, Registered
<1>5. Behind = {}
  BY <1>1, <1>3, AllTold
<1>6. Contract!Store(r, d)
  BY <1>3, <1>4, <1>5 DEF Contract!Store
<1> QED
  BY <1>2, <1>6 DEF Contract!KNext

LEMMA NotifyTells ==
    ASSUME RIInv, Once, NEW c \in Client, Notify(c)
    PROVE  Contract!KNext
<1> DEFINE h == Head(todo[c])
<1>1. /\ RTypeOK /\ pc[c] = "notify" /\ writer = c
      /\ UNCHANGED <<entries, snapshot, pc>> /\ Registered' = Registered
  BY DEF RIInv, RTypeOK, Notify, Registered
<1>2. \A b \in Client : pc[b] = "notify" => b = c
  BY <1>1 DEF RTypeOK
<1>3. /\ h \in Registered /\ h \in Listener
      /\ \A l : (\E i \in DOMAIN todo'[c] : todo'[c][i] = l) <=>
                   (\E i \in DOMAIN todo[c] : todo[c][i] = l) /\ l # h
  BY <1>1, NotifyTakes, RegisteredType DEF RTypeOK
<1>4. \E i \in DOMAIN todo[c] : todo[c][i] = h
  <2>1. todo[c] \in Seq(Listener) /\ todo[c] # <<>>
    BY <1>1 DEF RTypeOK, Notify
  <2> QED
    BY <2>1, TailOf
<1>5. h \in Behind /\ Behind' = Behind \ {h}
  BY <1>1, <1>2, <1>3, <1>4 DEF Behind
<1>6. view' = [view EXCEPT ![h] = entries]
  <2> DEFINE r == arg[c][1]
             d == Cloned(arg[c][2])
  <2>1. /\ arg[c] \in Resource \X Document /\ r \in Resource /\ entries[r] = d
        /\ view[h] = entries \/ [view[h] EXCEPT ![r] = d] = entries
    BY <1>1, <1>3 DEF RIInv, Announcing
  <2>2. view' = [view EXCEPT ![h] = [view[h] EXCEPT ![r] = d]]
    BY <1>1, <1>3 DEF Notify, RTypeOK
  <2>3. [entries EXCEPT ![r] = d] = entries
    BY <1>1, <2>1 DEF RTypeOK, Entries
  <2>4. [view[h] EXCEPT ![r] = d] = entries
    BY <2>1, <2>3
  <2> QED
    BY <2>2, <2>4
<1> HIDE DEF h
<1>7. Contract!Tell(h)
  BY <1>1, <1>5, <1>6 DEF Contract!Tell
<1> QED
  BY <1>3, <1>7 DEF Contract!KNext

LEMMA AddListenerListens ==
    ASSUME RIInv, Once, NEW c \in Client, AddListener(c)
    PROVE  Contract!KNext
<1> DEFINE l == arg[c]
<1>1. /\ RTypeOK /\ pc[c] = "add" /\ writer = NoClient /\ l \in Listener
      /\ listeners' = Append(listeners, l) /\ listeners \in Seq(Listener)
      /\ view' = [view EXCEPT ![l] = entries] /\ UNCHANGED <<entries, snapshot>>
  BY DEF RIInv, RTypeOK, Calls, AddListener
<1>2. l \notin Registered
  BY <1>1 DEF Once
<1>3. Registered' = Registered \cup {l}
  BY <1>1, RegisteredType DEF Registered
<1>4. Behind = {} /\ Behind' = {}
  <2>1. RIInv'
    BY AddListenerStep
  <2>2. writer' = NoClient /\ RTypeOK'
    BY <1>1, <2>1 DEF AddListener, RIInv
  <2>3. \A b \in Client : pc[b] # "notify" /\ pc'[b] # "notify"
    BY <1>1, <2>2, RegistryAssumption DEF RTypeOK
  <2> QED
    BY <2>3 DEF Behind
<1> HIDE DEF l
<1>5. Contract!Listen(l)
  BY <1>1, <1>2, <1>3, <1>4 DEF Contract!Listen
<1> QED
  BY <1>1, <1>5 DEF Contract!KNext

\* Calls that begin or return, and those that wait, are not seen.
LEMMA OthersStutter ==
    ASSUME RIInv, NEW c \in Client,
           \/ \E r \in Resource, d \in Document : RegisterSchemaEntry(c, r, d)
           \/ \E l \in Listener : RegisterSchemaListener(c, l)
           \/ ListSchemas(c) \/ UpsertReturns(c)
    PROVE  UNCHANGED <<entries, view, Behind>> /\ Registered' = Registered
<1>1. RTypeOK
  BY DEF RIInv
<1>2. UNCHANGED <<entries, view, todo, listeners>>
  BY DEF RegisterSchemaEntry, RegisterSchemaListener, ListSchemas, UpsertReturns
<1>3. \A b \in Client : b # c => pc'[b] = pc[b]
  BY <1>1 DEF RTypeOK, RegisterSchemaEntry, RegisterSchemaListener, ListSchemas, UpsertReturns
<1>4. \/ pc[c] # "notify" /\ pc'[c] # "notify"
      \/ DOMAIN todo[c] = {}
  BY <1>1 DEF RTypeOK, RegisterSchemaEntry, RegisterSchemaListener, ListSchemas, UpsertReturns
<1>5. Behind' = Behind
  BY <1>2, <1>3, <1>4 DEF Behind
<1> QED
  BY <1>2, <1>5 DEF Registered

\* Under its lock the registry announces entry after entry, each to every
\* listener once, and is neither read nor joined in between: for any clients
\* that register, listen and read side by side.
THEOREM Refinement == RSpec => KeepsContract
<1>1. RInit => Contract!KInit
  <2> SUFFICES ASSUME RInit PROVE Contract!KInit
    OBVIOUS
  <2>1. Registered = {} /\ Behind = {}
    BY DEF RInit, Registered, Behind
  <2> QED
    BY <2>1 DEF RInit, Contract!KInit
<1>2. RIInv /\ Once /\ [RNext]_rvars => [Contract!KNext]_(Contract!kvars)
  <2> SUFFICES ASSUME RIInv, Once, [RNext]_rvars
               PROVE  [Contract!KNext]_(Contract!kvars)
    OBVIOUS
  <2>1. CASE UNCHANGED rvars
    BY <2>1 DEF rvars, Contract!kvars, Registered, Behind
  <2>2. ASSUME NEW c \in Client,
               \/ \E r \in Resource, d \in Document : RegisterSchemaEntry(c, r, d)
               \/ \E l \in Listener : RegisterSchemaListener(c, l)
               \/ UpsertReturns(c)
        PROVE  UNCHANGED Contract!kvars
    <3>1. UNCHANGED <<entries, view, Behind>> /\ Registered' = Registered
      BY <2>2, OthersStutter
    <3>2. UNCHANGED snapshot
      BY <2>2 DEF RegisterSchemaEntry, RegisterSchemaListener, UpsertReturns
    <3> QED
      BY <3>1, <3>2 DEF Contract!kvars
  <2>3. ASSUME NEW c \in Client, ListSchemas(c) PROVE Contract!KNext
    <3>1. UNCHANGED <<entries, view, Behind>> /\ Registered' = Registered
      BY <2>3, OthersStutter
    <3>2. Behind = {} /\ snapshot' = [snapshot EXCEPT ![c] = entries]
      BY <2>3, AllTold DEF RIInv, ListSchemas
    <3>3. Contract!Read(c)
      BY <3>1, <3>2 DEF Contract!Read
    <3> QED
      BY <3>3 DEF Contract!KNext
  <2>4. ASSUME NEW c \in Client, InCall(c)
        PROVE  [Contract!KNext]_(Contract!kvars)
    BY <2>2, <2>4, UpsertStores, NotifyTells, AddListenerListens DEF InCall
  <2> QED
    BY <2>1, <2>2, <2>3, <2>4 DEF RNext
<1> QED
  BY <1>1, <1>2, OnceHolds, PTL DEF RSpec, KeepsContract, Contract!KSpec

-----------------------------------------------------------------------------
(* The lock (schema_registry.go:45). ENABLED is beyond the provers: MayMove *)
(* writes down the guards of InCall, and TLC compares the two.             *)

\* Client c is waiting for a lock that is free, or at work under the lock.
MayMove(c) ==
    \/ pc[c] \in {"upsert", "add"} /\ writer = NoClient
    \/ pc[c] = "notify" /\ (todo[c] = <<>> \/ Head(todo[c]) \notin Reentrant)

MayMoveIsExact == \A c \in Client : MayMove(c) <=> ENABLED InCall(c)

\* A call that cannot go on waits for the holder of the lock, who can, unless
\* the listener it has to call next calls the registry back.
WaitsForTheHolder ==
    \A c \in Client : pc[c] # "idle" =>
        \/ MayMove(c)
        \/ \E b \in Client :
              /\ writer = b
              /\ \/ MayMove(b)
                 \/ todo[b] # <<>> /\ Head(todo[b]) \in Registered \cap Reentrant

\* No circle of waiting calls, however many clients register, listen and read:
\* with no listener that calls the registry back, somebody can always go on, and
\* with one, upsert stops only when it is that listener's turn.
THEOREM OnlyReentryStops == RSpec => []WaitsForTheHolder
<1>1. RIInv /\ Once => WaitsForTheHolder
  <2> SUFFICES ASSUME RIInv, Once, NEW c \in Client, pc[c] # "idle", ~MayMove(c)
               PROVE  \E b \in Client :
                          /\ writer = b
                          /\ \/ MayMove(b)
                             \/ todo[b] # <<>> /\ Head(todo[b]) \in Registered \cap Reentrant
    BY DEF WaitsForTheHolder
  <2>1. RTypeOK /\ \E b \in Client : writer = b
    BY DEF RIInv, RTypeOK, MayMove
  <2>2. PICK b \in Client : writer = b
    BY <2>1
  <2>3. pc[b] = "notify" /\ todo[b] \in Seq(Listener)
    BY <2>1, <2>2 DEF RTypeOK
  <2>4. ASSUME todo[b] # <<>> PROVE Head(todo[b]) \in Registered
    <3>1. Head(todo[b]) = todo[b][1] /\ 1 \in DOMAIN todo[b]
      BY <2>3, <2>4, TailOf
    <3> QED
      BY <2>3, <3>1 DEF Once
  <2> QED
    BY <2>2, <2>3, <2>4 DEF MayMove
<1> QED
  BY <1>1, OnceHolds, PTL

-----------------------------------------------------------------------------
(* Entries without a document (schema_registry.go:90).                     *)

\* An entry loses its document only to one that json.Marshal refuses.
LostToUnencodable ==
    [][\A r \in Resource :
          entries'[r] = NilDocument /\ entries[r] # NilDocument
              => \E c \in Client : /\ pc[c] = "upsert"
                                   /\ arg[c][1] = r
                                   /\ arg[c][2] \in Unencodable]_rvars

\* cloneSchemaDocument is the only way to an entry without a document.
THEOREM OnlyUnencodableAreLost == RSpec => LostToUnencodable
<1> DEFINE Lost == \A r \in Resource :
              entries'[r] = NilDocument /\ entries[r] # NilDocument
                  => \E c \in Client : /\ pc[c] = "upsert"
                                       /\ arg[c][1] = r
                                       /\ arg[c][2] \in Unencodable
<1>1. RIInv /\ [RNext]_rvars => [Lost]_rvars
  <2> SUFFICES ASSUME RIInv, RNext, NEW r \in Resource,
                      entries'[r] = NilDocument, entries[r] # NilDocument
               PROVE  \E c \in Client : /\ pc[c] = "upsert"
                                        /\ arg[c][1] = r
                                        /\ arg[c][2] \in Unencodable
    OBVIOUS
  <2>1. PICK c \in Client : Upsert(c)
    BY DEF RNext, InCall, RegisterSchemaEntry, RegisterSchemaListener, ListSchemas,
           Notify, UpsertReturns, AddListener
  <2>2. /\ pc[c] = "upsert" /\ arg[c][2] \in Document /\ entries \in Entries
        /\ entries' = [entries EXCEPT ![arg[c][1]] = Cloned(arg[c][2])]
    BY <2>1 DEF RIInv, RTypeOK, Calls, Upsert
  <2>3. arg[c][1] = r /\ Cloned(arg[c][2]) = NilDocument
    BY <2>2 DEF Entries
  <2> QED
    BY <2>2, <2>3, RegistryAssumption DEF Cloned
<1> QED
  BY <1>1, InitHolds, NextHolds, PTL DEF RSpec, LostToUnencodable

\* RegisterSchemaEntry breaks EntriesCarryDocument only by what cloneSchemaDocument
\* cannot encode: where nobody brings such a document, every entry carries one.
THEOREM EncodableAreKept ==
    ASSUME Unencodable = {} PROVE RSpec => []EntriesCarryDocument
<1>1. RInit => EntriesCarryDocument
  BY RegistryAssumption DEF RInit, EntriesCarryDocument
<1>2. RIInv /\ EntriesCarryDocument /\ [RNext]_rvars => EntriesCarryDocument'
  <2> SUFFICES ASSUME RIInv, EntriesCarryDocument, [RNext]_rvars
               PROVE  EntriesCarryDocument'
    OBVIOUS
  <2>1. ASSUME NEW c \in Client, Upsert(c) PROVE EntriesCarryDocument'
    <3>1. /\ arg[c][2] \in Document /\ entries \in Entries
          /\ entries' = [entries EXCEPT ![arg[c][1]] = Cloned(arg[c][2])]
      BY <2>1 DEF RIInv, RTypeOK, Calls, Upsert
    <3>2. Cloned(arg[c][2]) # NilDocument
      BY <3>1, RegistryAssumption DEF Cloned
    <3> QED
      BY <3>1, <3>2 DEF EntriesCarryDocument, Entries
  <2>2. ASSUME UNCHANGED entries PROVE EntriesCarryDocument'
    BY <2>2 DEF EntriesCarryDocument
  <2> QED
    BY <2>1, <2>2 DEF rvars, RNext, InCall, RegisterSchemaEntry, RegisterSchemaListener,
       ListSchemas, Notify, UpsertReturns, AddListener
<1> QED
  BY <1>1, <1>2, InitHolds, NextHolds, PTL DEF RSpec

=============================================================================
