------------------------ MODULE IngestFairness_proofs ------------------------
(***************************************************************************)
(* The caps of the fairness semaphores, their queues, and that they never  *)
(* deadlock, for any number of messages, keys and subscriptions and any    *)
(* limits.  That a semaphore is held by no more tasks than it has slots is *)
(* not enough for the caps of workspaces and bots: a key could have tasks  *)
(* on two semaphores, its own and the overflow.  The invariant says which  *)
(* of the two a key's tasks are on, and that this never changes.           *)
(***************************************************************************)
EXTENDS IngestFairness, FiniteSetTheorems, TLAPS

Kinds == {"workspace", "bot"}
AllKeys == Workspaces \cup Bots \cup Subjects \cup {Overflow}
KeyRecords == [workspace : Workspaces \cup {Overflow}, bot : Bots \cup {Overflow},
               slot : Subjects]

Own(m, kind) == IF kind = "workspace" THEN WorkspaceOf[m] ELSE BotOf[m]

Started(m) == task[m] \in {"waiting", "running"}

\* The part of the types the caps depend on.
Types ==
  /\ task \in [Msgs -> {"none", "created", "waiting", "running"}]
  /\ held \in [Msgs -> 0..3]
  /\ key \in [Msgs -> KeyRecords]
  /\ registry \in [workspace : SUBSET (Workspaces \cup {Overflow}),
                   bot : SUBSET (Bots \cup {Overflow})]

\* A task holds nothing before it asks and everything when it runs.
HeldByState ==
  \A m \in Msgs : /\ ~Started(m) => held[m] = 0
                  /\ task[m] = "waiting" => held[m] < 3
                  /\ task[m] = "running" => held[m] = 3

\* A task is on its key's own semaphore, or on the overflow because the
\* registry was full without its key.
Placed ==
  \A m \in Msgs :
    /\ key[m].slot = SubjectOf[m]
    /\ Started(m) =>
         \A kind \in Kinds :
           \/ key[m][kind] = Own(m, kind) /\ Own(m, kind) \in registry[kind]
           \/ /\ key[m][kind] = Overflow /\ Own(m, kind) \notin registry[kind]
              /\ Cardinality(registry[kind]) >= RegistryMax

RegistryBounded ==
  \A kind \in Kinds : /\ IsFiniteSet(registry[kind])
                      /\ Cardinality(registry[kind] \ {Overflow}) <= RegistryMax

SlotsHold ==
  \A kind \in Kinds \cup {"slot"}, k \in AllKeys :
    Cardinality(Holders(<<kind, k>>)) <= Limit[kind]

Inv == Types /\ HeldByState /\ Placed /\ RegistryBounded /\ SlotsHold

----------------------------------------------------------------------------

LEMMA OrderFacts ==
  /\ Len(Order) = 3 /\ Order[1] = "workspace" /\ Order[2] = "bot" /\ Order[3] = "slot"
  /\ \A kind \in Kinds \cup {"slot"} : Limit[kind] \in Nat \ {0}
BY FairnessAssumption DEF Order, Limit, FairnessAssumption, Kinds

LEMMA HoldersFinite ==
  ASSUME NEW x
  PROVE  IsFiniteSet(Holders(x)) /\ Cardinality(Holders(x)) \in Nat
<1>1. Holders(x) \subseteq Msgs
  BY DEF Holders
<1> QED BY <1>1, FairnessAssumption, FS_Subset, FS_CardinalityType DEF FairnessAssumption

\* A running task of a kind's key holds the semaphore it was given.
LEMMA RunningHolds ==
  ASSUME Types, HeldByState, NEW m \in Msgs, task[m] = "running",
         NEW kind \in Kinds \cup {"slot"}
  PROVE  m \in Holders(<<kind, key[m][kind]>>)
<1>1. held[m] = 3
  BY DEF HeldByState
<1>2. PICK i \in 1..3 : Order[i] = kind
  BY OrderFacts DEF Kinds
<1>3. Sem(m, i) = <<kind, key[m][kind]>>
  BY <1>2 DEF Sem
<1> QED BY <1>1, <1>3 DEF Holders

\* The tasks of one key are on one semaphore, which bounds them.
LEMMA KeyBounded ==
  ASSUME Inv, NEW kind \in Kinds, NEW k \in AllKeys
  PROVE  Cardinality(Running({m \in Msgs : Own(m, kind) = k})) <= Limit[kind]
<1> DEFINE R == Running({m \in Msgs : Own(m, kind) = k})
           x == IF k \in registry[kind] THEN k ELSE Overflow
<1>1. x \in AllKeys
  BY DEF AllKeys
<1>2. R \subseteq Holders(<<kind, x>>)
  <2> SUFFICES ASSUME NEW m \in R
               PROVE  m \in Holders(<<kind, x>>)
    OBVIOUS
  <2>1. m \in Msgs /\ Own(m, kind) = k /\ task[m] = "running"
    BY DEF Running
  <2>2. key[m][kind] = x
    BY <2>1 DEF Inv, Placed, Started
  <2>3. m \in Holders(<<kind, key[m][kind]>>)
    BY <2>1, RunningHolds DEF Inv
  <2> QED BY <2>2, <2>3
<1>3. Cardinality(R) <= Cardinality(Holders(<<kind, x>>)) /\ Cardinality(R) \in Nat
  BY <1>2, HoldersFinite, FS_Subset, FS_CardinalityType
<1>4. Cardinality(Holders(<<kind, x>>)) <= Limit[kind]
  BY <1>1 DEF Inv, SlotsHold
<1> QED BY <1>3, <1>4, HoldersFinite, OrderFacts

LEMMA InvGivesCaps == Inv => CapsHold
<1> SUFFICES ASSUME Inv PROVE CapsHold
  OBVIOUS
<1>1. ASSUME NEW s \in Subjects
      PROVE  Cardinality(Running({m \in Msgs : SubjectOf[m] = s})) <= Concurrency
  <2> DEFINE R == Running({m \in Msgs : SubjectOf[m] = s})
  <2>1. R \subseteq Holders(<<"slot", s>>)
    <3> SUFFICES ASSUME NEW m \in R PROVE m \in Holders(<<"slot", s>>)
      OBVIOUS
    <3>1. m \in Msgs /\ SubjectOf[m] = s /\ task[m] = "running"
      BY DEF Running
    <3>2. key[m]["slot"] = s
      BY <3>1 DEF Inv, Placed
    <3>3. m \in Holders(<<"slot", key[m]["slot"]>>)
      BY <3>1, RunningHolds DEF Inv
    <3> QED BY <3>2, <3>3
  <2>2. Cardinality(R) <= Cardinality(Holders(<<"slot", s>>)) /\ Cardinality(R) \in Nat
    BY <2>1, HoldersFinite, FS_Subset, FS_CardinalityType
  <2>3. Cardinality(Holders(<<"slot", s>>)) <= Limit["slot"]
    BY DEF Inv, SlotsHold, AllKeys
  <2>4. Limit["slot"] = Concurrency /\ Concurrency \in Nat
    BY FairnessAssumption DEF Limit, FairnessAssumption
  <2> QED BY <2>2, <2>3, <2>4, HoldersFinite
<1>2. ASSUME NEW w \in Workspaces
      PROVE  Cardinality(Running({m \in Msgs : WorkspaceOf[m] = w})) <= WorkspaceLimit
  <2>1. w \in AllKeys /\ "workspace" \in Kinds
    BY DEF AllKeys, Kinds
  <2>2. {m \in Msgs : Own(m, "workspace") = w} = {m \in Msgs : WorkspaceOf[m] = w}
    BY DEF Own
  <2>3. Limit["workspace"] = WorkspaceLimit
    BY DEF Limit
  <2> QED BY <2>1, <2>2, <2>3, KeyBounded
<1>3. ASSUME NEW b \in Bots
      PROVE  Cardinality(Running({m \in Msgs : BotOf[m] = b})) <= BotLimit
  <2>1. b \in AllKeys /\ "bot" \in Kinds
    BY DEF AllKeys, Kinds
  <2>2. {m \in Msgs : Own(m, "bot") = b} = {m \in Msgs : BotOf[m] = b}
    BY DEF Own
  <2>3. Limit["bot"] = BotLimit
    BY DEF Limit
  <2> QED BY <2>1, <2>2, <2>3, KeyBounded
<1>4. ASSUME NEW kind \in Kinds
      PROVE  Cardinality(registry[kind]) <= RegistryMax + 1
  <2>1. IsFiniteSet(registry[kind]) /\ Cardinality(registry[kind] \ {Overflow}) <= RegistryMax
    BY DEF Inv, RegistryBounded
  <2>2. RegistryMax \in Nat
    BY FairnessAssumption DEF FairnessAssumption
  <2>3. Cardinality(registry[kind] \ {Overflow}) \in Nat /\ Cardinality(registry[kind]) \in Nat
    BY <2>1, FS_RemoveElement, FS_CardinalityType
  <2>4. Cardinality(registry[kind] \ {Overflow})
          = IF Overflow \in registry[kind] THEN Cardinality(registry[kind]) - 1
            ELSE Cardinality(registry[kind])
    BY <2>1, FS_RemoveElement
  <2> QED BY <2>1, <2>2, <2>3, <2>4
<1> QED BY <1>1, <1>2, <1>3, <1>4 DEF CapsHold, Kinds

----------------------------------------------------------------------------
(* The invariant is inductive *)

LEMMA InitInv == Init => Inv
<1> SUFFICES ASSUME Init PROVE Inv
  OBVIOUS
<1> USE FairnessAssumption DEF FairnessAssumption
<1>1. \A m \in Msgs : OwnKeys(m) \in KeyRecords
  BY DEF OwnKeys, KeyRecords, Workspaces, Bots
<1>2. Types
  BY <1>1 DEF Init, Types
<1>3. HeldByState
  BY DEF Init, HeldByState, Started
<1>4. Placed
  BY DEF Init, Placed, Started, OwnKeys
<1>5. RegistryBounded
  <2>1. \A kind \in Kinds : registry[kind] = {} /\ registry[kind] \ {Overflow} = {}
    BY DEF Init, Kinds
  <2>2. IsFiniteSet({}) /\ Cardinality({}) = 0 /\ 0 <= RegistryMax
    BY FS_EmptySet
  <2> QED BY <2>1, <2>2 DEF RegistryBounded
<1>6. SlotsHold
  <2>1. \A x : Holders(x) = {}
    BY DEF Init, Holders
  <2>2. Cardinality({}) = 0 /\ \A kind \in Kinds \cup {"slot"} : 0 <= Limit[kind]
    BY FS_EmptySet, OrderFacts
  <2> QED BY <2>1, <2>2 DEF SlotsHold
<1> QED BY <1>2, <1>3, <1>4, <1>5, <1>6 DEF Inv

\* A step that gives no task another semaphore.
LEMMA SlotsShrink ==
  ASSUME SlotsHold, \A x : Holders(x)' \subseteq Holders(x)
  PROVE  SlotsHold'
<1> SUFFICES ASSUME NEW kind \in Kinds \cup {"slot"}, NEW k \in AllKeys
             PROVE  (Cardinality(Holders(<<kind, k>>)) <= Limit[kind])'
  BY DEF SlotsHold, AllKeys, Kinds
<1>1. Holders(<<kind, k>>)' \in SUBSET Holders(<<kind, k>>)
  OBVIOUS
<1>2. /\ Cardinality(Holders(<<kind, k>>)') <= Cardinality(Holders(<<kind, k>>))
      /\ Cardinality(Holders(<<kind, k>>)') \in Nat
  BY <1>1, HoldersFinite, FS_Subset, FS_CardinalityType
<1>3. Cardinality(Holders(<<kind, k>>)) <= Limit[kind]
  BY DEF SlotsHold
<1> QED BY <1>2, <1>3, HoldersFinite, OrderFacts DEF Limit

\* Messages are dispatched or given up; tasks under way are left alone.
LEMMA LoopStep ==
  ASSUME Inv, NEW s \in Subjects, Read(s) \/ Recover(s)
  PROVE  Inv'
<1>1. UNCHANGED <<held, key, registry>> /\ Free(s)
  BY DEF Read, Recover
<1>2. PICK batch \in SUBSET {m \in Msgs : SubjectOf[m] = s} : Dispatched(batch)
  <2>1. CASE Read(s)
    BY <2>1 DEF Read
  <2>2. CASE Recover(s)
    <3>1. PICK idle \in SUBSET {m \in Msgs : SubjectOf[m] = s} : Dispatched(idle \ Poison(idle))
      BY <2>2 DEF Recover
    <3> QED BY <3>1
  <2> QED BY <2>1, <2>2
<1>3. \A m \in Msgs : \/ task'[m] = task[m]
                      \/ task[m] = "none" /\ task'[m] = "created"
  BY <1>1, <1>2 DEF Dispatched, Free
<1>4. task' \in [Msgs -> {"none", "created", "waiting", "running"}]
  BY <1>2 DEF Dispatched, Inv, Types
<1>5. \A m \in Msgs : Started(m)' <=> Started(m)
  BY <1>3 DEF Started
<1>6. Types' /\ HeldByState'
  BY <1>1, <1>3, <1>4, <1>5 DEF Inv, Types, HeldByState, KeyRecords, Workspaces, Bots
<1>7. Placed'
  BY <1>1, <1>5 DEF Inv, Placed, Own
<1>8. RegistryBounded'
  BY <1>1 DEF Inv, RegistryBounded
<1>9. \A x : Holders(x)' = Holders(x)
  BY <1>1 DEF Holders, Sem
<1>10. SlotsHold'
  BY <1>9, SlotsShrink DEF Inv
<1> QED BY <1>6, <1>7, <1>8, <1>10 DEF Inv

\* A registry that a task looks its key up in.
LEMMA Lookup ==
  ASSUME Types, RegistryBounded, NEW kind \in Kinds, NEW k \in AllKeys \ {Overflow}
  PROVE  LET R == registry[kind] \cup {FairnessKey(kind, k)}
         IN  /\ IsFiniteSet(R) /\ Cardinality(R \ {Overflow}) <= RegistryMax
             /\ Cardinality(R) >= Cardinality(registry[kind])
             /\ \/ FairnessKey(kind, k) = k /\ k \in R
                \/ FairnessKey(kind, k) = Overflow /\ k \notin R
                   /\ Cardinality(R) >= RegistryMax
             /\ \A j : j \in R /\ j \notin registry[kind] /\ j # Overflow
                         => Cardinality(registry[kind]) < RegistryMax
<1> DEFINE R == registry[kind] \cup {FairnessKey(kind, k)}
<1> DEFINE S == registry[kind]
<1>0. IsFiniteSet(S) /\ Cardinality(S) \in Nat /\ Cardinality(S \ {Overflow}) <= RegistryMax
      /\ RegistryMax \in Nat /\ Cardinality(S \ {Overflow}) \in Nat
      /\ IsFiniteSet(S \ {Overflow}) /\ Cardinality(S \ {Overflow}) <= Cardinality(S)
  <2>1. IsFiniteSet(S) /\ Cardinality(S \ {Overflow}) <= RegistryMax
    BY DEF RegistryBounded
  <2>2. RegistryMax \in Nat
    BY FairnessAssumption DEF FairnessAssumption
  <2>3. (S \ {Overflow}) \in SUBSET S
    OBVIOUS
  <2> QED BY <2>1, <2>2, <2>3, FS_Subset, FS_CardinalityType
<1> HIDE DEF S, R
<1>1. CASE k \in S
  <2>1. FairnessKey(kind, k) = k /\ R = S
    BY <1>1 DEF FairnessKey, S, R
  <2> QED BY <1>0, <1>1, <2>1 DEF S
<1>2. CASE k \notin S /\ Cardinality(S) < RegistryMax
  <2>1. FairnessKey(kind, k) = k /\ R = S \cup {k}
    BY <1>2 DEF FairnessKey, S, R
  <2>2. IsFiniteSet(R) /\ Cardinality(R) = Cardinality(S) + 1
    BY <1>0, <1>2, <2>1, FS_AddElement
  <2>3. R \ {Overflow} = (S \ {Overflow}) \cup {k}
    BY <2>1
  <2>4. Cardinality(R \ {Overflow}) <= Cardinality(S \ {Overflow}) + 1
        /\ Cardinality(R \ {Overflow}) \in Nat
    <3> DEFINE U == S \ {Overflow}
    <3> HIDE DEF U
    <3>1. IsFiniteSet(U) /\ Cardinality(U) \in Nat
      BY <1>0 DEF U
    <3>2. Cardinality(U \cup {k}) = IF k \in U THEN Cardinality(U) ELSE Cardinality(U) + 1
      BY <3>1, FS_AddElement
    <3>3. Cardinality(U \cup {k}) <= Cardinality(U) + 1 /\ Cardinality(U \cup {k}) \in Nat
      BY <3>1, <3>2
    <3> QED BY <2>3, <3>3 DEF U
  <2>5. Cardinality(R \ {Overflow}) <= RegistryMax
    BY <1>0, <1>2, <2>4
  <2> QED BY <1>0, <1>2, <2>1, <2>2, <2>5 DEF S
<1>3. CASE k \notin S /\ ~(Cardinality(S) < RegistryMax)
  <2>1. FairnessKey(kind, k) = Overflow /\ R = S \cup {Overflow} /\ k # Overflow
    BY <1>3 DEF FairnessKey, S, R
  <2>2. IsFiniteSet(R) /\ Cardinality(R) \in Nat /\ Cardinality(R) >= Cardinality(S)
    <3>1. /\ IsFiniteSet(S \cup {Overflow})
          /\ Cardinality(S \cup {Overflow})
               = IF Overflow \in S THEN Cardinality(S) ELSE Cardinality(S) + 1
      BY <1>0, FS_AddElement
    <3>2. Cardinality(S \cup {Overflow}) >= Cardinality(S) /\ Cardinality(S \cup {Overflow}) \in Nat
      BY <1>0, <3>1
    <3> QED BY <2>1, <3>1, <3>2
  <2>3. R \ {Overflow} = S \ {Overflow}
    BY <2>1
  <2>4. Cardinality(R) >= RegistryMax
    BY <1>0, <1>3, <2>2
  <2> QED BY <1>0, <1>3, <2>1, <2>2, <2>3, <2>4 DEF S
<1> QED BY <1>0, <1>1, <1>2, <1>3 DEF R

\* A message's tasks find the semaphore its other tasks are on.
LEMMA StartStep ==
  ASSUME Inv, NEW m \in Msgs, Start(m)
  PROVE  Inv'
<1> USE FairnessAssumption DEF FairnessAssumption
<1> DEFINE ws == FairnessKey("workspace", WorkspaceOf[m])
           bc == FairnessKey("bot", BotOf[m])
<1>1. /\ task[m] = "created" /\ task' = [task EXCEPT ![m] = "waiting"] /\ held' = held
      /\ key' = [key EXCEPT ![m].workspace = ws, ![m].bot = bc]
      /\ registry' = [workspace |-> registry.workspace \cup {ws},
                      bot |-> registry.bot \cup {bc}]
  BY DEF Start
<1>2. /\ WorkspaceOf[m] \in Workspaces /\ BotOf[m] \in Bots
      /\ WorkspaceOf[m] # Overflow /\ BotOf[m] # Overflow
  BY DEF Workspaces, Bots
<1>3. ws \in Workspaces \cup {Overflow} /\ bc \in Bots \cup {Overflow}
  BY <1>2 DEF FairnessKey
<1> HIDE DEF ws, bc
<1>4. /\ \A n \in Msgs \ {m} : key'[n] = key[n]
      /\ key'[m].workspace = ws /\ key'[m].bot = bc /\ key'[m].slot = key[m].slot
      /\ key' \in [Msgs -> KeyRecords]
  <2>1. key \in [Msgs -> KeyRecords] /\ key[m] \in KeyRecords
    BY DEF Inv, Types
  <2>2. \A n \in Msgs \ {m} : key'[n] = key[n]
    BY <1>1, <2>1
  <2>3. /\ key'[m].workspace = ws /\ key'[m].bot = bc /\ key'[m].slot = key[m].slot
        /\ key'[m] \in KeyRecords
    BY <1>1, <1>3, <2>1 DEF KeyRecords
  <2>4. key' \in [Msgs -> KeyRecords]
    BY <1>1, <2>1, <2>2, <2>3
  <2> QED BY <2>2, <2>3, <2>4
<1>5. registry' \in [workspace : SUBSET (Workspaces \cup {Overflow}),
                     bot : SUBSET (Bots \cup {Overflow})]
  BY <1>1, <1>3 DEF Inv, Types
<1>6. task' \in [Msgs -> {"none", "created", "waiting", "running"}]
  BY <1>1 DEF Inv, Types
<1>7. Types'
  BY <1>1, <1>4, <1>5, <1>6 DEF Inv, Types, KeyRecords, Workspaces, Bots
<1>8. HeldByState'
  BY <1>1 DEF Inv, Types, HeldByState, Started
<1>9. \A kind \in Kinds :
        /\ registry'[kind] = registry[kind] \cup {FairnessKey(kind, Own(m, kind))}
        /\ Own(m, kind) \in AllKeys \ {Overflow}
        /\ key'[m][kind] = FairnessKey(kind, Own(m, kind))
  <2>1. Own(m, "workspace") = WorkspaceOf[m] /\ Own(m, "bot") = BotOf[m]
    BY DEF Own
  <2>2. /\ registry'["workspace"] = registry["workspace"] \cup {ws}
        /\ registry'["bot"] = registry["bot"] \cup {bc}
    BY <1>1
  <2>3. key'[m]["workspace"] = ws /\ key'[m]["bot"] = bc
    BY <1>4
  <2>4. ws = FairnessKey("workspace", Own(m, "workspace")) /\ bc = FairnessKey("bot", Own(m, "bot"))
    BY <2>1 DEF ws, bc
  <2> QED BY <1>2, <2>1, <2>2, <2>3, <2>4 DEF Kinds, AllKeys
<1>10. ASSUME NEW kind \in Kinds
       PROVE  /\ IsFiniteSet(registry'[kind])
              /\ Cardinality(registry'[kind] \ {Overflow}) <= RegistryMax
              /\ Cardinality(registry'[kind]) >= Cardinality(registry[kind])
              /\ \A j : j \in registry'[kind] /\ j \notin registry[kind] /\ j # Overflow
                          => Cardinality(registry[kind]) < RegistryMax
  <2> DEFINE k == Own(m, kind)
  <2>1. k \in AllKeys \ {Overflow} /\ registry'[kind] = registry[kind] \cup {FairnessKey(kind, k)}
    BY <1>9
  <2> HIDE DEF k
  <2>2. Types /\ RegistryBounded
    BY DEF Inv
  <2> DEFINE R == registry[kind] \cup {FairnessKey(kind, k)}
  <2>3. /\ IsFiniteSet(R) /\ Cardinality(R \ {Overflow}) <= RegistryMax
        /\ Cardinality(R) >= Cardinality(registry[kind])
        /\ \A j : j \in R /\ j \notin registry[kind] /\ j # Overflow
                    => Cardinality(registry[kind]) < RegistryMax
    BY <2>1, <2>2, Lookup
  <2> QED BY <2>1, <2>3
<1>14. RegistryBounded'
  BY <1>10 DEF RegistryBounded
<1>11. Placed'
  <2> SUFFICES ASSUME NEW n \in Msgs
               PROVE  /\ key'[n].slot = SubjectOf[n]
                      /\ Started(n)' =>
                           \A kind \in Kinds :
                             \/ key'[n][kind] = Own(n, kind) /\ Own(n, kind) \in registry'[kind]
                             \/ /\ key'[n][kind] = Overflow
                                /\ Own(n, kind) \notin registry'[kind]
                                /\ Cardinality(registry'[kind]) >= RegistryMax
    BY DEF Placed, Own
  <2>1. key'[n].slot = SubjectOf[n]
    BY <1>4 DEF Inv, Placed
  <2>2. ASSUME n = m, NEW kind \in Kinds
        PROVE  \/ key'[n][kind] = Own(n, kind) /\ Own(n, kind) \in registry'[kind]
               \/ /\ key'[n][kind] = Overflow /\ Own(n, kind) \notin registry'[kind]
                  /\ Cardinality(registry'[kind]) >= RegistryMax
    <3>1. /\ registry'[kind] = registry[kind] \cup {FairnessKey(kind, Own(m, kind))}
          /\ Own(m, kind) \in AllKeys \ {Overflow}
          /\ key'[m][kind] = FairnessKey(kind, Own(m, kind))
      BY <1>9
    <3>2. \/ /\ FairnessKey(kind, Own(m, kind)) = Own(m, kind)
             /\ Own(m, kind) \in registry'[kind]
          \/ /\ FairnessKey(kind, Own(m, kind)) = Overflow
             /\ Own(m, kind) \notin registry'[kind]
             /\ Cardinality(registry'[kind]) >= RegistryMax
      BY <3>1, Lookup DEF Inv
    <3> QED BY <2>2, <3>1, <3>2
  <2>3. ASSUME n # m, Started(n)', NEW kind \in Kinds
        PROVE  \/ key'[n][kind] = Own(n, kind) /\ Own(n, kind) \in registry'[kind]
               \/ /\ key'[n][kind] = Overflow /\ Own(n, kind) \notin registry'[kind]
                  /\ Cardinality(registry'[kind]) >= RegistryMax
    <3>1. Started(n) /\ key'[n] = key[n]
      BY <1>1, <1>4, <2>3 DEF Started, Inv, Types
    <3>2. CASE key[n][kind] = Own(n, kind) /\ Own(n, kind) \in registry[kind]
      BY <1>9, <3>1, <3>2
    <3>3. CASE /\ key[n][kind] = Overflow /\ Own(n, kind) \notin registry[kind]
               /\ Cardinality(registry[kind]) >= RegistryMax
      <4>1. /\ IsFiniteSet(registry'[kind])
            /\ Cardinality(registry'[kind]) >= Cardinality(registry[kind])
            /\ \A j : j \in registry'[kind] /\ j \notin registry[kind] /\ j # Overflow
                        => Cardinality(registry[kind]) < RegistryMax
        BY <1>10
      <4>2. Cardinality(registry[kind]) \in Nat /\ Cardinality(registry'[kind]) \in Nat
            /\ RegistryMax \in Nat
        BY <4>1, FS_CardinalityType DEF Inv, RegistryBounded
      <4>3. Own(n, kind) # Overflow
        BY DEF Own, Kinds, Workspaces, Bots
      <4>4. Own(n, kind) \notin registry'[kind]
        BY <3>3, <4>1, <4>2, <4>3
      <4> QED BY <3>1, <3>3, <4>1, <4>2, <4>4
    <3> QED BY <3>1, <3>2, <3>3 DEF Inv, Placed
  <2> QED BY <2>1, <2>2, <2>3
<1>12. \A x : Holders(x)' = Holders(x)
  <2>1. held[m] = 0
    BY <1>1 DEF Inv, HeldByState, Started
  <2>2. \A n \in Msgs, i \in 1..3 : n # m => Sem(n, i)' = Sem(n, i)
    BY <1>4 DEF Sem
  <2>3. held \in [Msgs -> 0..3]
    BY DEF Inv, Types
  <2> QED BY <1>1, <2>1, <2>2, <2>3 DEF Holders
<1>13. SlotsHold'
  BY <1>12, SlotsShrink DEF Inv
<1> QED BY <1>7, <1>8, <1>14, <1>11, <1>13 DEF Inv

\* A semaphore is granted while it has a slot left.
LEMMA AcquireStep ==
  ASSUME Inv, NEW m \in Msgs, Acquire(m)
  PROVE  Inv'
<1> DEFINE n == held[m] + 1
<1>1. /\ task[m] = "waiting" /\ held' = [held EXCEPT ![m] = n]
      /\ task' = IF n = 3 THEN [task EXCEPT ![m] = "running"] ELSE task
      /\ UNCHANGED <<key, registry>>
      /\ Cardinality(Holders(Sem(m, n))) < Limit[Sem(m, n)[1]]
  BY OrderFacts DEF Acquire, Granted
<1>2. /\ held \in [Msgs -> 0..3] /\ n \in 1..3
      /\ task \in [Msgs -> {"none", "created", "waiting", "running"}]
  BY <1>1 DEF Inv, Types, HeldByState
<1> HIDE DEF n
<1>3. /\ held' \in [Msgs -> 0..3] /\ held'[m] = n
      /\ \A l \in Msgs \ {m} : held'[l] = held[l]
  BY <1>1, <1>2
<1>4. /\ task' \in [Msgs -> {"none", "created", "waiting", "running"}]
      /\ task'[m] = (IF n = 3 THEN "running" ELSE "waiting")
      /\ \A l \in Msgs \ {m} : task'[l] = task[l]
  BY <1>1, <1>2
<1>5. Types'
  BY <1>1, <1>3, <1>4 DEF Inv, Types, KeyRecords, Workspaces, Bots
<1>6. HeldByState'
  <2>1. task'[m] \in {"running", "waiting"} /\ (task'[m] = "running" <=> n = 3)
    BY <1>2, <1>4
  <2>2. HeldByState
    BY DEF Inv
  <2> QED BY <1>2, <1>3, <1>4, <2>1, <2>2 DEF HeldByState, Started
<1>7. \A l \in Msgs : Started(l)' <=> Started(l)
  BY <1>1, <1>4 DEF Started
<1>8. Placed'
  BY <1>1, <1>7 DEF Inv, Placed, Own
<1>9. RegistryBounded'
  BY <1>1 DEF Inv, RegistryBounded
<1>10. ASSUME NEW kind \in Kinds \cup {"slot"}, NEW k \in AllKeys
       PROVE  Cardinality(Holders(<<kind, k>>)') <= Limit[kind]
  <2> DEFINE x == <<kind, k>>
             H == Holders(x)
  <2>1. \A l \in Msgs, i \in 1..3 : Sem(l, i)' = Sem(l, i)
    BY <1>1 DEF Sem
  <2>2. Holders(x)' \subseteq H \cup (IF x = Sem(m, n) THEN {m} ELSE {})
    <3> SUFFICES ASSUME NEW l \in Holders(x)', l \notin H
                 PROVE  l = m /\ x = Sem(m, n)
      OBVIOUS
    <3>1. PICK i \in 1..held'[l] : Sem(l, i)' = x
      BY DEF Holders
    <3>2. l \in Msgs /\ i \in 1..3
      BY <1>3, <3>1 DEF Holders
    <3>3. Sem(l, i) = x /\ i \notin 1..held[l]
      BY <2>1, <3>1, <3>2 DEF Holders
    <3>4. l = m
      BY <1>3, <3>1, <3>2, <3>3
    <3>5. i = n
      BY <1>2, <1>3, <3>1, <3>2, <3>3, <3>4 DEF n
    <3> QED BY <3>3, <3>4, <3>5
  <2>3. IsFiniteSet(H) /\ Cardinality(H) \in Nat /\ Limit[kind] \in Nat
        /\ Cardinality(H) <= Limit[kind]
    BY HoldersFinite, OrderFacts DEF Inv, SlotsHold
  <2>4. CASE x = Sem(m, n)
    <3>1. Cardinality(H) < Limit[kind]
      BY <1>1, <2>4
    <3>2. /\ IsFiniteSet(H \cup {m})
          /\ Cardinality(H \cup {m}) = IF m \in H THEN Cardinality(H) ELSE Cardinality(H) + 1
      BY <2>3, FS_AddElement
    <3>3. Cardinality(H \cup {m}) <= Limit[kind] /\ Cardinality(H \cup {m}) \in Nat
      BY <2>3, <3>1, <3>2
    <3>4. Holders(x)' \in SUBSET (H \cup {m})
      BY <2>2, <2>4
    <3>5. /\ Cardinality(Holders(x)') <= Cardinality(H \cup {m})
          /\ Cardinality(Holders(x)') \in Nat
      BY <3>2, <3>4, FS_Subset, FS_CardinalityType
    <3> QED BY <2>3, <3>3, <3>5
  <2>5. CASE x # Sem(m, n)
    <3>1. Holders(x)' \in SUBSET H
      BY <2>2, <2>5
    <3>2. Cardinality(Holders(x)') <= Cardinality(H) /\ Cardinality(Holders(x)') \in Nat
      BY <2>3, <3>1, FS_Subset, FS_CardinalityType
    <3> QED BY <2>3, <3>2
  <2> QED BY <2>4, <2>5
<1>11. SlotsHold'
  BY <1>10 DEF SlotsHold, Kinds, AllKeys, Limit
<1> QED BY <1>5, <1>6, <1>8, <1>9, <1>11 DEF Inv

LEMMA LeaveStep ==
  ASSUME Inv, NEW m \in Msgs, Leave(m)
  PROVE  Inv'
<1> USE FairnessAssumption DEF FairnessAssumption
<1>1. /\ task' = [task EXCEPT ![m] = "none"] /\ held' = [held EXCEPT ![m] = 0]
      /\ key' = [key EXCEPT ![m] = OwnKeys(m)] /\ registry' = registry
  BY DEF Leave
<1>2. OwnKeys(m) \in KeyRecords /\ OwnKeys(m).slot = SubjectOf[m]
  BY DEF OwnKeys, KeyRecords, Workspaces, Bots
<1>3. Types'
  BY <1>1, <1>2 DEF Inv, Types, KeyRecords, Workspaces, Bots
<1>4. /\ task'[m] = "none" /\ held'[m] = 0 /\ key'[m] = OwnKeys(m)
      /\ \A l \in Msgs \ {m} : task'[l] = task[l] /\ held'[l] = held[l] /\ key'[l] = key[l]
  BY <1>1 DEF Inv, Types
<1>5. HeldByState'
  BY <1>4 DEF Inv, HeldByState, Started
<1>6. Placed'
  BY <1>1, <1>2, <1>4 DEF Inv, Placed, Started, Own
<1>7. RegistryBounded'
  BY <1>1 DEF Inv, RegistryBounded
<1>8. \A x : Holders(x)' \subseteq Holders(x)
  <2> SUFFICES ASSUME NEW x, NEW l \in Holders(x)'
               PROVE  l \in Holders(x)
    OBVIOUS
  <2>1. PICK i \in 1..held'[l] : Sem(l, i)' = x
    BY DEF Holders
  <2>2. l \in Msgs /\ l # m
    BY <1>4, <2>1 DEF Holders
  <2> QED BY <1>4, <2>1, <2>2 DEF Holders, Sem
<1>9. SlotsHold'
  BY <1>8, SlotsShrink DEF Inv
<1> QED BY <1>3, <1>5, <1>6, <1>7, <1>9 DEF Inv

LEMMA Inductive == Spec => []Inv
<1>1. ASSUME Inv, [Next]_vars
      PROVE  Inv'
  <2>1. ASSUME NEW m \in Msgs, Return(m)
        PROVE  Leave(m)
    BY <2>1 DEF Return, Finish, HandlerFails
  <2>2. CASE UNCHANGED vars
    <3>1. UNCHANGED <<task, held, key, registry>>
      BY <2>2 DEF vars
    <3>2. \A x : Holders(x)' \subseteq Holders(x)
      BY <3>1 DEF Holders, Sem
    <3>3. SlotsHold'
      BY <1>1, <3>2, SlotsShrink DEF Inv
    <3>4. Types' /\ HeldByState' /\ RegistryBounded'
      BY <1>1, <3>1 DEF Inv, Types, HeldByState, Started, RegistryBounded, KeyRecords,
                        Workspaces, Bots
    <3>5. Placed'
      BY <1>1, <3>1 DEF Inv, Placed, Started, Own
    <3> QED BY <3>3, <3>4, <3>5 DEF Inv
  <2> QED BY <1>1, <2>1, <2>2, LoopStep, StartStep, AcquireStep, LeaveStep DEF Next
<1> QED BY <1>1, InitInv, PTL DEF Spec

\* For any number of messages, keys and subscriptions, whatever the limits and
\* the size of the registries: a workspace, a bot and a subscription never run
\* more handlers than their caps, and a registry never outgrows its bound by
\* more than the overflow.
THEOREM CapsAlwaysHold == Spec => []CapsHold
<1> QED BY Inductive, InvGivesCaps, PTL

----------------------------------------------------------------------------
(* The queues *)

\* The semaphore a waiting task has asked for, and the tasks that asked for x.
Wanted(m) == Sem(m, held[m] + 1)
Line(x) == {m \in Msgs : task[m] = "waiting" /\ Wanted(m) = x}

Elements(q) == {q[i] : i \in 1..Len(q)}
Distinct(q) == \A i, j \in 1..Len(q) : q[i] = q[j] => i = j

\* The queue of a semaphore holds the tasks that asked for it, each once: no
\* request is lost, and none is left behind by a task that has moved on.
Queued ==
  /\ queue \in [Semaphores -> Seq(Msgs)]
  /\ \A x \in Semaphores : Distinct(queue[x]) /\ Elements(queue[x]) = Line(x)

Counted ==
  /\ deliveries \in [Msgs -> 0..MaxDeliveries + 1]
  /\ settled \subseteq Msgs

FullInv == Inv /\ Queued /\ Counted

LEMMA AppendOnce ==
  ASSUME NEW q \in Seq(Msgs), NEW m \in Msgs, Distinct(q), m \notin Elements(q)
  PROVE  /\ Append(q, m) \in Seq(Msgs) /\ Distinct(Append(q, m))
         /\ Elements(Append(q, m)) = Elements(q) \cup {m}
<1> DEFINE r == Append(q, m)
<1>1. /\ r \in Seq(Msgs) /\ Len(r) = Len(q) + 1 /\ Len(q) \in Nat /\ r[Len(q) + 1] = m
      /\ \A i \in 1..Len(q) : r[i] = q[i]
  OBVIOUS
<1> HIDE DEF r
<1>2. \A i \in 1..Len(r) : i \in 1..Len(q) \/ i = Len(q) + 1
  BY <1>1
<1>3. Distinct(r)
  BY <1>1, <1>2 DEF Distinct, Elements
<1>4. Elements(r) = Elements(q) \cup {m}
  <2>1. Elements(r) \subseteq Elements(q) \cup {m}
    BY <1>1, <1>2 DEF Elements
  <2>2. Len(q) + 1 \in 1..Len(r) /\ 1..Len(q) \subseteq 1..Len(r)
    BY <1>1
  <2>3. Elements(q) \cup {m} \subseteq Elements(r)
    BY <1>1, <2>2 DEF Elements
  <2> QED BY <2>1, <2>3
<1> QED BY <1>1, <1>3, <1>4 DEF r

LEMMA TailOnce ==
  ASSUME NEW q \in Seq(Msgs), Distinct(q), Elements(q) # {}
  PROVE  /\ Head(q) \in Elements(q) /\ Tail(q) \in Seq(Msgs) /\ Distinct(Tail(q))
         /\ Elements(Tail(q)) = Elements(q) \ {Head(q)}
<1> DEFINE r == Tail(q)
<1>1. q # <<>> /\ Len(q) \in Nat /\ Len(q) >= 1
  BY DEF Elements
<1>2. /\ r \in Seq(Msgs) /\ Len(r) = Len(q) - 1 /\ Head(q) = q[1]
      /\ \A i \in 1..Len(r) : r[i] = q[i + 1]
  BY <1>1
<1> HIDE DEF r
<1>3. \A i \in 1..Len(r) : i + 1 \in 1..Len(q) /\ i + 1 # 1
  BY <1>1, <1>2
<1>4. \A i \in 1..Len(q) : i # 1 => i - 1 \in 1..Len(r) /\ (i - 1) + 1 = i
  BY <1>1, <1>2
<1>5. 1 \in 1..Len(q)
  BY <1>1
<1>6. Distinct(r)
  <2> SUFFICES ASSUME NEW i \in 1..Len(r), NEW j \in 1..Len(r), r[i] = r[j]
               PROVE  i = j
    BY DEF Distinct
  <2>1. q[i + 1] = q[j + 1]
    BY <1>2
  <2>2. i + 1 = j + 1
    BY <1>3, <2>1 DEF Distinct
  <2> QED BY <2>2
<1>7. Elements(r) = Elements(q) \ {q[1]}
  <2>1. ASSUME NEW i \in 1..Len(r)
        PROVE  r[i] \in Elements(q) \ {q[1]}
    BY <1>2, <1>3, <1>5 DEF Elements, Distinct
  <2>2. ASSUME NEW i \in 1..Len(q), q[i] # q[1]
        PROVE  q[i] \in Elements(r)
    <3>1. i - 1 \in 1..Len(r) /\ (i - 1) + 1 = i
      BY <1>4, <2>2
    <3>2. r[i - 1] = q[i]
      BY <1>2, <3>1
    <3> QED BY <3>1, <3>2 DEF Elements
  <2> QED BY <2>1, <2>2 DEF Elements
<1>8. q[1] \in Elements(q)
  BY <1>5 DEF Elements
<1> QED BY <1>2, <1>6, <1>7, <1>8 DEF r

\* A waiting task asks for a semaphore there is.
LEMMA SemTyped ==
  ASSUME Types, NEW m \in Msgs, NEW i \in 1..3
  PROVE  Sem(m, i) \in Semaphores
<1>1. key[m] \in KeyRecords
  BY DEF Types
<1> QED BY <1>1, OrderFacts DEF Sem, Semaphores, KeyRecords

LEMMA WantedTyped ==
  ASSUME Inv, NEW m \in Msgs, task[m] = "waiting"
  PROVE  Wanted(m) \in Semaphores /\ held[m] + 1 \in 1..3
<1>1. held[m] + 1 \in 1..3
  BY DEF Inv, HeldByState, Types
<1> QED BY <1>1, SemTyped DEF Inv, Wanted

\* A step of the loop or of the loop's end leaves the lines alone.
LEMMA LinesKept ==
  ASSUME Queued, UNCHANGED queue, \A x : Line(x)' = Line(x)
  PROVE  Queued'
BY DEF Queued

LEMMA LoopQueued ==
  ASSUME Inv, Queued, NEW s \in Subjects, Read(s) \/ Recover(s)
  PROVE  Queued'
<1>1. UNCHANGED <<held, key, queue>> /\ Free(s)
  BY DEF Read, Recover
<1>2. PICK batch \in SUBSET {m \in Msgs : SubjectOf[m] = s} : Dispatched(batch)
  <2>1. CASE Read(s)
    BY <2>1 DEF Read
  <2>2. CASE Recover(s)
    <3>1. PICK idle \in SUBSET {m \in Msgs : SubjectOf[m] = s} : Dispatched(idle \ Poison(idle))
      BY <2>2 DEF Recover
    <3> QED BY <3>1
  <2> QED BY <2>1, <2>2
<1>3. \A m \in Msgs : task'[m] = "waiting" <=> task[m] = "waiting"
  BY <1>1, <1>2 DEF Dispatched, Free
<1>4. \A x : Line(x)' = Line(x)
  BY <1>1, <1>3 DEF Line, Wanted, Sem
<1> QED BY <1>1, <1>4, LinesKept

LEMMA StartQueued ==
  ASSUME Inv, Queued, NEW m \in Msgs, Start(m)
  PROVE  Queued'
<1> DEFINE y == <<Order[1], key'[m][Order[1]]>>
<1>1. /\ task[m] = "created" /\ task' = [task EXCEPT ![m] = "waiting"] /\ held' = held
      /\ queue' = [queue EXCEPT ![y] = Append(@, m)]
      /\ \A l \in Msgs \ {m} : key'[l] = key[l]
  BY DEF Start, Inv, Types
<1>2. Inv'
  BY StartStep
<1>3. task'[m] = "waiting" /\ \A l \in Msgs \ {m} : task'[l] = task[l]
  BY <1>1 DEF Inv, Types
<1>4. held[m] = 0
  BY <1>1 DEF Inv, HeldByState, Started
<1>5. Sem(m, 1)' = y /\ Wanted(m)' = y
  BY <1>1, <1>4 DEF Sem, Wanted
<1>6. y \in Semaphores
  <2>1. key'[m] \in KeyRecords
    BY <1>2 DEF Inv, Types, KeyRecords, Workspaces, Bots
  <2> QED BY <2>1, OrderFacts DEF Semaphores, KeyRecords
<1> HIDE DEF y
<1>7. \A l \in Msgs \ {m} : Wanted(l)' = Wanted(l)
  BY <1>1 DEF Wanted, Sem
<1>8. \A x : Line(x)' = IF x = y THEN Line(x) \cup {m} ELSE Line(x)
  BY <1>1, <1>3, <1>5, <1>7 DEF Line
<1>9. \A x \in Semaphores : queue[x] \in Seq(Msgs) /\ m \notin Elements(queue[x])
  BY <1>1 DEF Queued, Line
<1>10. /\ Append(queue[y], m) \in Seq(Msgs) /\ Distinct(Append(queue[y], m))
       /\ Elements(Append(queue[y], m)) = Line(y) \cup {m}
  BY <1>6, <1>9, AppendOnce DEF Queued
<1>11. /\ queue' \in [Semaphores -> Seq(Msgs)] /\ queue'[y] = Append(queue[y], m)
       /\ \A x \in Semaphores : x # y => queue'[x] = queue[x]
  BY <1>1, <1>6, <1>10 DEF Queued
<1>12. ASSUME NEW x \in Semaphores
       PROVE  Distinct(queue'[x]) /\ Elements(queue'[x]) = Line(x)'
  BY <1>8, <1>10, <1>11 DEF Queued
<1> QED BY <1>11, <1>12 DEF Queued

\* The head of one line moves to the end of the next.
LEMMA AcquireQueued ==
  ASSUME Inv, Queued, NEW m \in Msgs, Acquire(m)
  PROVE  Queued'
<1> DEFINE n == held[m] + 1
           x == Sem(m, n)
           y == Sem(m, n + 1)
<1>1. task[m] = "waiting" /\ Head(queue[x]) = m /\ UNCHANGED key /\ x = Wanted(m)
  BY DEF Acquire, Granted, Wanted
<1>2. x \in Semaphores /\ n \in 1..3
  BY <1>1, WantedTyped
<1>3. /\ held' = [held EXCEPT ![m] = n]
      /\ n = 3 => /\ task' = [task EXCEPT ![m] = "running"]
                  /\ queue' = [queue EXCEPT ![x] = Tail(@)]
      /\ n # 3 => /\ UNCHANGED task
                  /\ queue' = [queue EXCEPT ![x] = Tail(@), ![y] = Append(@, m)]
  BY OrderFacts DEF Acquire
<1>4. ASSUME n # 3
      PROVE  y \in Semaphores /\ y # x
  <2>1. n + 1 \in 1..3 /\ n + 1 # n
    BY <1>2, <1>4
  <2>2. y \in Semaphores
    BY <2>1, SemTyped DEF Inv
  <2>3. Order[n] # Order[n + 1]
    BY <1>2, <2>1, OrderFacts
  <2> QED BY <2>2, <2>3 DEF Sem
<1>5. /\ held'[m] = n /\ \A l \in Msgs \ {m} : held'[l] = held[l] /\ task'[l] = task[l]
      /\ n = 3 => task'[m] = "running"
  BY <1>2, <1>3 DEF Inv, Types
<1>6. n # 3 => Wanted(m)' = y
  BY <1>1, <1>5 DEF Wanted, Sem
<1>7. \A l \in Msgs \ {m} : Wanted(l)' = Wanted(l)
  BY <1>1, <1>5 DEF Wanted, Sem
<1>8. m \in Line(x) /\ \A z : z # x => m \notin Line(z)
  BY <1>1 DEF Line
<1> HIDE DEF n, x, y
<1>9. /\ Tail(queue[x]) \in Seq(Msgs) /\ Distinct(Tail(queue[x]))
      /\ Elements(Tail(queue[x])) = Line(x) \ {m}
  <2>1. queue[x] \in Seq(Msgs) /\ Distinct(queue[x]) /\ Elements(queue[x]) = Line(x)
    BY <1>2 DEF Queued
  <2> QED BY <1>1, <1>8, <2>1, TailOnce
<1>10. CASE n = 3
  <2>1. /\ queue' \in [Semaphores -> Seq(Msgs)] /\ queue'[x] = Tail(queue[x])
        /\ \A z \in Semaphores : z # x => queue'[z] = queue[z]
    BY <1>2, <1>3, <1>9, <1>10 DEF Queued
  <2>2. \A z : Line(z)' = Line(z) \ {m}
    BY <1>5, <1>7, <1>10 DEF Line
  <2>3. ASSUME NEW z \in Semaphores
        PROVE  Distinct(queue'[z]) /\ Elements(queue'[z]) = Line(z)'
    BY <1>8, <1>9, <2>1, <2>2 DEF Queued
  <2> QED BY <2>1, <2>3 DEF Queued
<1>11. CASE n # 3
  <2>1. y \in Semaphores /\ y # x
    BY <1>4, <1>11
  <2>2. queue[y] \in Seq(Msgs) /\ Distinct(queue[y]) /\ Elements(queue[y]) = Line(y)
    BY <2>1 DEF Queued
  <2>3. /\ Append(queue[y], m) \in Seq(Msgs) /\ Distinct(Append(queue[y], m))
        /\ Elements(Append(queue[y], m)) = Line(y) \cup {m}
    BY <1>8, <2>1, <2>2, AppendOnce
  <2>4. /\ queue' \in [Semaphores -> Seq(Msgs)]
        /\ queue'[x] = Tail(queue[x]) /\ queue'[y] = Append(queue[y], m)
        /\ \A z \in Semaphores : z # x /\ z # y => queue'[z] = queue[z]
    BY <1>2, <1>3, <1>9, <1>11, <2>1, <2>3 DEF Queued
  <2>5. \A z : Line(z)' = (IF z = y THEN Line(z) \cup {m} ELSE Line(z) \ {m})
    BY <1>1, <1>3, <1>5, <1>6, <1>7, <1>11 DEF Line
  <2>6. ASSUME NEW z \in Semaphores
        PROVE  Distinct(queue'[z]) /\ Elements(queue'[z]) = Line(z)'
    BY <1>8, <1>9, <2>1, <2>3, <2>4, <2>5 DEF Queued
  <2> QED BY <2>4, <2>6 DEF Queued
<1> QED BY <1>10, <1>11

LEMMA LeaveQueued ==
  ASSUME Inv, Queued, NEW m \in Msgs, Leave(m)
  PROVE  Queued'
<1>1. /\ task[m] = "running" /\ UNCHANGED queue /\ task'[m] = "none"
      /\ \A l \in Msgs \ {m} : task'[l] = task[l] /\ held'[l] = held[l] /\ key'[l] = key[l]
  BY DEF Leave, Inv, Types
<1>2. \A x : Line(x)' = Line(x)
  BY <1>1 DEF Line, Wanted, Sem
<1> QED BY <1>1, <1>2, LinesKept

\* The counts of deliveries stay within the dead-letter threshold.
LEMMA CountedStep ==
  ASSUME Counted, Next
  PROVE  Counted'
<1> USE FairnessAssumption DEF FairnessAssumption
<1>1. ASSUME NEW s \in Subjects, Read(s) PROVE Counted'
  BY <1>1 DEF Read, Counted
<1>2. ASSUME NEW s \in Subjects, Recover(s) PROVE Counted'
  <2>1. PICK idle \in SUBSET {m \in Msgs : SubjectOf[m] = s /\ deliveries[m] > 0} :
          /\ settled' = settled \cup Poison(idle)
          /\ deliveries' = [m \in Msgs |-> IF m \in Poison(idle) THEN 0
                                           ELSE IF m \in idle THEN deliveries[m] + 1
                                           ELSE deliveries[m]]
    BY <1>2 DEF Recover
  <2>2. Poison(idle) \subseteq Msgs
    BY DEF Poison
  <2>3. ASSUME NEW m \in idle, m \notin Poison(idle)
        PROVE  deliveries[m] + 1 \in 0..MaxDeliveries + 1
    <3>1. deliveries[m] \in 0..MaxDeliveries + 1 /\ ~(deliveries[m] > MaxDeliveries)
      BY <2>3 DEF Poison, Counted
    <3> QED BY <3>1
  <2>4. deliveries' \in [Msgs -> 0..MaxDeliveries + 1]
    BY <2>1, <2>3 DEF Counted
  <2> QED BY <2>1, <2>2, <2>4 DEF Counted
<1>3. ASSUME NEW m \in Msgs, Start(m) \/ Acquire(m) PROVE Counted'
  BY <1>3 DEF Start, Acquire, Counted
<1>4. ASSUME NEW m \in Msgs, Return(m) PROVE Counted'
  BY <1>4 DEF Return, Finish, HandlerFails, Counted
<1> QED BY <1>1, <1>2, <1>3, <1>4 DEF Next

LEMMA InitFull == Init => FullInv
<1> SUFFICES ASSUME Init PROVE FullInv
  OBVIOUS
<1> USE FairnessAssumption DEF FairnessAssumption
<1>1. Inv
  BY InitInv
<1>2. \A x : Line(x) = {}
  BY DEF Init, Line
<1>3. Distinct(<<>>) /\ Elements(<<>>) = {} /\ <<>> \in Seq(Msgs)
  BY DEF Distinct, Elements
<1>4. Queued
  BY <1>2, <1>3 DEF Init, Queued
<1>5. Counted
  BY DEF Init, Counted
<1> QED BY <1>1, <1>4, <1>5 DEF FullInv

LEMMA FullInductive == Spec => []FullInv
<1>1. ASSUME FullInv, Inv', [Next]_vars
      PROVE  FullInv'
  <2>1. CASE UNCHANGED vars
    <3>1. \A x : Line(x)' = Line(x)
      BY <2>1 DEF vars, Line, Wanted, Sem
    <3>2. Queued'
      BY <1>1, <2>1, <3>1, LinesKept DEF vars, FullInv
    <3>3. Counted'
      BY <1>1, <2>1 DEF vars, Counted, FullInv
    <3> QED BY <1>1, <3>2, <3>3 DEF FullInv
  <2>2. CASE Next
    <3>1. Counted'
      BY <1>1, <2>2, CountedStep DEF FullInv
    <3>2. ASSUME NEW m \in Msgs, Return(m)
          PROVE  Leave(m)
      BY <3>2 DEF Return, Finish, HandlerFails
    <3>3. Queued'
      BY <1>1, <2>2, <3>2, LoopQueued, StartQueued, AcquireQueued, LeaveQueued
         DEF Next, FullInv
    <3> QED BY <1>1, <3>1, <3>3 DEF FullInv
  <2> QED BY <1>1, <2>1, <2>2
<1> QED BY <1>1, InitFull, Inductive, PTL DEF Spec

\* Types for every instance; with them, that no entry is delivered more than
\* once beyond the dead-letter threshold.
THEOREM TypeCorrect == Spec => []TypeOK
<1>1. FullInv => TypeOK
  BY OrderFacts DEF FullInv, Inv, Types, Queued, Counted, TypeOK, KeyRecords
<1> QED BY <1>1, FullInductive, PTL

----------------------------------------------------------------------------
(* No circular wait *)

\* The subscriptions share the semaphores of workspaces and bots, and a task
\* keeps what it holds while it waits for more.  Still the tasks never wait on
\* each other in a circle: while one waits, a handler runs, or some waiting
\* task can take its next semaphore.
NoCircularWait ==
  (\E m \in Msgs : task[m] = "waiting") =>
    \E m \in Msgs : task[m] = "running" \/ (task[m] = "waiting" /\ Granted(m))

\* Who holds what a waiting task waits for is further along the order.
LEMMA HolderIsFurther ==
  ASSUME FullInv, NEW m \in Msgs, task[m] = "waiting",
         \A l \in Msgs : task[l] # "running" /\ ~(task[l] = "waiting" /\ Granted(l))
  PROVE  \E p \in Msgs : task[p] = "waiting" /\ held[p] > held[m]
<1> DEFINE n == held[m] + 1
           x == Wanted(m)
<1>1. x \in Semaphores /\ n \in 1..3 /\ x = Sem(m, n) /\ held[m] \in Nat
  BY WantedTyped DEF FullInv, Wanted, Inv, Types
<1>2. Head(queue[x]) \in Line(x)
  <2>1. queue[x] \in Seq(Msgs) /\ Distinct(queue[x]) /\ Elements(queue[x]) = Line(x)
    BY <1>1 DEF FullInv, Queued
  <2>2. m \in Line(x)
    BY DEF Line
  <2> QED BY <2>1, <2>2, TailOnce
<1>3. PICK h \in Msgs : task[h] = "waiting" /\ Wanted(h) = x /\ Head(queue[x]) = h
  BY <1>2 DEF Line
<1>4. ~(Cardinality(Holders(x)) < Limit[x[1]])
  BY <1>3 DEF Granted, Wanted
<1>5. Limit[x[1]] \in Nat \ {0}
  <2>1. x[1] = Order[n]
    BY <1>1 DEF Sem
  <2>2. Order[n] \in Kinds \cup {"slot"}
    BY <1>1, OrderFacts DEF Kinds
  <2> QED BY <2>1, <2>2, OrderFacts
<1>6. Holders(x) # {}
  BY <1>4, <1>5, FS_EmptySet
<1>7. PICK p \in Msgs : \E i \in 1..held[p] : Sem(p, i) = x
  BY <1>6 DEF Holders
<1>8. PICK i \in 1..held[p] : Sem(p, i) = x
  BY <1>7
<1>9. held[p] \in 0..3 /\ i \in 1..3 /\ task[p] = "waiting"
  BY <1>8 DEF FullInv, Inv, Types, HeldByState, Started
<1>10. i = n
  BY <1>1, <1>8, <1>9, OrderFacts DEF Sem
<1> QED BY <1>1, <1>8, <1>9, <1>10

LEMMA FullGivesProgress == FullInv => NoCircularWait
<1> SUFFICES ASSUME FullInv, NEW m \in Msgs, task[m] = "waiting",
                    \A l \in Msgs : task[l] # "running" /\ ~(task[l] = "waiting" /\ Granted(l))
             PROVE  FALSE
  BY DEF NoCircularWait
<1>1. \A l \in Msgs : task[l] = "waiting" => held[l] \in 0..2
  BY DEF FullInv, Inv, Types, HeldByState
<1>2. PICK p \in Msgs : task[p] = "waiting" /\ held[p] > held[m]
  BY HolderIsFurther
<1>3. PICK q \in Msgs : task[q] = "waiting" /\ held[q] > held[p]
  BY <1>2, HolderIsFurther
<1>4. PICK r \in Msgs : task[r] = "waiting" /\ held[r] > held[q]
  BY <1>3, HolderIsFurther
<1> QED BY <1>1, <1>2, <1>3, <1>4

\* For any number of subscriptions, messages and shared keys, and whatever the
\* limits: the three nested semaphores of the dispatch never deadlock.
THEOREM NeverDeadlocks == Spec => []NoCircularWait
<1> QED BY FullInductive, FullGivesProgress, PTL
=============================================================================
