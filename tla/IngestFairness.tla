---------------------------- MODULE IngestFairness ----------------------------
(***************************************************************************)
(* The fairness semaphores of one RedisStreamsEventBus: every message a    *)
(* subscription's loop dispatches becomes a task that takes, in this       *)
(* order, a slot of its workspace, of its bot and channel, and of the      *)
(* subscription, runs the handler and gives all three back.  The workspace *)
(* and bot semaphores are looked up by key in two registries of bounded    *)
(* size, shared by the bus's subscriptions; keys that find a registry full *)
(* share its overflow semaphore.                                           *)
(*                                                                         *)
(* The loop awaits its whole batch before it reads or recovers again.      *)
(* What the handler does, the inbox and the dead-letter move are EventBus; *)
(* here a handler succeeds, fails, or, for a message of Hanging, may never *)
(* return.                                                                 *)
(***************************************************************************)
EXTENDS Integers, Sequences, FiniteSets

CONSTANTS
  Subjects,         \* subscriptions of the bus
  Msgs,             \* messages published to them
  SubjectOf,        \* the subscription of a message,
  WorkspaceOf,      \* its workspace_id, or the key of messages without one,
  BotOf,            \* and its bot and channel, likewise
  Overflow,         \* _FAIRNESS_OVERFLOW_KEY
  Hanging,          \* messages whose handler may never return
  Concurrency,      \* slots of a subscription
  WorkspaceLimit,   \* DEFAULT_BUS_CONCURRENCY_PER_WORKSPACE
  BotLimit,         \* DEFAULT_BUS_CONCURRENCY_PER_BOT_CHANNEL
  RegistryMax,      \* DEFAULT_BUS_TENANT_SEM_MAX
  ReadCount,        \* REDIS_XREAD_COUNT
  MaxDeliveries     \* DEFAULT_BUS_DLQ_MAX_DELIVERIES

Workspaces == {WorkspaceOf[m] : m \in Msgs}
Bots == {BotOf[m] : m \in Msgs}

ASSUME FairnessAssumption ==
  /\ IsFiniteSet(Msgs) /\ Hanging \subseteq Msgs
  /\ SubjectOf \in [Msgs -> Subjects]
  /\ DOMAIN WorkspaceOf = Msgs /\ DOMAIN BotOf = Msgs
  /\ Overflow \notin Workspaces \cup Bots
  /\ {Concurrency, WorkspaceLimit, BotLimit} \subseteq Nat \ {0}
  /\ {RegistryMax, ReadCount, MaxDeliveries} \subseteq Nat \ {0}

VARIABLES
  deliveries,  \* times_delivered of a pending message, else 0
  settled,     \* messages acknowledged or dead-lettered
  task,        \* the messages' _dispatch_one
  held,        \* how many of its semaphores a task holds
  key,         \* the semaphore of each kind a task was given
  registry,    \* the keys that have a semaphore, per kind
  queue        \* the tasks that wait for a semaphore, first come first

vars == <<deliveries, settled, task, held, key, registry, queue>>

\* Mutant: the global budget is taken outside the caps.
OrderSlotFirst == <<"slot", "workspace", "bot">>

\* async with ws_sem, bc_sem, sem.
Order == <<"workspace", "bot", "slot">>

Semaphores ==
  ({"workspace"} \X (Workspaces \cup {Overflow})) \cup
  ({"bot"} \X (Bots \cup {Overflow})) \cup ({"slot"} \X Subjects)

Limit == [workspace |-> WorkspaceLimit, bot |-> BotLimit, slot |-> Concurrency]

\* The i-th semaphore a task takes, and the tasks that hold a semaphore.
Sem(m, i) == <<Order[i], key[m][Order[i]]>>
Holders(x) == {m \in Msgs : \E i \in 1..held[m] : Sem(m, i) = x}

OwnKeys(m) == [workspace |-> WorkspaceOf[m], bot |-> BotOf[m], slot |-> SubjectOf[m]]

Init ==
  /\ deliveries = [m \in Msgs |-> 0] /\ settled = {}
  /\ task = [m \in Msgs |-> "none"] /\ held = [m \in Msgs |-> 0]
  /\ key = [m \in Msgs |-> OwnKeys(m)]
  /\ registry = [workspace |-> {}, bot |-> {}]
  /\ queue = [x \in Semaphores |-> <<>>]

----------------------------------------------------------------------------
(* The loop of a subscription *)

\* The gather of the last batch has returned.
Free(s) == \A m \in Msgs : SubjectOf[m] = s => task[m] = "none"

Dispatched(batch) ==
  task' = [m \in Msgs |-> IF m \in batch THEN "created" ELSE task[m]]

\* XREADGROUP ">" of what has been published so far.
Read(s) ==
  /\ Free(s)
  /\ \E batch \in SUBSET {m \in Msgs : SubjectOf[m] = s /\ m \notin settled
                                       /\ deliveries[m] = 0} :
       /\ Cardinality(batch) \in 1..ReadCount
       /\ deliveries' = [m \in Msgs |-> IF m \in batch THEN 1 ELSE deliveries[m]]
       /\ Dispatched(batch)
  /\ UNCHANGED <<settled, held, key, registry, queue>>

\* Mutant: no entry is ever given up.
PoisonNever(idle) == {}

\* Delivered too often: dead-lettered instead of dispatched again.
Poison(idle) == {m \in idle : deliveries[m] > MaxDeliveries}

\* recover_pending_messages: the idle entries it finds are dead-lettered or
\* claimed and dispatched.
Recover(s) ==
  /\ Free(s)
  /\ \E idle \in SUBSET {m \in Msgs : SubjectOf[m] = s /\ deliveries[m] > 0} :
       LET poison == Poison(idle) IN
       /\ Cardinality(idle) \in 1..ReadCount
       /\ settled' = settled \cup poison
       /\ deliveries' = [m \in Msgs |-> IF m \in poison THEN 0
                                        ELSE IF m \in idle THEN deliveries[m] + 1
                                        ELSE deliveries[m]]
       /\ Dispatched(idle \ poison)
  /\ UNCHANGED <<held, key, registry, queue>>

----------------------------------------------------------------------------
(* _dispatch_one *)

\* Mutant: a full registry is not looked at.
FairnessKeyUnbounded(kind, k) == k

\* _fairness_semaphore: the key's own semaphore, a new one while there is room.
FairnessKey(kind, k) ==
  IF k \in registry[kind] \/ Cardinality(registry[kind]) < RegistryMax
  THEN k ELSE Overflow

\* The task looks its semaphores up and asks for the first.
Start(m) ==
  LET workspace == FairnessKey("workspace", WorkspaceOf[m])
      bot == FairnessKey("bot", BotOf[m]) IN
  /\ task[m] = "created"
  /\ task' = [task EXCEPT ![m] = "waiting"]
  /\ key' = [key EXCEPT ![m].workspace = workspace, ![m].bot = bot]
  /\ registry' = [workspace |-> registry.workspace \cup {workspace},
                  bot |-> registry.bot \cup {bot}]
  /\ queue' = [queue EXCEPT ![<<Order[1], key'[m][Order[1]]>>] = Append(@, m)]
  /\ UNCHANGED <<deliveries, settled, held>>

\* An asyncio semaphore is granted in the order of the requests.
Granted(m) ==
  LET x == Sem(m, held[m] + 1) IN
  /\ Head(queue[x]) = m
  /\ Cardinality(Holders(x)) < Limit[x[1]]

\* The next semaphore, and the request for the one after it.
Acquire(m) ==
  LET n == held[m] + 1 IN
  /\ task[m] = "waiting" /\ Granted(m)
  /\ held' = [held EXCEPT ![m] = n]
  /\ IF n = Len(Order)
     THEN /\ task' = [task EXCEPT ![m] = "running"]
          /\ queue' = [queue EXCEPT ![Sem(m, n)] = Tail(@)]
     ELSE /\ UNCHANGED task
          /\ queue' = [queue EXCEPT ![Sem(m, n)] = Tail(@),
                                    ![Sem(m, n + 1)] = Append(@, m)]
  /\ UNCHANGED <<deliveries, settled, key, registry>>

\* Leaving the async with gives the three semaphores back at once.
Leave(m) ==
  /\ task[m] = "running"
  /\ task' = [task EXCEPT ![m] = "none"]
  /\ held' = [held EXCEPT ![m] = 0]
  /\ key' = [key EXCEPT ![m] = OwnKeys(m)]
  /\ UNCHANGED <<registry, queue>>

\* The handler's effect is committed and the entry acknowledged.
Finish(m) ==
  /\ Leave(m)
  /\ deliveries' = [deliveries EXCEPT ![m] = 0]
  /\ settled' = settled \cup {m}

\* An exception is logged; the entry stays pending.
HandlerFails(m) == Leave(m) /\ UNCHANGED <<deliveries, settled>>

----------------------------------------------------------------------------

Return(m) == Finish(m) \/ HandlerFails(m)

Next ==
  \/ \E s \in Subjects : Read(s) \/ Recover(s)
  \/ \E m \in Msgs : Start(m) \/ Acquire(m) \/ Return(m)

Spec == Init /\ [][Next]_vars

\* The event loop runs every task that can run, and handlers return, but for
\* those of Hanging.  Nothing is assumed of the loops, which wait for these.
FairSpec ==
  /\ Spec
  /\ \A m \in Msgs : WF_vars(Start(m)) /\ WF_vars(Acquire(m))
  /\ \A m \in Msgs \ Hanging : WF_vars(Return(m))

----------------------------------------------------------------------------
(* Properties *)

\* Types.  An entry is delivered at most once more than the dead-letter
\* threshold, whichever of read and recovery delivered it.
TypeOK ==
  /\ deliveries \in [Msgs -> 0..MaxDeliveries + 1]
  /\ settled \subseteq Msgs
  /\ task \in [Msgs -> {"none", "created", "waiting", "running"}]
  /\ held \in [Msgs -> 0..Len(Order)]
  /\ key \in [Msgs -> [workspace : Workspaces \cup {Overflow},
                       bot : Bots \cup {Overflow}, slot : Subjects]]
  /\ registry \in [workspace : SUBSET (Workspaces \cup {Overflow}),
                   bot : SUBSET (Bots \cup {Overflow})]
  /\ queue \in [Semaphores -> Seq(Msgs)]

Running(S) == {m \in S : task[m] = "running"}

\* However many keys come and whichever subscription a message came by, a
\* bot, a workspace and a subscription run no more handlers at once than their
\* caps, and a registry grows to one semaphore over its bound and no further.
CapsHold ==
  /\ \A s \in Subjects : Cardinality(Running({m \in Msgs : SubjectOf[m] = s})) <= Concurrency
  /\ \A w \in Workspaces :
       Cardinality(Running({m \in Msgs : WorkspaceOf[m] = w})) <= WorkspaceLimit
  /\ \A b \in Bots : Cardinality(Running({m \in Msgs : BotOf[m] = b})) <= BotLimit
  /\ \A kind \in {"workspace", "bot"} : Cardinality(registry[kind]) <= RegistryMax + 1

\* The handlers that hang leave a slot of the subscription free: the caps of
\* their workspaces, or of their bots, add up to less than its concurrency.
Headroom(s) ==
  LET hanging == {n \in Hanging : SubjectOf[n] = s} IN
  \/ WorkspaceLimit * Cardinality({WorkspaceOf[n] : n \in hanging}) < Concurrency
  \/ BotLimit * Cardinality({BotOf[n] : n \in hanging}) < Concurrency

\* A message that may hang shares m's workspace semaphore, or the bot semaphore
\* of m or of a task that has m's workspace semaphore while it waits.
Blocked(m) ==
  \E n \in Hanging :
    \/ key[n].workspace = key[m].workspace
    \/ \E x \in Msgs : key[x].workspace = key[m].workspace /\ key[x].bot = key[n].bot

\* "a noisy workspace blocks on its 10-slot cap without starving other
\* workspaces": this needs the caps to leave a slot, which the limits of the
\* code do not (10 per workspace, 5 per bot, 5 per subscription).  Where they
\* do, a dispatched task whose workspace is not blocked on handlers that never
\* return gets its slots, runs and ends.  (Overflow semaphores are shared by
\* whoever comes late.)
QuietWorkspaceServed ==
  (\A s \in Subjects : Headroom(s)) =>
    \A m \in Msgs \ Hanging : task[m] # "none" ~> task[m] = "none" \/ Blocked(m)
=============================================================================
