------------------------- MODULE TurnDispatchProofs -------------------------
(* Proofs about TurnDispatch for any deliveries, messages, sessions and    *)
(* faults.                                                                 *)
EXTENDS TurnDispatch, SequenceTheorems, TLAPS

USE DispatchAssumption DEF ScopeOf, InFlight

(* What a step of task t leaves alone: where the others are, and what for. *)
OnlyMoves(t) ==
  \A u \in Tasks : u # t =>
    /\ pc'[u] = pc[u] /\ ScopeOf(u)' = ScopeOf(u)
    /\ u \in Deliveries => job'[u] = job[u]

ExecutorTypeOK ==
  /\ serving \in [Sessions -> Tasks \cup {None}] /\ served \subseteq Tasks
  /\ queue \in [Sessions -> Seq(Tasks)]

ScopesKnown == \A t \in Tasks : pc[t] # "idle" => ScopeOf(t) \in Sessions

(* A task that has begun knows its session.                                *)
LEMMA ScopeIsSession ==
  ASSUME TypeOK, TasksFit
  PROVE  ScopesKnown
  BY DEF ScopesKnown, TypeOK, TasksFit, ScopeOf, Tasks

(* The head of a queue without repetitions is not in its tail.             *)
LEMMA TailWithoutHead ==
  ASSUME NEW S, NEW q \in Seq(S), q # <<>>,
         \A i, j \in 1..Len(q) : q[i] = q[j] => i = j
  PROVE  /\ Tail(q) \in Seq(S)
         /\ \A i \in 1..Len(Tail(q)) :
              i + 1 \in 1..Len(q) /\ Tail(q)[i] = q[i + 1] /\ Tail(q)[i] # Head(q)
         /\ \A i, j \in 1..Len(Tail(q)) : Tail(q)[i] = Tail(q)[j] => i = j
  <1>1. Tail(q) \in Seq(S) /\ Len(Tail(q)) = Len(q) - 1 /\ Len(q) \in Nat \ {0} /\ Head(q) = q[1]
    OBVIOUS
  <1>2. \A i \in 1..Len(Tail(q)) : Tail(q)[i] = q[i + 1] /\ i + 1 \in 1..Len(q) /\ i + 1 # 1
    BY <1>1
  <1>3. \A i \in 1..Len(Tail(q)) : Tail(q)[i] # Head(q)
    BY <1>1, <1>2
  <1>4. ASSUME NEW i \in 1..Len(Tail(q)), NEW j \in 1..Len(Tail(q)), Tail(q)[i] = Tail(q)[j]
        PROVE  i = j
    <2>1. i + 1 = j + 1
      BY <1>2, <1>4
    <2> QED
      BY <2>1, <1>1
  <1> QED
    BY <1>1, <1>2, <1>3, <1>4

-----------------------------------------------------------------------------
(* How the slots change when a task passes through SessionExecutor.run.    *)

(* A task in flight holds the slot it has just taken.                      *)
LEMMA HolderEnters ==
  ASSUME ExecutorTypeOK, ScopesKnown, SlotIsHeld, NEW t \in Tasks, NEW s \in Sessions,
         ~InFlight(t), InFlight(t)', ScopeOf(t)' = s, OnlyMoves(t),
         serving[s] = None, serving' = [serving EXCEPT ![s] = t]
  PROVE  SlotIsHeld'
  <1>1. ASSUME NEW r \in Sessions, serving'[r] # None
        PROVE  InFlight(serving[r])' /\ ScopeOf(serving[r])' = r
    <2>1. CASE r = s
      BY <2>1 DEF ExecutorTypeOK
    <2>2. CASE r # s
      <3>1. serving'[r] = serving[r] /\ serving[r] \in Tasks
        BY <1>1, <2>2 DEF ExecutorTypeOK
      <3>2. InFlight(serving[r]) /\ ScopeOf(serving[r]) = r
        BY <3>1 DEF SlotIsHeld
      <3>3. PICK u \in Tasks : u = serving[r] /\ u # t
        BY <3>1, <3>2
      <3>4. pc'[u] = pc[u] /\ ScopeOf(u)' = ScopeOf(u)
        BY <3>3 DEF OnlyMoves
      <3> QED
        BY <3>1, <3>2, <3>3, <3>4
    <2> QED
      BY <2>1, <2>2
  <1>2. ASSUME NEW u \in Tasks, InFlight(u)'
        PROVE  serving'[ScopeOf(u)'] = u
    <2>1. CASE u = t
      BY <2>1 DEF ExecutorTypeOK
    <2>2. CASE u # t
      <3>1. InFlight(u) /\ ScopeOf(u)' = ScopeOf(u) /\ ScopeOf(u) \in Sessions
        BY <1>2, <2>2 DEF OnlyMoves, ScopesKnown
      <3>2. serving[ScopeOf(u)] = u
        BY <3>1 DEF SlotIsHeld
      <3> QED
        BY <3>1, <3>2 DEF ExecutorTypeOK
    <2> QED
      BY <2>1, <2>2
  <1> QED
    BY <1>1, <1>2 DEF SlotIsHeld

(* The holders stay when a task moves that is and was outside.             *)
LEMMA HoldersStay ==
  ASSUME ExecutorTypeOK, ScopesKnown, SlotIsHeld, NEW t \in Tasks, ~InFlight(t), ~InFlight(t)',
         serving' = serving, OnlyMoves(t)
  PROVE  SlotIsHeld'
  <1>1. ASSUME NEW r \in Sessions, serving[r] # None
        PROVE  InFlight(serving[r])' /\ ScopeOf(serving[r])' = r
    <2>1. InFlight(serving[r]) /\ ScopeOf(serving[r]) = r /\ serving[r] \in Tasks
      BY <1>1 DEF SlotIsHeld, ExecutorTypeOK
    <2>2. PICK u \in Tasks : u = serving[r] /\ u # t
      BY <2>1
    <2>3. pc'[u] = pc[u] /\ ScopeOf(u)' = ScopeOf(u)
      BY <2>2 DEF OnlyMoves
    <2> QED
      BY <2>1, <2>2, <2>3
  <1>2. ASSUME NEW u \in Tasks, InFlight(u)'
        PROVE  serving[ScopeOf(u)'] = u
    <2>1. u # t
      BY <1>2
    <2>2. InFlight(u) /\ ScopeOf(u)' = ScopeOf(u)
      BY <1>2, <2>1 DEF OnlyMoves
    <2> QED
      BY <2>2 DEF SlotIsHeld
  <1> QED
    BY <1>1, <1>2 DEF SlotIsHeld

(* Those who wait are not disturbed by a task that did not.                *)
LEMMA QueuesStay ==
  ASSUME ExecutorTypeOK, QueuedTasksWait, NEW t \in Tasks, pc[t] # "waiting",
         queue' = queue, OnlyMoves(t)
  PROVE  QueuedTasksWait'
  <1> SUFFICES ASSUME NEW r \in Sessions, NEW i \in 1..Len(queue[r])
               PROVE  pc'[queue[r][i]] = "waiting" /\ ScopeOf(queue[r][i])' = r
    BY DEF QueuedTasksWait
  <1>1. queue[r][i] \in Tasks /\ pc[queue[r][i]] = "waiting" /\ ScopeOf(queue[r][i]) = r
    BY DEF ExecutorTypeOK, QueuedTasksWait
  <1>2. PICK u \in Tasks : u = queue[r][i] /\ u # t
    BY <1>1
  <1>3. pc'[u] = pc[u] /\ ScopeOf(u)' = ScopeOf(u)
    BY <1>2 DEF OnlyMoves
  <1> QED
    BY <1>1, <1>2, <1>3

(* It gets the free slot at once.                                          *)
LEMMA SlotTaken ==
  ASSUME ExecutorTypeOK, ScopesKnown, SlotIsHeld, QueuedTasksWait,
         NEW t \in Tasks, NEW s \in Sessions,
         pc[t] = "idle", Executor!SubmitNow(t, s),
         InFlight(t)', ScopeOf(t)' = s, OnlyMoves(t)
  PROVE  SlotIsHeld' /\ QueuedTasksWait' /\ ExecutorTypeOK'
  <1>1. serving' = [serving EXCEPT ![s] = t] /\ queue' = queue /\ served' = served /\ serving[s] = None
    BY DEF Executor!SubmitNow, Executor!Free
  <1>2. ExecutorTypeOK'
    BY <1>1 DEF ExecutorTypeOK
  <1>3. SlotIsHeld'
    BY <1>1, HolderEnters
  <1>4. QueuedTasksWait'
    BY <1>1, QueuesStay
  <1> QED
    BY <1>2, <1>3, <1>4

(* It waits behind those who wait already.                                 *)
LEMMA SlotQueued ==
  ASSUME ExecutorTypeOK, ScopesKnown, SlotIsHeld, QueuedTasksWait,
         NEW t \in Tasks, NEW s \in Sessions,
         pc[t] = "idle", Executor!SubmitLater(t, s),
         pc'[t] = "waiting", ScopeOf(t)' = s, OnlyMoves(t)
  PROVE  SlotIsHeld' /\ QueuedTasksWait' /\ ExecutorTypeOK'
  <1>1. queue' = [queue EXCEPT ![s] = Append(queue[s], t)] /\ serving' = serving /\ served' = served
    BY DEF Executor!SubmitLater
  <1>2. queue[s] \in Seq(Tasks) /\ Append(queue[s], t) \in Seq(Tasks)
    BY DEF ExecutorTypeOK
  <1>3. ExecutorTypeOK'
    BY <1>1, <1>2 DEF ExecutorTypeOK
  <1>4. SlotIsHeld'
    BY <1>1, HoldersStay
  <1>5. ASSUME NEW r \in Sessions, NEW i \in 1..Len(queue[r])
        PROVE  \E u \in Tasks :
                 u = queue[r][i] /\ u # t /\ pc'[u] = "waiting" /\ ScopeOf(u)' = r
    <2>1. queue[r][i] \in Tasks /\ pc[queue[r][i]] = "waiting" /\ ScopeOf(queue[r][i]) = r
      BY DEF ExecutorTypeOK, QueuedTasksWait
    <2>2. PICK u \in Tasks : u = queue[r][i] /\ u # t
      BY <2>1
    <2>3. pc'[u] = pc[u] /\ ScopeOf(u)' = ScopeOf(u)
      BY <2>2 DEF OnlyMoves
    <2> QED
      BY <2>1, <2>2, <2>3
  <1>6. ASSUME NEW r \in Sessions, NEW i \in 1..Len(queue'[r])
        PROVE  /\ pc'[queue'[r][i]] = "waiting" /\ ScopeOf(queue[r][i])' = r
               /\ \A j \in 1..Len(queue'[r]) : queue'[r][i] = queue'[r][j] => i = j
    <2>1. CASE r # s
      <3>1. queue'[r] = queue[r]
        BY <1>1, <2>1 DEF ExecutorTypeOK
      <3>2. \A j \in 1..Len(queue[r]) : queue[r][i] = queue[r][j] => i = j
        BY <3>1 DEF QueuedTasksWait
      <3> QED
        BY <3>1, <3>2, <1>5
    <2>2. CASE r = s
      <3> DEFINE q == queue[s]
      <3>1. queue'[r] = Append(q, t) /\ Len(Append(q, t)) = Len(q) + 1 /\ Len(q) \in Nat
        BY <1>1, <1>2, <2>2 DEF ExecutorTypeOK
      <3>2. \A j \in 1..Len(q) : Append(q, t)[j] = q[j]
        BY <1>2
      <3>3. Append(q, t)[Len(q) + 1] = t
        BY <1>2
      <3>4. \A j, k \in 1..Len(q) : q[j] = q[k] => j = k
        BY DEF QueuedTasksWait
      <3>5. \A j \in 1..Len(q) : q[j] # t
        BY <1>5
      <3>6. i \in 1..Len(q) \/ i = Len(q) + 1
        BY <3>1
      <3>7. \A j \in 1..Len(queue'[r]) : j \in 1..Len(q) \/ j = Len(q) + 1
        BY <3>1
      <3>8. \A j \in 1..Len(queue'[r]) : queue'[r][i] = queue'[r][j] => i = j
        BY <3>1, <3>2, <3>3, <3>4, <3>5, <3>6, <3>7
      <3>9. pc'[queue'[r][i]] = "waiting" /\ ScopeOf(queue[r][i])' = r
        <4>1. CASE i \in 1..Len(q)
          <5>1. PICK u \in Tasks : u = q[i] /\ pc'[u] = "waiting" /\ ScopeOf(u)' = r
            BY <4>1, <2>2, <1>5
          <5> QED
            BY <4>1, <5>1, <3>1, <3>2
        <4>2. CASE i = Len(q) + 1
          BY <4>2, <3>1, <3>3, <2>2
        <4> QED
          BY <4>1, <4>2, <3>6
      <3> QED
        BY <3>8, <3>9
    <2> QED
      BY <2>1, <2>2
  <1> QED
    BY <1>3, <1>4, <1>6 DEF QueuedTasksWait

(* The queue of a session loses its head, which is no longer waiting.      *)
LEMMA QueueAdvances ==
  ASSUME ExecutorTypeOK, QueuedTasksWait, NEW t \in Tasks, NEW s \in Sessions,
         queue[s] # <<>>, Head(queue[s]) = t, queue' = [queue EXCEPT ![s] = Tail(queue[s])],
         ScopeOf(t) = s, OnlyMoves(t)
  PROVE  QueuedTasksWait' /\ queue' \in [Sessions -> Seq(Tasks)]
  <1> DEFINE q == queue[s]
  <1>1. q \in Seq(Tasks) /\ \A j, k \in 1..Len(q) : q[j] = q[k] => j = k
    BY DEF ExecutorTypeOK, QueuedTasksWait
  <1>2. /\ Tail(q) \in Seq(Tasks)
        /\ \A i \in 1..Len(Tail(q)) :
              i + 1 \in 1..Len(q) /\ Tail(q)[i] = q[i + 1] /\ Tail(q)[i] # Head(q)
        /\ \A i, j \in 1..Len(Tail(q)) : Tail(q)[i] = Tail(q)[j] => i = j
    <2> HIDE DEF q
    <2> QED
      BY <1>1, TailWithoutHead DEF q
  <1>3. queue' \in [Sessions -> Seq(Tasks)]
    BY <1>2 DEF ExecutorTypeOK
  <1>4. ASSUME NEW u \in Tasks, u # t, pc[u] = "waiting"
        PROVE  pc'[u] = "waiting" /\ ScopeOf(u)' = ScopeOf(u)
    BY <1>4 DEF OnlyMoves
  <1>5. ASSUME NEW r \in Sessions, NEW i \in 1..Len(queue'[r])
        PROVE  /\ pc'[queue'[r][i]] = "waiting" /\ ScopeOf(queue[r][i])' = r
               /\ \A j \in 1..Len(queue'[r]) : queue'[r][i] = queue'[r][j] => i = j
    <2>1. CASE r # s
      <3>1. queue'[r] = queue[r]
        BY <2>1 DEF ExecutorTypeOK
      <3>2. pc[queue[r][i]] = "waiting" /\ ScopeOf(queue[r][i]) = r /\ queue[r][i] \in Tasks
        <4>1. queue[r] \in Seq(Tasks)
          BY DEF ExecutorTypeOK
        <4> QED
          BY <4>1, <3>1 DEF QueuedTasksWait
      <3>3. \A j \in 1..Len(queue[r]) : queue[r][i] = queue[r][j] => i = j
        BY <3>1 DEF QueuedTasksWait
      <3>4. PICK u \in Tasks : u = queue'[r][i] /\ u # t /\ pc[u] = "waiting" /\ ScopeOf(u) = r
        BY <2>1, <3>1, <3>2
      <3> QED
        BY <3>1, <3>3, <3>4, <1>4
    <2>2. CASE r = s
      <3>1. queue'[r] = Tail(q)
        BY <2>2 DEF ExecutorTypeOK
      <3>2. i + 1 \in 1..Len(q) /\ queue'[r][i] = q[i + 1] /\ queue'[r][i] # t
        BY <3>1, <1>2
      <3>3. q[i + 1] \in Tasks /\ pc[q[i + 1]] = "waiting" /\ ScopeOf(q[i + 1]) = r
        BY <3>2, <2>2, <1>1 DEF QueuedTasksWait
      <3>4. PICK u \in Tasks : u = queue'[r][i] /\ u # t /\ pc[u] = "waiting" /\ ScopeOf(u) = r
        BY <3>2, <3>3
      <3> QED
        BY <3>1, <3>4, <1>2, <1>4
    <2> QED
      BY <2>1, <2>2
  <1> QED
    BY <1>3, <1>5 DEF QueuedTasksWait

(* Its turn comes, and its operation suspends or is over at once.          *)
LEMMA SlotServed ==
  ASSUME ExecutorTypeOK, ScopesKnown, SlotIsHeld, QueuedTasksWait,
         NEW t \in Tasks, NEW s \in Sessions,
         pc[t] = "waiting", ScopeOf(t) = s, ScopeOf(t)' = s, OnlyMoves(t),
         \/ Executor!Serve(t, s) /\ InFlight(t)'
         \/ Executor!ServeBrief(t, s) /\ ~InFlight(t)'
  PROVE  SlotIsHeld' /\ QueuedTasksWait' /\ ExecutorTypeOK'
  <1>1. queue[s] # <<>> /\ Head(queue[s]) = t /\ serving[s] = None
        /\ queue' = [queue EXCEPT ![s] = Tail(queue[s])]
    BY DEF Executor!Serve, Executor!ServeBrief, Executor!CanServe
  <1>2. QueuedTasksWait' /\ queue' \in [Sessions -> Seq(Tasks)]
    BY <1>1, QueueAdvances
  <1>3. CASE Executor!Serve(t, s) /\ InFlight(t)'
    <2>1. serving' = [serving EXCEPT ![s] = t] /\ served' = served
      BY <1>3 DEF Executor!Serve
    <2>2. ExecutorTypeOK'
      BY <1>2, <2>1 DEF ExecutorTypeOK
    <2>3. SlotIsHeld'
      BY <1>1, <1>3, <2>1, HolderEnters
    <2> QED
      BY <1>2, <2>2, <2>3
  <1>4. CASE Executor!ServeBrief(t, s) /\ ~InFlight(t)'
    <2>1. serving' = serving /\ served' = served \cup {t}
      BY <1>4 DEF Executor!ServeBrief
    <2>2. ExecutorTypeOK'
      BY <1>2, <2>1 DEF ExecutorTypeOK
    <2>3. SlotIsHeld'
      BY <1>4, <2>1, HoldersStay
    <2> QED
      BY <1>2, <2>2, <2>3
  <1> QED
    BY <1>3, <1>4

(* It leaves the slot, or goes on in it.                                   *)
LEMMA SlotFreed ==
  ASSUME ExecutorTypeOK, ScopesKnown, SlotIsHeld, QueuedTasksWait, NEW t \in Tasks,
         InFlight(t), pc'[t] = "done", Executor!Finish(t, ScopeOf(t)),
         ScopeOf(t)' = ScopeOf(t), OnlyMoves(t)
  PROVE  SlotIsHeld' /\ QueuedTasksWait' /\ ExecutorTypeOK'
  <1> DEFINE s == ScopeOf(t)
  <1>1. s \in Sessions /\ serving[s] = t
    BY DEF ScopesKnown, SlotIsHeld
  <1>2. serving' = [serving EXCEPT ![s] = None] /\ queue' = queue /\ served' = served \cup {t}
    BY DEF Executor!Finish
  <1> HIDE DEF s
  <1>3. ExecutorTypeOK'
    BY <1>1, <1>2 DEF ExecutorTypeOK
  <1>4. ASSUME NEW r \in Sessions, serving'[r] # None
        PROVE  InFlight(serving[r])' /\ ScopeOf(serving[r])' = r
    <2>1. serving'[r] = serving[r] /\ r # s /\ serving[r] \in Tasks
      BY <1>2, <1>4 DEF ExecutorTypeOK
    <2>2. InFlight(serving[r]) /\ ScopeOf(serving[r]) = r
      BY <2>1 DEF SlotIsHeld
    <2>3. PICK u \in Tasks : u = serving[r] /\ u # t
      BY <2>1, <2>2 DEF s
    <2>4. pc'[u] = pc[u] /\ ScopeOf(u)' = ScopeOf(u)
      BY <2>3 DEF OnlyMoves
    <2> QED
      BY <2>1, <2>2, <2>3, <2>4
  <1>5. ASSUME NEW u \in Tasks, InFlight(u)'
        PROVE  serving'[ScopeOf(u)'] = u
    <2>1. u # t
      BY <1>5
    <2>2. InFlight(u) /\ ScopeOf(u)' = ScopeOf(u) /\ ScopeOf(u) \in Sessions
      BY <1>5, <2>1 DEF OnlyMoves, ScopesKnown
    <2>3. serving[ScopeOf(u)] = u
      BY <2>2 DEF SlotIsHeld
    <2> QED
      BY <2>1, <2>2, <2>3, <1>1, <1>2 DEF ExecutorTypeOK
  <1>6. QueuedTasksWait'
    BY <1>2, QueuesStay
  <1> QED
    BY <1>3, <1>4, <1>5, <1>6 DEF SlotIsHeld

-----------------------------------------------------------------------------
(* How the rest changes when task t moves.                                 *)

(* Only the task in a session's slot writes its record, so that the others *)
(* keep what they have read and the thread they start a turn on.           *)
KeepsRecord(t) ==
  /\ pc[t] \in {"resume", "open"} => existing[t] = sessions[ScopeOf(t)]
  /\ pc[t] = "resume" => existing[t] # None

OnThread(t) == pc[t] = "turn" => sessions[ScopeOf(t)] # None /\ sessions[ScopeOf(t)].thread = thread[t]

LEMMA OthersKeepRecords ==
  ASSUME ScopesKnown, SlotIsHeld, SlotKeepsRecord, TurnOnSessionThread, TasksFit,
         NEW t \in Tasks, OnlyMoves(t),
         \A u \in Tasks : u # t => existing'[u] = existing[u] /\ thread'[u] = thread[u],
         \A s \in Sessions : sessions'[s] = sessions[s] \/ serving[s] = t,
         KeepsRecord(t)', t \in Deliveries => OnThread(t)'
  PROVE  SlotKeepsRecord' /\ TurnOnSessionThread'
  <1>1. ASSUME NEW u \in Tasks, u # t, InFlight(u)
        PROVE  pc'[u] = pc[u] /\ ScopeOf(u)' = ScopeOf(u) /\ sessions'[ScopeOf(u)] = sessions[ScopeOf(u)]
    <2>1. ScopeOf(u) \in Sessions /\ serving[ScopeOf(u)] = u
      BY <1>1 DEF ScopesKnown, SlotIsHeld
    <2>2. pc'[u] = pc[u] /\ ScopeOf(u)' = ScopeOf(u)
      BY <1>1 DEF OnlyMoves
    <2> QED
      BY <2>1, <2>2, <1>1
  <1>2. ASSUME NEW u \in Tasks, u # t
        PROVE  KeepsRecord(u)'
    <2>1. KeepsRecord(u)
      BY DEF SlotKeepsRecord, KeepsRecord
    <2>2. pc'[u] = pc[u] /\ existing'[u] = existing[u]
      BY <1>2 DEF OnlyMoves
    <2> QED
      BY <2>1, <2>2, <1>1, <1>2 DEF KeepsRecord
  <1>3. ASSUME NEW u \in Deliveries, u # t
        PROVE  OnThread(u)'
    <2>1. OnThread(u) /\ u \in Tasks
      BY DEF TurnOnSessionThread, OnThread, Tasks
    <2>2. pc'[u] = pc[u] /\ thread'[u] = thread[u]
      BY <1>3, <2>1 DEF OnlyMoves
    <2>3. CASE InFlight(u)
      <3>1. ScopeOf(u)' = ScopeOf(u) /\ sessions'[ScopeOf(u)] = sessions[ScopeOf(u)]
        BY <1>1, <1>3, <2>1, <2>3
      <3> QED
        BY <2>1, <2>2, <3>1, Zenon DEF OnThread
    <2>4. CASE ~InFlight(u)
      BY <2>2, <2>4 DEF OnThread
    <2> QED
      BY <2>3, <2>4
  <1>4. SlotKeepsRecord'
    BY <1>2 DEF SlotKeepsRecord, KeepsRecord
  <1>5. TurnOnSessionThread'
    BY <1>3 DEF TurnOnSessionThread, OnThread
  <1> QED
    BY <1>4, <1>5

(* A message is taken by a task that finds it unmarked, or stays with its  *)
(* taker; marks do not vanish.                                             *)
LEMMA OneTakerStays ==
  ASSUME EachMessageHasOneTaker, NEW t \in Tasks, OnlyMoves(t),
         \A u \in Tasks : u # t => (u \in sent' <=> u \in sent),
         job' \in [Deliveries -> Messages \cup {None}],
         \A u \in Deliveries : Took(u)' => job'[u] \in Messages,
         \A n \in Messages : processed[n] # "none" => processed'[n] # "none",
         \A n \in Messages : processed'[n] # "none" => processed[n] # "none" \/ IsForUs(n),
         t \in Deliveries /\ Took(t)' =>
           /\ processed'[job'[t]] # "none"
           /\ (Took(t) /\ job'[t] = job[t]) \/ processed[job'[t]] = "none"
  PROVE  EachMessageHasOneTaker'
  <1>1. \A n \in Messages : processed'[n] # "none" => IsForUs(n)
    BY DEF EachMessageHasOneTaker
  <1>2. ASSUME NEW u \in Deliveries, u # t, Took(u)'
        PROVE  Took(u) /\ job'[u] = job[u] /\ job[u] \in Messages
    BY <1>2 DEF OnlyMoves, Took, Working, Tasks
  <1>3. ASSUME NEW u \in Deliveries, Took(u)'
        PROVE  processed'[job'[u]] # "none"
    BY <1>2, <1>3 DEF EachMessageHasOneTaker
  <1>4. ASSUME NEW u \in Deliveries, NEW w \in Deliveries, Took(u)', Took(w)', job'[u] = job'[w]
        PROVE  u = w
    <2>1. CASE u # t /\ w # t
      BY <1>2, <1>4, <2>1 DEF EachMessageHasOneTaker
    <2>2. ASSUME NEW x \in Deliveries, x # t, Took(x)', t \in Deliveries, Took(t)', job'[x] = job'[t]
          PROVE  FALSE
      <3>1. Took(x) /\ job'[x] = job[x]
        BY <1>2, <2>2
      <3>2. processed[job[x]] # "none"
        BY <3>1 DEF EachMessageHasOneTaker
      <3>3. Took(t) /\ job'[t] = job[t]
        BY <2>2, <3>1, <3>2
      <3> QED
        BY <2>2, <3>1, <3>3 DEF EachMessageHasOneTaker
    <2>3. CASE u = t \/ w = t
      BY <2>2, <2>3, <1>4
    <2> QED
      BY <2>1, <2>3
  <1> HIDE DEF Took
  <1> QED
    BY <1>1, <1>3, <1>4 DEF EachMessageHasOneTaker, IsForUs

(* An accepted message stays with a task at work unless its mark changes.  *)
LEMMA AcceptedStays ==
  ASSUME AcceptedIsInProgress, NEW t \in Tasks, OnlyMoves(t), crashes' = crashes,
         \A m \in Messages : processed'[m] = "accepted" =>
           \/ t \in Deliveries /\ job'[t] = m /\ Working(t)'
           \/ processed[m] = "accepted" /\ ~(t \in Deliveries /\ Working(t) /\ job[t] = m)
  PROVE  AcceptedIsInProgress'
  <1> SUFFICES ASSUME crashes = 0, NEW m \in Messages, processed'[m] = "accepted"
               PROVE  \E u \in Deliveries : job'[u] = m /\ Working(u)'
    BY DEF AcceptedIsInProgress, Working
  <1>1. CASE t \in Deliveries /\ job'[t] = m /\ Working(t)'
    BY <1>1
  <1>2. CASE processed[m] = "accepted" /\ ~(t \in Deliveries /\ Working(t) /\ job[t] = m)
    <2>1. PICK u \in Deliveries : job[u] = m /\ Working(u)
      BY <1>2 DEF AcceptedIsInProgress, Working
    <2>2. u # t /\ u \in Tasks
      BY <2>1, <1>2 DEF Tasks
    <2>3. job'[u] = m /\ Working(u)'
      BY <2>1, <2>2 DEF OnlyMoves, Working
    <2> QED
      BY <2>3
  <1> QED
    BY <1>1, <1>2

(* What is done for the bot's own messages does not touch outsiders.       *)
LEMMA OutsidersStay ==
  ASSUME OutsidersAreReported, AlertsAdvance, NEW t \in Tasks, OnlyMoves(t),
         UNCHANGED <<alerts, told, alertStep>>, crashes' = crashes,
         \A u \in Tasks : u # t => (u \in sent' <=> u \in sent),
         job \in [Deliveries -> Messages \cup {None}],
         job' \in [Deliveries -> Messages \cup {None}],
         \A n \in Messages : processed'[n] # "none" => processed[n] # "none" \/ IsForUs(n),
         t \in Deliveries =>
           /\ job'[t] \in Messages /\ Kind[job'[t]] # "outsider"
           /\ job[t] = None \/ job[t] = job'[t]
  PROVE  OutsidersAreReported' /\ AlertsAdvance'
  <1>1. ASSUME NEW u \in Deliveries
        PROVE  /\ Outsider(u)' <=> Outsider(u)
               /\ Outsider(u) => u # t /\ job'[u] = job[u] /\ job[u] \in Messages
    BY DEF Outsider, OnlyMoves, Tasks
  <1>2. ASSUME NEW u \in Deliveries, Outsider(u)'
        PROVE  processed'[job'[u]] = "none" /\ u \notin sent'
    <2>1. u # t /\ job'[u] = job[u] /\ job[u] \in Messages /\ Outsider(u)
      BY <1>1, <1>2
    <2>2. processed[job[u]] = "none" /\ u \notin sent /\ ~IsForUs(job[u])
      BY <2>1 DEF OutsidersAreReported, Outsider, IsForUs
    <2> QED
      BY <2>1, <2>2 DEF Tasks
  <1>3. AlertsAdvance'
    BY DEF AlertsAdvance
  <1> HIDE DEF Outsider
  <1>4. OutsidersAreReported'
    BY <1>1, <1>2 DEF OutsidersAreReported
  <1> QED
    BY <1>3, <1>4

(* Streams are those of turns accepted before.                             *)
LEMMA StreamsStay ==
  ASSUME TasksFit, OneStreamPerSession, NEW t \in Tasks, OnlyMoves(t), streams \subseteq Deliveries,
         UNCHANGED <<streams, activeTurn>>, t \in streams => ScopeOf(t)' = ScopeOf(t)
  PROVE  OneStreamPerSession'
  <1>1. \A u \in streams : ScopeOf(u)' = ScopeOf(u)
    BY DEF OnlyMoves, Tasks
  <1> QED
    BY <1>1 DEF OneStreamPerSession

-----------------------------------------------------------------------------
(* One lemma per action: it preserves the inductive invariant.             *)

(* The types of what TypeOK is about, by the parts that change together.   *)
TaskTypeOK ==
  /\ pc \in [Tasks -> {"idle", "waiting", "resume", "open", "turn", "done"}]
  /\ job \in [Deliveries -> Messages \cup {None}]
  /\ existing \in [Tasks -> Records \cup {None}]
  /\ thread \in [Tasks -> Tasks \cup {None}]
  /\ answer \in [Tasks -> Answers]

TableTypeOK ==
  /\ activeTurn \in [Sessions -> Deliveries \cup {None}] /\ streams \subseteq Deliveries
  /\ sessions \in [Sessions -> Records \cup {None}]
  /\ processed \in [Messages -> Statuses]

CodexTypeOK ==
  /\ link \in {"up", "closing", "down"} /\ requests \subseteq Tasks
  /\ inbox \in Seq(CodexMessages)
  /\ turns \in [Tasks -> {"none", "running", "over"}]
  /\ sent \subseteq Deliveries /\ stranded \subseteq Tasks

OtherTypeOK == Security!AlertsTypeOK /\ crashes \in Nat /\ drops \in Nat

LEMMA TypeParts ==
  TypeOK <=> ExecutorTypeOK /\ TaskTypeOK /\ TableTypeOK /\ CodexTypeOK /\ OtherTypeOK
  BY DEF TypeOK, ExecutorTypeOK, TaskTypeOK, TableTypeOK, CodexTypeOK, OtherTypeOK

(* What a request changes, whether or not it can be sent.                  *)
LEMMA RequestMade ==
  ASSUME TaskTypeOK, CodexTypeOK, NEW t \in Tasks, NEW method \in {"resume", "open", "turn"},
         Request(t, method)
  PROVE  /\ pc' = [pc EXCEPT ![t] = method] /\ answer' \in [Tasks -> Answers]
         /\ link' \in {"up", "closing", "down"} /\ requests' \subseteq Tasks /\ inbox' = inbox
         /\ sent' = IF method = "turn" THEN sent \cup {t} ELSE sent
  BY DEF Request, TaskTypeOK, CodexTypeOK, Answers

(* A dispatch that ends early leaves a final status.                       *)
LEMMA EndsWithStatus ==
  ASSUME NEW t, NEW m, EndEarly(t, m)
  PROVE  \E x \in Statuses \ {"none", "accepted"} : processed' = [processed EXCEPT ![m] = x]
  <1>1. PICK x \in EarlyOutcomes(m) : processed' = [processed EXCEPT ![m] = x]
    BY DEF EndEarly
  <1>2. x \in Statuses \ {"none", "accepted"}
    BY DEF EarlyOutcomes, Statuses
  <1> QED
    BY <1>1, <1>2

(* A delivery handled or dropped before it is in anybody's way.            *)
DropsMessage(t) ==
  /\ pc' = [pc EXCEPT ![t] = "done"]
  /\ UNCHANGED <<executorVars, processed, existing, answer, linkVars, sent>>

EndsMessage(t, m) ==
  /\ Executor!SubmitBrief(t, SessionOf[m]) /\ ~Seen(m) /\ IsForUs(m)
  /\ EndEarly(t, m) /\ UNCHANGED alertVars

AcceptsMessage(t, m) ==
  /\ ~Seen(m) /\ IsForUs(m) /\ UNCHANGED alertVars
  /\ processed' = [processed EXCEPT ![m] = "accepted"]
  /\ \/ Executor!SubmitNow(t, SessionOf[m]) /\ BeginDispatch(t, m)
     \/ /\ Executor!SubmitLater(t, SessionOf[m])
        /\ pc' = [pc EXCEPT ![t] = "waiting"]
        /\ UNCHANGED <<existing, answer, linkVars, sent>>

HandleMessageEffect(t, m) ==
  \/ DropsMessage(t) /\ UNCHANGED alertVars /\ Kind[m] # "outsider"
  \/ DropsMessage(t) /\ Security!RecordUnauthorizedAttempt(t) /\ Kind[m] = "outsider"
  \/ EndsMessage(t, m)
  \/ AcceptsMessage(t, m)

LEMMA MessageHandled ==
  ASSUME NEW t \in Deliveries, NEW m \in Messages, HandleMessage(t, m)
  PROVE  HandleMessageEffect(t, m)
  BY DEF HandleMessage, HandleMessageEffect, IgnoreUnaddressed, BlockOutsider, ReceiveBusy,
         ReceiveDuplicate, ReceiveNew, Drop, DropsMessage, EndsMessage, AcceptsMessage, IsForUs

LEMMA HandleMessageKeepsIInv ==
  ASSUME IInv, NEW t \in Deliveries, NEW m \in Messages, HandleMessage(t, m)
  PROVE  IInv'
  <1> DEFINE s == SessionOf[m]
  <1> USE DEF executorVars, registryVars, tableVars, taskVars, linkVars, alertVars, boundVars
  <1>1. /\ ExecutorTypeOK /\ TaskTypeOK /\ TableTypeOK /\ CodexTypeOK /\ OtherTypeOK
        /\ TasksFit /\ SlotIsHeld /\ QueuedTasksWait /\ EachMessageHasOneTaker
        /\ AcceptedIsInProgress /\ SlotKeepsRecord /\ TurnOnSessionThread
        /\ OneStreamPerSession /\ AlertsAdvance /\ OutsidersAreReported
        /\ ScopesKnown
    BY TypeParts, ScopeIsSession DEF IInv
  <1>2. /\ t \in Tasks /\ t \notin Joins /\ s \in Sessions /\ pc[t] = "idle"
        /\ job' = [job EXCEPT ![t] = m] /\ thread' = thread
        /\ UNCHANGED <<activeTurn, streams, sessions, turns, stranded, crashes, drops>>
    BY DEF HandleMessage, Tasks
  <1>3. /\ job'[t] = m /\ job' \in [Deliveries -> Messages \cup {None}]
        /\ \A u \in Deliveries : u # t => job'[u] = job[u]
        /\ job[t] = None /\ t \notin sent \cup streams /\ ScopeOf(t)' = s
    BY <1>1, <1>2 DEF TaskTypeOK, TasksFit
  <1>4. HandleMessageEffect(t, m)
    BY MessageHandled
  <1>5. ASSUME AcceptsMessage(t, m), Executor!SubmitNow(t, s), BeginDispatch(t, m)
        PROVE  /\ pc' = [pc EXCEPT ![t] = IF NeedsNewThread(m) THEN "open" ELSE "resume"]
               /\ answer' \in [Tasks -> Answers]
               /\ link' \in {"up", "closing", "down"} /\ requests' \subseteq Tasks
               /\ UNCHANGED <<inbox, sent>>
               /\ existing' = [existing EXCEPT ![t] = sessions[s]]
    <2>1. Request(t, IF NeedsNewThread(m) THEN "open" ELSE "resume")
      BY <1>5 DEF BeginDispatch
    <2> HIDE DEF s
    <2> QED
      BY <1>1, <1>2, <1>5, <2>1, RequestMade DEF BeginDispatch, s
  <1>6. \E x \in {"done", "waiting", "open", "resume"} : pc' = [pc EXCEPT ![t] = x]
    BY <1>4, <1>5 DEF HandleMessageEffect, DropsMessage, EndsMessage, EndEarly, AcceptsMessage
  <1>7. /\ pc'[t] \in {"done", "waiting", "open", "resume"}
        /\ \A u \in Tasks : u # t => pc'[u] = pc[u]
        /\ sent' = sent
        /\ pc' \in [Tasks -> {"idle", "waiting", "resume", "open", "turn", "done"}]
        /\ inbox' = inbox
    BY <1>1, <1>2, <1>4, <1>5, <1>6
       DEF TaskTypeOK, HandleMessageEffect, DropsMessage, EndsMessage, EndEarly, AcceptsMessage
  <1>8. OnlyMoves(t)
    BY <1>2, <1>3, <1>7 DEF OnlyMoves, Tasks
  <1>9. /\ existing' \in [Tasks -> Records \cup {None}] /\ answer' \in [Tasks -> Answers]
        /\ \A u \in Tasks : u # t => existing'[u] = existing[u]
        /\ link' \in {"up", "closing", "down"} /\ requests' \subseteq Tasks
    <2>1. CASE UNCHANGED <<existing, answer, linkVars>>
      BY <1>1, <2>1 DEF TaskTypeOK, CodexTypeOK
    <2>2. CASE AcceptsMessage(t, m) /\ Executor!SubmitNow(t, s) /\ BeginDispatch(t, m)
      <3>1. sessions[s] \in Records \cup {None}
        BY <1>1, <1>2 DEF TableTypeOK
      <3> HIDE DEF s
      <3> QED
        BY <1>1, <1>2, <1>5, <2>2, <3>1 DEF TaskTypeOK, s
    <2> QED
      BY <1>4, <2>1, <2>2
         DEF HandleMessageEffect, DropsMessage, EndsMessage, EndEarly, AcceptsMessage
  <1>10. \/ processed' = processed
         \/ /\ processed[m] = "none" /\ IsForUs(m)
            /\ \E x \in Statuses \ {"none"} : processed' = [processed EXCEPT ![m] = x]
    <2>1. CASE EndsMessage(t, m)
      BY <1>1, <1>2, <2>1, EndsWithStatus DEF EndsMessage, Seen
    <2> QED
      BY <1>4, <2>1 DEF HandleMessageEffect, DropsMessage, AcceptsMessage, Statuses, Seen
  <1>11. /\ processed' \in [Messages -> Statuses]
         /\ \A n \in Messages : processed[n] # "none" => processed'[n] = processed[n]
         /\ \A n \in Messages : processed'[n] # "none" => processed[n] # "none" \/ IsForUs(n)
         /\ \A n \in Messages : n # m => processed'[n] = processed[n]
    BY <1>1, <1>10 DEF TableTypeOK
  <1>12. TasksFit'
    BY <1>1, <1>2, <1>3, <1>4, <1>7
       DEF TasksFit, OnlyMoves, Tasks, Working, HandleMessageEffect, DropsMessage,
           EndsMessage, EndEarly, AcceptsMessage
  <1>13. SlotIsHeld' /\ QueuedTasksWait' /\ ExecutorTypeOK'
    <2>1. CASE serving' = serving /\ queue' = queue /\ served' \in SUBSET Tasks /\ ~InFlight(t)'
      <3>1. ExecutorTypeOK'
        BY <1>1, <2>1 DEF ExecutorTypeOK
      <3>2. SlotIsHeld'
        BY <1>1, <1>2, <1>8, <2>1, HoldersStay
      <3>3. QueuedTasksWait'
        BY <1>1, <1>2, <1>8, <2>1, QueuesStay
      <3> QED
        BY <3>1, <3>2, <3>3
    <2>2. CASE DropsMessage(t)
      BY <1>1, <1>2, <2>1, <2>2 DEF DropsMessage, ExecutorTypeOK, TaskTypeOK
    <2>3. CASE EndsMessage(t, m)
      BY <1>1, <1>2, <2>1, <2>3
         DEF EndsMessage, EndEarly, Executor!SubmitBrief, ExecutorTypeOK, TaskTypeOK
    <2>4. CASE AcceptsMessage(t, m) /\ Executor!SubmitNow(t, s) /\ BeginDispatch(t, m)
      <3>1. InFlight(t)'
        BY <1>1, <1>2, <1>5, <2>4 DEF TaskTypeOK
      <3> HIDE DEF s
      <3> QED
        BY <1>1, <1>2, <1>3, <1>8, <2>4, <3>1, SlotTaken
    <2>5. CASE AcceptsMessage(t, m) /\ Executor!SubmitLater(t, s) /\ pc' = [pc EXCEPT ![t] = "waiting"]
      <3>1. pc'[t] = "waiting"
        BY <1>1, <1>2, <2>5 DEF TaskTypeOK
      <3> HIDE DEF s
      <3> QED
        BY <1>1, <1>2, <1>3, <1>8, <2>5, <3>1, SlotQueued
    <2> QED
      BY <1>4, <2>2, <2>3, <2>4, <2>5 DEF HandleMessageEffect, AcceptsMessage
  <1>14. SlotKeepsRecord' /\ TurnOnSessionThread'
    <2>1. KeepsRecord(t)'
      BY <1>1, <1>2, <1>3, <1>4, <1>5, <1>7
         DEF KeepsRecord, HandleMessageEffect, DropsMessage, EndsMessage, EndEarly, AcceptsMessage,
             NeedsNewThread, TaskTypeOK
    <2>2. OnThread(t)'
      BY <1>7 DEF OnThread
    <2> QED
      BY <1>1, <1>2, <1>8, <1>9, <2>1, <2>2, OthersKeepRecords
  <1>15. Working(t)' => IsForUs(m) /\ processed[m] = "none" /\ processed'[m] = "accepted"
    BY <1>1, <1>2, <1>4, <1>7
       DEF Working, HandleMessageEffect, DropsMessage, EndsMessage, EndEarly, AcceptsMessage, Seen,
           TaskTypeOK, TableTypeOK
  <1>16. EachMessageHasOneTaker'
    <2>1. Took(t)' => processed'[m] # "none" /\ processed[m] = "none"
      BY <1>3, <1>7, <1>15 DEF Took
    <2>2. \A u \in Deliveries : Took(u)' => job'[u] \in Messages
      <3> SUFFICES ASSUME NEW u \in Deliveries, u # t, Took(u)'
                   PROVE  job'[u] \in Messages
        BY <1>3
      <3>1. pc[u] # "idle"
        BY <1>1, <1>7 DEF Took, Working, TasksFit, Tasks
      <3> QED
        BY <1>1, <1>3, <3>1 DEF TasksFit, TaskTypeOK
    <2> QED
      BY <1>1, <1>2, <1>3, <1>7, <1>8, <1>11, <2>1, <2>2, OneTakerStays
  <1>17. AcceptedIsInProgress'
    <2>1. ~Working(t)
      BY <1>2 DEF Working
    <2>2. \A n \in Messages : processed'[n] = "accepted" =>
            (n = m /\ Working(t)') \/ processed[n] = "accepted"
      <3>1. CASE EndsMessage(t, m)
        <4>1. PICK x \in Statuses \ {"none", "accepted"} : processed' = [processed EXCEPT ![m] = x]
          BY <3>1, EndsWithStatus DEF EndsMessage
        <4> QED
          BY <1>1, <4>1 DEF TableTypeOK
      <3>2. CASE DropsMessage(t)
        BY <3>2 DEF DropsMessage
      <3>3. CASE AcceptsMessage(t, m)
        <4>1. Working(t)'
          BY <1>1, <1>2, <1>5, <1>7, <3>3 DEF Working, AcceptsMessage, TaskTypeOK
        <4> QED
          BY <1>1, <1>11, <4>1
      <3> QED
        BY <1>4, <3>1, <3>2, <3>3 DEF HandleMessageEffect
    <2> QED
      BY <1>1, <1>2, <1>3, <1>8, <2>1, <2>2, AcceptedStays
  <1>18. OneStreamPerSession'
    BY <1>1, <1>2, <1>3, <1>8, StreamsStay DEF TableTypeOK
  <1>19. OutsidersAreReported' /\ AlertsAdvance' /\ OtherTypeOK'
    <2>1. CASE UNCHANGED alertVars /\ Kind[m] # "outsider"
      BY <1>1, <1>2, <1>3, <1>7, <1>8, <1>11, <2>1, OutsidersStay
         DEF TaskTypeOK, OtherTypeOK, Security!AlertsTypeOK
    <2>2. CASE DropsMessage(t) /\ Security!RecordUnauthorizedAttempt(t) /\ Kind[m] = "outsider"
      <3>1. /\ alerts' = [alerts EXCEPT ![t] = "blocked"]
            /\ alertStep' = [alertStep EXCEPT ![t] = "alert"] /\ told' = told
            /\ processed' = processed
        BY <2>2 DEF Security!RecordUnauthorizedAttempt, DropsMessage
      <3>2. OtherTypeOK'
        BY <1>1, <1>2, <3>1 DEF OtherTypeOK, Security!AlertsTypeOK
      <3>3. /\ alerts'[t] = "blocked" /\ alertStep'[t] = "alert"
            /\ \A u \in Deliveries : u # t => alerts'[u] = alerts[u] /\ alertStep'[u] = alertStep[u]
        BY <1>1, <3>1 DEF OtherTypeOK, Security!AlertsTypeOK
      <3>4. AlertsAdvance'
        BY <1>1, <3>1, <3>3 DEF AlertsAdvance
      <3>5. Outsider(t)' /\ processed'[job'[t]] = "none"
        <4>1. processed[m] = "none"
          BY <1>1, <2>2 DEF EachMessageHasOneTaker, IsForUs, TableTypeOK
        <4> QED
          BY <1>3, <2>2, <3>1, <4>1 DEF Outsider
      <3>6. \A u \in Deliveries : u # t => (Outsider(u)' <=> Outsider(u))
        BY <1>3 DEF Outsider
      <3> HIDE DEF Outsider
      <3>7. OutsidersAreReported'
        BY <1>1, <1>2, <1>3, <1>7, <3>1, <3>3, <3>5, <3>6 DEF OutsidersAreReported
      <3> QED
        BY <3>2, <3>4, <3>7
    <2> QED
      BY <1>4, <2>1, <2>2 DEF HandleMessageEffect, EndsMessage, AcceptsMessage, IsForUs
  <1>20. TaskTypeOK' /\ TableTypeOK' /\ CodexTypeOK'
    BY <1>1, <1>2, <1>3, <1>7, <1>9, <1>11 DEF TaskTypeOK, TableTypeOK, CodexTypeOK
  <1>21. TypeOK'
    BY <1>13, <1>19, <1>20, TypeParts, PTL
  <1> QED
    BY <1>12, <1>13, <1>14, <1>16, <1>17, <1>18, <1>19, <1>21 DEF IInv

(* The parts of the invariant, as the steps below use them.                *)
LEMMA InvariantParts ==
  ASSUME IInv
  PROVE  /\ ExecutorTypeOK /\ TaskTypeOK /\ TableTypeOK /\ CodexTypeOK /\ OtherTypeOK
         /\ TasksFit /\ SlotIsHeld /\ QueuedTasksWait /\ EachMessageHasOneTaker
         /\ AcceptedIsInProgress /\ SlotKeepsRecord /\ TurnOnSessionThread
         /\ OneStreamPerSession /\ AlertsAdvance /\ OutsidersAreReported
         /\ ScopesKnown
  BY TypeParts, ScopeIsSession DEF IInv

(* A bot-added event has no message, so it disturbs no message's state.    *)
LEMMA JoinsHaveNoMessage ==
  ASSUME IInv, NEW t \in Joins, OnlyMoves(t),
         pc' = [pc EXCEPT ![t] = pc'[t]], pc'[t] \in {"waiting", "open", "done"},
         UNCHANGED <<streams, activeTurn, processed, job, sent, alerts, told, alertStep, crashes>>
  PROVE  /\ TasksFit' /\ EachMessageHasOneTaker' /\ AcceptedIsInProgress'
         /\ OneStreamPerSession' /\ OutsidersAreReported' /\ AlertsAdvance'
  <1>1. t \in Tasks /\ t \notin Deliveries
    BY DEF Tasks
  <1>2. TasksFit'
    BY <1>1, InvariantParts DEF TasksFit, OnlyMoves, Tasks, Working, CodexTypeOK, TableTypeOK
  <1>3. EachMessageHasOneTaker'
    <2>1. \A u \in Deliveries : Took(u)' <=> Took(u)
      BY <1>1 DEF Took, Working, OnlyMoves, Tasks
    <2> QED
      BY <2>1, InvariantParts DEF EachMessageHasOneTaker
  <1>4. AcceptedIsInProgress'
    BY <1>1, InvariantParts DEF AcceptedIsInProgress, OnlyMoves, Tasks
  <1>5. OneStreamPerSession'
    BY <1>1, InvariantParts, StreamsStay DEF TableTypeOK
  <1>6. OutsidersAreReported' /\ AlertsAdvance'
    BY InvariantParts DEF OutsidersAreReported, AlertsAdvance, Outsider
  <1> QED
    BY <1>2, <1>3, <1>4, <1>5, <1>6

(* What it changes on its way to the slot and into it.                     *)
LEMMA JoinBegun ==
  ASSUME IInv, NEW t \in Joins, BeginJoin(t), UNCHANGED <<job, sessions, thread>>
  PROVE  /\ pc' = [pc EXCEPT ![t] = "open"] /\ pc'[t] = "open"
         /\ sent' = sent /\ inbox' = inbox
         /\ existing' \in [Tasks -> Records \cup {None}] /\ answer' \in [Tasks -> Answers]
         /\ link' \in {"up", "closing", "down"} /\ requests' \subseteq Tasks
         /\ \A u \in Tasks : u # t => existing'[u] = existing[u]
         /\ KeepsRecord(t)'
  <1>1. t \in Tasks /\ JoinOf[t] \in Sessions
    BY DEF Tasks
  <1>2. Request(t, "open") /\ existing' = [existing EXCEPT ![t] = sessions[JoinOf[t]]]
    BY DEF BeginJoin
  <1>3. /\ pc' = [pc EXCEPT ![t] = "open"] /\ sent' = sent /\ inbox' = inbox
        /\ answer' \in [Tasks -> Answers]
        /\ link' \in {"up", "closing", "down"} /\ requests' \subseteq Tasks
    BY <1>1, <1>2, InvariantParts, RequestMade
  <1>4. existing' \in [Tasks -> Records \cup {None}] /\ existing'[t] = sessions[JoinOf[t]]
        /\ \A u \in Tasks : u # t => existing'[u] = existing[u]
    BY <1>1, <1>2, InvariantParts DEF TaskTypeOK, TableTypeOK
  <1>5. pc'[t] = "open"
    BY <1>1, <1>3, InvariantParts DEF TaskTypeOK
  <1> QED
    BY <1>3, <1>4, <1>5 DEF KeepsRecord

(* What is left to show of its step, up to the moment its thread is there. *)
LEMMA JoinMoves ==
  ASSUME IInv, NEW t \in Joins, pc' = [pc EXCEPT ![t] = pc'[t]], pc'[t] \in {"waiting", "open"},
         UNCHANGED <<registryVars, tableVars, job, thread, sent, inbox, turns, stranded,
                     alertVars, boundVars>>,
         existing' \in [Tasks -> Records \cup {None}], answer' \in [Tasks -> Answers],
         link' \in {"up", "closing", "down"}, requests' \subseteq Tasks,
         \A u \in Tasks : u # t => existing'[u] = existing[u],
         KeepsRecord(t)', SlotIsHeld', QueuedTasksWait', ExecutorTypeOK'
  PROVE  IInv'
  <1> USE DEF registryVars, tableVars, alertVars, boundVars
  <1>1. t \in Tasks /\ t \notin Deliveries
    BY DEF Tasks
  <1>2. pc' \in [Tasks -> {"idle", "waiting", "resume", "open", "turn", "done"}]
    BY <1>1, InvariantParts DEF TaskTypeOK
  <1>3. OnlyMoves(t)
    BY <1>1, InvariantParts DEF OnlyMoves, TaskTypeOK
  <1>4. /\ TasksFit' /\ EachMessageHasOneTaker' /\ AcceptedIsInProgress'
        /\ OneStreamPerSession' /\ OutsidersAreReported' /\ AlertsAdvance'
    BY <1>3, JoinsHaveNoMessage
  <1>5. SlotKeepsRecord' /\ TurnOnSessionThread'
    BY <1>1, <1>3, InvariantParts, OthersKeepRecords
  <1>6. TaskTypeOK' /\ TableTypeOK' /\ CodexTypeOK' /\ OtherTypeOK'
    BY <1>2, InvariantParts DEF TaskTypeOK, TableTypeOK, CodexTypeOK, OtherTypeOK, Security!AlertsTypeOK
  <1>7. TypeOK'
    BY <1>6, TypeParts, PTL
  <1> QED
    BY <1>4, <1>5, <1>7 DEF IInv

LEMMA HandleBotAddedKeepsIInv ==
  ASSUME IInv, NEW t \in Joins, HandleBotAdded(t)
  PROVE  IInv'
  <1> DEFINE s == JoinOf[t]
  <1> USE DEF executorVars, registryVars, tableVars, taskVars, linkVars, alertVars, boundVars
  <1>1. /\ t \in Tasks /\ t \notin Deliveries /\ s \in Sessions /\ pc[t] = "idle"
        /\ ScopeOf(t)' = s
        /\ UNCHANGED <<activeTurn, streams, sessions, processed, job, thread, turns, stranded,
                       alerts, told, alertStep, crashes, drops>>
    BY DEF HandleBotAdded, Tasks
  <1>2. CASE Executor!SubmitNow(t, s) /\ BeginJoin(t)
    <2>1. pc' = [pc EXCEPT ![t] = "open"] /\ pc'[t] = "open"
      BY <1>1, <1>2, JoinBegun
    <2>2. OnlyMoves(t)
      BY <1>1, <2>1, InvariantParts DEF OnlyMoves, TaskTypeOK
    <2> HIDE DEF s
    <2>3. SlotIsHeld' /\ QueuedTasksWait' /\ ExecutorTypeOK'
      BY <1>1, <1>2, <2>1, <2>2, InvariantParts, SlotTaken
    <2> QED
      BY <1>1, <1>2, <2>1, <2>3, JoinBegun, JoinMoves
  <1>3. CASE /\ Executor!SubmitLater(t, s) /\ pc' = [pc EXCEPT ![t] = "waiting"]
             /\ UNCHANGED <<existing, answer, linkVars, sent>>
    <2>1. pc'[t] = "waiting" /\ KeepsRecord(t)'
      BY <1>1, <1>3, InvariantParts DEF TaskTypeOK, KeepsRecord
    <2>2. OnlyMoves(t)
      BY <1>1, <1>3, InvariantParts DEF OnlyMoves, TaskTypeOK
    <2>3. SlotIsHeld' /\ QueuedTasksWait' /\ ExecutorTypeOK'
      <3> HIDE DEF s
      <3> QED
        BY <1>1, <1>3, <2>1, <2>2, InvariantParts, SlotQueued
    <2>4. /\ existing' \in [Tasks -> Records \cup {None}] /\ answer' \in [Tasks -> Answers]
          /\ link' \in {"up", "closing", "down"} /\ requests' \subseteq Tasks
      BY <1>3, InvariantParts DEF TaskTypeOK, CodexTypeOK
    <2> QED
      BY <1>1, <1>3, <2>1, <2>3, <2>4, JoinMoves
  <1> QED
    BY <1>2, <1>3 DEF HandleBotAdded

(* A step of a task that has begun: the message stays its own, and ends    *)
(* with a final status when the task does.                                 *)
LEMMA WorkGoesOn ==
  ASSUME IInv, NEW t \in Tasks, Working(t),
         pc' = [pc EXCEPT ![t] = pc'[t]], pc'[t] \in {"resume", "open", "turn", "done"},
         pc'[t] \in {"resume", "turn"} => t \in Deliveries,
         UNCHANGED <<job, inbox, turns, stranded, alertVars, boundVars>>,
         SlotIsHeld', QueuedTasksWait', ExecutorTypeOK', OneStreamPerSession', TableTypeOK',
         existing' \in [Tasks -> Records \cup {None}], answer' \in [Tasks -> Answers],
         thread' \in [Tasks -> Tasks \cup {None}],
         link' \in {"up", "closing", "down"}, requests' \subseteq Tasks,
         \A u \in Tasks : u # t => existing'[u] = existing[u] /\ thread'[u] = thread[u],
         \A r \in Sessions : sessions'[r] = sessions[r] \/ serving[r] = t,
         KeepsRecord(t)', t \in Deliveries => OnThread(t)',
         sent' = sent \/ (t \in Deliveries /\ sent' = sent \cup {t}),
         \A u \in streams' : u \in streams \/ u = t,
         \A n \in Messages : \/ processed'[n] = processed[n]
                             \/ t \in Deliveries /\ n = job[t] /\ processed'[n] # "none",
         t \in Deliveries /\ pc'[t] = "done" => processed'[job[t]] # "accepted"
  PROVE  IInv'
  <1> USE DEF alertVars, boundVars
  <1>1. pc' \in [Tasks -> {"idle", "waiting", "resume", "open", "turn", "done"}]
        /\ \A u \in Tasks : u # t => pc'[u] = pc[u]
    BY InvariantParts DEF TaskTypeOK
  <1>2. OnlyMoves(t)
    BY <1>1 DEF OnlyMoves
  <1>3. t \in Deliveries => job[t] \in Messages /\ IsForUs(job[t]) /\ processed[job[t]] # "none"
    BY InvariantParts DEF Working, Took, TasksFit, TaskTypeOK, EachMessageHasOneTaker
  <1>4. TasksFit'
    BY <1>1, <1>3, InvariantParts
       DEF TasksFit, Tasks, Working, IsForUs, CodexTypeOK, TableTypeOK
  <1>5. EachMessageHasOneTaker'
    <2>1. t \in Deliveries => Took(t) /\ processed'[job'[t]] # "none"
      BY <1>3 DEF Took
    <2>2. \A u \in Deliveries : Took(u)' => job'[u] \in Messages
      BY <1>1, <1>3, <1>4, InvariantParts DEF Took, Working, TasksFit, TaskTypeOK, Tasks
    <2>3. /\ \A n \in Messages : processed[n] # "none" => processed'[n] # "none"
          /\ \A n \in Messages : processed'[n] # "none" => processed[n] # "none" \/ IsForUs(n)
      BY <1>3
    <2> HIDE DEF Took
    <2> QED
      BY <1>2, <2>1, <2>2, <2>3, InvariantParts, OneTakerStays DEF TaskTypeOK
  <1>6. AcceptedIsInProgress'
    <2>1. \A n \in Messages : processed'[n] = "accepted" =>
            \/ t \in Deliveries /\ job'[t] = n /\ Working(t)'
            \/ processed[n] = "accepted" /\ ~(t \in Deliveries /\ Working(t) /\ job[t] = n)
      BY <1>3 DEF Working
    <2> QED
      BY <1>2, <2>1, InvariantParts, AcceptedStays
  <1>7. SlotKeepsRecord' /\ TurnOnSessionThread'
    BY <1>2, InvariantParts, OthersKeepRecords
  <1>8. OutsidersAreReported' /\ AlertsAdvance'
    BY <1>2, <1>3, InvariantParts, OutsidersStay DEF IsForUs, TaskTypeOK
  <1>9. TaskTypeOK' /\ CodexTypeOK' /\ OtherTypeOK'
    BY <1>1, InvariantParts DEF TaskTypeOK, CodexTypeOK, OtherTypeOK, Security!AlertsTypeOK
  <1>10. TypeOK'
    BY <1>9, TypeParts, PTL
  <1> QED
    BY <1>4, <1>5, <1>6, <1>7, <1>8, <1>10 DEF IInv

(* What _dispatch_message changes up to its first request.                 *)
LEMMA DispatchBegun ==
  ASSUME IInv, NEW t \in Deliveries, NEW m \in Messages, job[t] = m, BeginDispatch(t, m),
         UNCHANGED <<job, sessions, thread>>
  PROVE  /\ pc' = [pc EXCEPT ![t] = pc'[t]] /\ pc'[t] \in {"open", "resume"}
         /\ sent' = sent /\ inbox' = inbox
         /\ existing' \in [Tasks -> Records \cup {None}] /\ answer' \in [Tasks -> Answers]
         /\ link' \in {"up", "closing", "down"} /\ requests' \subseteq Tasks
         /\ \A u \in Tasks : u # t => existing'[u] = existing[u]
         /\ KeepsRecord(t)'
  <1> DEFINE method == IF NeedsNewThread(m) THEN "open" ELSE "resume"
  <1>1. t \in Tasks /\ t \notin Joins /\ SessionOf[m] \in Sessions
    BY DEF Tasks
  <1>2. /\ Request(t, method) /\ existing' = [existing EXCEPT ![t] = sessions[SessionOf[m]]]
        /\ method \in {"open", "resume"}
        /\ method = "resume" => sessions[SessionOf[m]] # None
    BY DEF BeginDispatch, NeedsNewThread
  <1> HIDE DEF method
  <1>3. /\ pc' = [pc EXCEPT ![t] = method] /\ sent' = sent /\ inbox' = inbox
        /\ answer' \in [Tasks -> Answers]
        /\ link' \in {"up", "closing", "down"} /\ requests' \subseteq Tasks
    BY <1>1, <1>2, InvariantParts, RequestMade
  <1>4. existing' \in [Tasks -> Records \cup {None}] /\ existing'[t] = sessions[SessionOf[m]]
        /\ \A u \in Tasks : u # t => existing'[u] = existing[u]
    BY <1>1, <1>2, InvariantParts DEF TaskTypeOK, TableTypeOK
  <1>5. pc'[t] = method
    BY <1>1, <1>3, InvariantParts DEF TaskTypeOK
  <1> QED
    BY <1>1, <1>2, <1>3, <1>4, <1>5 DEF KeepsRecord

LEMMA EnterSlotKeepsIInv ==
  ASSUME IInv, NEW t \in Tasks, EnterSlot(t)
  PROVE  IInv'
  <1> DEFINE s == ScopeOf(t)
  <1> USE DEF registryVars, tableVars, taskVars, linkVars, alertVars, boundVars
  <1>1. /\ pc[t] = "waiting" /\ Working(t) /\ s \in Sessions /\ ScopeOf(t)' = s
        /\ UNCHANGED <<activeTurn, streams, sessions, job, thread, turns, stranded,
                       alerts, told, alertStep, crashes, drops>>
    BY InvariantParts DEF EnterSlot, Working, ScopesKnown
  <1>2. t \in Deliveries => job[t] \in Messages
    BY <1>1, InvariantParts DEF TasksFit, TaskTypeOK
  <1>3. ASSUME OnlyMoves(t)
        PROVE  OneStreamPerSession' /\ thread' \in [Tasks -> Tasks \cup {None}]
               /\ activeTurn' = activeTurn
    BY <1>1, <1>3, InvariantParts, StreamsStay DEF TableTypeOK, TaskTypeOK
  <1>4. ASSUME Executor!Serve(t, s), processed' = processed, inbox' = inbox, sent' = sent,
               pc' = [pc EXCEPT ![t] = pc'[t]], pc'[t] \in {"open", "resume"},
               pc'[t] = "resume" => t \in Deliveries,
               existing' \in [Tasks -> Records \cup {None}], answer' \in [Tasks -> Answers],
               link' \in {"up", "closing", "down"}, requests' \subseteq Tasks,
               \A u \in Tasks : u # t => existing'[u] = existing[u],
               KeepsRecord(t)'
        PROVE  IInv'
    <2> HIDE DEF s
    <2>1. OnlyMoves(t)
      BY <1>1, <1>4, InvariantParts DEF OnlyMoves, TaskTypeOK
    <2>2. SlotIsHeld' /\ QueuedTasksWait' /\ ExecutorTypeOK'
      BY <1>1, <1>4, <2>1, InvariantParts, SlotServed DEF s
    <2>3. TableTypeOK' /\ OnThread(t)'
      BY <1>1, <1>4, InvariantParts DEF TableTypeOK, OnThread
    <2>4. /\ OneStreamPerSession' /\ thread' \in [Tasks -> Tasks \cup {None}]
          /\ \A u \in Tasks : u # t => existing'[u] = existing[u] /\ thread'[u] = thread[u]
          /\ \A r \in Sessions : sessions'[r] = sessions[r] \/ serving[r] = t
          /\ \A u \in streams' : u \in streams \/ u = t
      BY <1>1, <1>3, <1>4, <2>1
    <2> QED
      BY <1>1, <1>4, <2>2, <2>3, <2>4, WorkGoesOn
  <1>5. CASE t \in Joins /\ Executor!Serve(t, s) /\ BeginJoin(t) /\ UNCHANGED processed
    BY <1>1, <1>4, <1>5, JoinBegun
  <1>6. CASE t \in Deliveries /\ Executor!Serve(t, s) /\ BeginDispatch(t, job[t]) /\ UNCHANGED processed
    BY <1>1, <1>2, <1>4, <1>6, DispatchBegun
  <1>7. CASE t \in Deliveries /\ Executor!ServeBrief(t, s) /\ EndEarly(t, job[t])
    <2> DEFINE m == job[t]
    <2>1. /\ \E x \in Statuses \ {"none", "accepted"} : processed' = [processed EXCEPT ![m] = x]
          /\ pc' = [pc EXCEPT ![t] = "done"]
          /\ UNCHANGED <<existing, answer, link, requests, inbox, sent>>
      BY <1>7, EndsWithStatus DEF EndEarly
    <2>2. pc'[t] = "done" /\ OnlyMoves(t)
      BY <1>1, <2>1, InvariantParts DEF OnlyMoves, TaskTypeOK
    <2>3. SlotIsHeld' /\ QueuedTasksWait' /\ ExecutorTypeOK'
      <3> HIDE DEF s
      <3> QED
        BY <1>1, <1>7, <2>2, InvariantParts, SlotServed DEF s
    <2>4. /\ \A n \in Messages : processed'[n] = processed[n] \/ (n = m /\ processed'[n] # "none")
          /\ processed'[m] # "accepted" /\ processed' \in [Messages -> Statuses]
      <3>1. m \in Messages /\ processed \in [Messages -> Statuses]
        BY <1>2, <1>7, InvariantParts DEF TableTypeOK
      <3> HIDE DEF m
      <3> QED
        BY <2>1, <3>1
    <2>5. TableTypeOK' /\ KeepsRecord(t)' /\ OnThread(t)'
      BY <1>1, <2>2, <2>4, InvariantParts DEF TableTypeOK, KeepsRecord, OnThread
    <2>6. /\ existing' \in [Tasks -> Records \cup {None}] /\ answer' \in [Tasks -> Answers]
          /\ link' \in {"up", "closing", "down"} /\ requests' \subseteq Tasks
      BY <2>1, InvariantParts DEF TaskTypeOK, CodexTypeOK
    <2>7. /\ OneStreamPerSession' /\ thread' \in [Tasks -> Tasks \cup {None}]
          /\ \A u \in Tasks : u # t => existing'[u] = existing[u] /\ thread'[u] = thread[u]
          /\ \A r \in Sessions : sessions'[r] = sessions[r] \/ serving[r] = t
          /\ \A u \in streams' : u \in streams \/ u = t
      BY <1>1, <1>3, <2>1, <2>2
    <2> QED
      BY <1>1, <1>7, <2>1, <2>2, <2>3, <2>4, <2>5, <2>6, <2>7, WorkGoesOn
  <1> QED
    BY <1>5, <1>6, <1>7 DEF EnterSlot, Tasks

(* A task in its session's slot goes on to its next request.               *)
LEMMA GoesOnInSlot ==
  ASSUME IInv, NEW t \in Tasks, InFlight(t),
         UNCHANGED <<executorVars, processed, registryVars, job, existing, turns, stranded,
                     alertVars, boundVars>>,
         NEW method \in {"open", "turn"}, Request(t, method), method = "turn" => t \in Deliveries,
         thread' \in [Tasks -> Tasks \cup {None}], \A u \in Tasks : u # t => thread'[u] = thread[u],
         sessions' \in [Sessions -> Records \cup {None}],
         \A r \in Sessions : sessions'[r] = sessions[r] \/ r = ScopeOf(t),
         method = "open" => existing[t] = sessions'[ScopeOf(t)],
         method = "turn" => /\ sessions'[ScopeOf(t)] # None
                            /\ sessions'[ScopeOf(t)].thread = thread'[t]
  PROVE  IInv'
  <1> DEFINE s == ScopeOf(t)
  <1> USE DEF executorVars, registryVars
  <1>1. s \in Sessions /\ serving[s] = t /\ ScopeOf(t)' = s /\ Working(t)
    BY InvariantParts DEF ScopesKnown, SlotIsHeld, Working
  <1>2. /\ pc' = [pc EXCEPT ![t] = method] /\ answer' \in [Tasks -> Answers]
        /\ link' \in {"up", "closing", "down"} /\ requests' \subseteq Tasks /\ inbox' = inbox
        /\ sent' = IF method = "turn" THEN sent \cup {t} ELSE sent
    BY InvariantParts, RequestMade
  <1>3. pc'[t] = method /\ OnlyMoves(t)
    BY <1>2, InvariantParts DEF TaskTypeOK, OnlyMoves
  <1>4. ExecutorTypeOK' /\ QueuedTasksWait'
    BY <1>3, InvariantParts, QueuesStay DEF ExecutorTypeOK
  <1>5. SlotIsHeld'
    <2>1. \A u \in Tasks : (InFlight(u)' <=> InFlight(u)) /\ ScopeOf(u)' = ScopeOf(u)
      BY <1>3 DEF OnlyMoves
    <2>2. ASSUME NEW r \in Sessions, serving[r] # None
          PROVE  \E u \in Tasks : u = serving[r] /\ InFlight(u) /\ ScopeOf(u) = r
      BY <2>2, InvariantParts DEF SlotIsHeld, ExecutorTypeOK
    <2>3. ASSUME NEW u \in Tasks, InFlight(u)
          PROVE  serving[ScopeOf(u)] = u
      BY <2>3, InvariantParts DEF SlotIsHeld
    <2> QED
      BY <2>1, <2>2, <2>3 DEF SlotIsHeld
  <1>6. OneStreamPerSession' /\ TableTypeOK'
    BY <1>1, <1>3, InvariantParts, StreamsStay DEF TableTypeOK
  <1>7. existing' \in [Tasks -> Records \cup {None}]
    BY InvariantParts DEF TaskTypeOK
  <1>8. KeepsRecord(t)' /\ (t \in Deliveries => OnThread(t)')
    <2>1. method # "resume" /\ existing'[t] = existing[t] /\ sessions'[ScopeOf(t)'] = sessions'[s]
      BY <1>1
    <2>2. KeepsRecord(t)'
      BY <1>1, <1>3, <2>1 DEF KeepsRecord
    <2>3. OnThread(t)'
      BY <1>1, <1>3, <2>1 DEF OnThread
    <2> QED
      BY <2>2, <2>3
  <1>9. \A r \in Sessions : sessions'[r] = sessions[r] \/ serving[r] = t
    BY <1>1
  <1>10. /\ pc' = [pc EXCEPT ![t] = pc'[t]] /\ pc'[t] \in {"resume", "open", "turn", "done"}
         /\ pc'[t] \in {"resume", "turn"} => t \in Deliveries
         /\ sent' = sent \/ (t \in Deliveries /\ sent' = sent \cup {t})
    BY <1>2, <1>3
  <1>11. /\ UNCHANGED <<job, inbox, turns, stranded, alertVars, boundVars>>
         /\ \A u \in Tasks : u # t => existing'[u] = existing[u] /\ thread'[u] = thread[u]
         /\ \A u \in streams' : u \in streams \/ u = t
    BY <1>2, Zenon
  <1>12. /\ \A n \in Messages : processed'[n] = processed[n]
         /\ t \in Deliveries /\ pc'[t] = "done" => processed'[job[t]] # "accepted"
    BY <1>3
  <1> HIDE DEF s
  <1> QED
    BY <1>1, <1>2, <1>4, <1>5, <1>6, <1>7, <1>8, <1>9, <1>10, <1>11, <1>12, WorkGoesOn

(* A task is over and leaves the slot.                                     *)
LEMMA LeavesSlot ==
  ASSUME IInv, NEW t \in Tasks, InFlight(t),
         Executor!Finish(t, ScopeOf(t)), pc' = [pc EXCEPT ![t] = "done"],
         UNCHANGED <<job, existing, thread, answer, linkVars, sent, turns, stranded,
                     alertVars, boundVars>>,
         OneStreamPerSession', TableTypeOK', \A u \in streams' : u \in streams \/ u = t,
         \A r \in Sessions : sessions'[r] = sessions[r] \/ r = ScopeOf(t),
         \A n \in Messages : \/ processed'[n] = processed[n]
                             \/ t \in Deliveries /\ n = job[t] /\ processed'[n] # "none",
         t \in Deliveries => processed'[job[t]] # "accepted"
  PROVE  IInv'
  <1> USE DEF linkVars
  <1>1. /\ ScopeOf(t) \in Sessions /\ serving[ScopeOf(t)] = t /\ ScopeOf(t)' = ScopeOf(t)
        /\ Working(t)
    BY InvariantParts DEF ScopesKnown, SlotIsHeld, Working
  <1>2. pc'[t] = "done" /\ OnlyMoves(t)
    BY InvariantParts DEF TaskTypeOK, OnlyMoves
  <1>3. SlotIsHeld' /\ QueuedTasksWait' /\ ExecutorTypeOK'
    BY <1>1, <1>2, InvariantParts, SlotFreed
  <1>4. KeepsRecord(t)' /\ OnThread(t)'
    BY <1>2 DEF KeepsRecord, OnThread
  <1>5. /\ existing' \in [Tasks -> Records \cup {None}] /\ answer' \in [Tasks -> Answers]
        /\ thread' \in [Tasks -> Tasks \cup {None}]
        /\ link' \in {"up", "closing", "down"} /\ requests' \subseteq Tasks
    BY InvariantParts DEF TaskTypeOK, CodexTypeOK
  <1>6. \A r \in Sessions : sessions'[r] = sessions[r] \/ serving[r] = t
    BY <1>1
  <1> QED
    BY <1>1, <1>2, <1>3, <1>4, <1>5, <1>6, WorkGoesOn

(* A failed operation marks its message and frees the slot.                *)
LEMMA AbortKeepsIInv ==
  ASSUME IInv, NEW t \in Tasks, InFlight(t), Abort(t),
         UNCHANGED <<registryVars, job, existing, turns, stranded, alertVars, boundVars>>
  PROVE  IInv'
  <1> USE DEF registryVars
  <1>1. /\ Executor!Finish(t, ScopeOf(t)) /\ pc' = [pc EXCEPT ![t] = "done"]
        /\ processed' = IF t \in Joins THEN processed
                        ELSE [processed EXCEPT ![job[t]] = "dispatch_failed"]
        /\ UNCHANGED <<sessions, thread, answer, linkVars, sent>>
    BY DEF Abort
  <1>2. t \in Deliveries => job[t] \in Messages /\ t \notin Joins
    BY InvariantParts DEF TasksFit, TaskTypeOK
  <1>3. /\ processed' \in [Messages -> Statuses]
        /\ \A n \in Messages : \/ processed'[n] = processed[n]
                               \/ t \in Deliveries /\ n = job[t] /\ processed'[n] # "none"
        /\ t \in Deliveries => processed'[job[t]] # "accepted"
    BY <1>1, <1>2, InvariantParts DEF TableTypeOK, Statuses, Tasks
  <1>4. TableTypeOK'
    BY <1>1, <1>3, InvariantParts DEF TableTypeOK
  <1>5. OneStreamPerSession'
    <2>1. OnlyMoves(t)
      BY <1>1, InvariantParts DEF OnlyMoves, TaskTypeOK
    <2> QED
      BY <2>1, InvariantParts, StreamsStay DEF TableTypeOK
  <1> QED
    BY <1>1, <1>3, <1>4, <1>5, LeavesSlot

LEMMA ThreadResumedKeepsIInv ==
  ASSUME IInv, NEW t \in Tasks, ThreadResumed(t), 
         UNCHANGED <<job, existing, turns, stranded, alertVars, boundVars>>
  PROVE  IInv'
  <1> DEFINE s == ScopeOf(t)
  <1>1. /\ pc[t] = "resume" /\ InFlight(t) /\ t \in Deliveries /\ s \in Sessions
        /\ UNCHANGED <<executorVars, processed, registryVars>>
    BY InvariantParts DEF ThreadResumed, TasksFit, ScopesKnown
  <1>2. existing[t] = sessions[s] /\ existing[t] \in Records
    BY <1>1, InvariantParts DEF SlotKeepsRecord, TaskTypeOK
  <1>3. thread \in [Tasks -> Tasks \cup {None}] /\ sessions \in [Sessions -> Records \cup {None}]
    BY InvariantParts DEF TaskTypeOK, TableTypeOK
  <1>4. None \notin Records
    OBVIOUS
  <1>5. CASE StartTurnOn(t, existing[t].thread) /\ UNCHANGED sessions
    <2>1. thread' = [thread EXCEPT ![t] = existing[t].thread] /\ Request(t, "turn")
      BY <1>5 DEF StartTurnOn
    <2>2. existing[t].thread \in Tasks
      BY <1>2 DEF Records
    <2>3. /\ thread' \in [Tasks -> Tasks \cup {None}] /\ thread'[t] = existing[t].thread
          /\ \A u \in Tasks : u # t => thread'[u] = thread[u]
      BY <1>3, <2>1, <2>2
    <2> HIDE DEF s
    <2> QED
      BY <1>1, <1>2, <1>3, <1>4, <1>5, <2>1, <2>3, GoesOnInSlot DEF s
  <1>6. CASE sessions' = Adopt(t) /\ StartTurnOn(t, t)
    <2>1. thread' = [thread EXCEPT ![t] = t] /\ Request(t, "turn")
      BY <1>6 DEF StartTurnOn
    <2>2. /\ thread' \in [Tasks -> Tasks \cup {None}] /\ thread'[t] = t
          /\ \A u \in Tasks : u # t => thread'[u] = thread[u]
      BY <1>3, <2>1
    <2> DEFINE new == [existing[t] EXCEPT !.thread = t]
    <2>3. new \in Records /\ new.thread = t
      BY <1>2 DEF Records
    <2> HIDE DEF new, s
    <2>4. sessions' = [sessions EXCEPT ![s] = new]
      BY <1>6 DEF Adopt, new, s
    <2>5. /\ sessions' \in [Sessions -> Records \cup {None}] /\ sessions'[s] = new
          /\ \A r \in Sessions : sessions'[r] = sessions[r] \/ r = s
      BY <1>1, <1>3, <2>3, <2>4
    <2> QED
      BY <1>1, <1>4, <2>1, <2>2, <2>3, <2>5, GoesOnInSlot DEF s
  <1>7. CASE Request(t, "open") /\ UNCHANGED <<sessions, thread>>
    BY <1>1, <1>2, <1>3, <1>7, GoesOnInSlot
  <1> QED
    BY <1>5, <1>6, <1>7 DEF ThreadResumed

(* The record of a new thread is one the table can hold.                   *)
LEMMA RotatedRecordFits ==
  ASSUME IInv, NEW t \in Tasks, pc[t] = "open"
  PROVE  RotatedRecord(t) \in Records /\ RotatedRecord(t).thread = t
  <1>1. existing[t] # None => existing[t] \in Records
    BY InvariantParts DEF TaskTypeOK
  <1>2. (IF existing[t] = None THEN 0 ELSE existing[t].generation) + 1 \in Nat \ {0}
    BY <1>1 DEF Records
  <1>3. ScopeOf(t) \in Sessions /\ (t \notin Joins => job[t] \in Messages)
    BY InvariantParts DEF ScopesKnown, TasksFit, TaskTypeOK, Tasks
  <1>4. (IF t \in Joins THEN None ELSE ExpiresAt(ScopeOf(t), SentAt[job[t]])) \in Nat \cup {None}
    BY <1>3 DEF ExpiresAt
  <1> QED
    BY <1>2, <1>4 DEF RotatedRecord, Records

LEMMA ThreadOpenedKeepsIInv ==
  ASSUME IInv, NEW t \in Tasks, ThreadOpened(t), 
         UNCHANGED <<job, existing, turns, stranded, alertVars, boundVars>>
  PROVE  IInv'
  <1> DEFINE s == ScopeOf(t)  new == RotatedRecord(t)
  <1>1. pc[t] = "open" /\ InFlight(t) /\ s \in Sessions /\ UNCHANGED registryVars
    BY InvariantParts DEF ThreadOpened, ScopesKnown
  <1>2. thread \in [Tasks -> Tasks \cup {None}] /\ sessions \in [Sessions -> Records \cup {None}]
    BY InvariantParts DEF TaskTypeOK, TableTypeOK
  <1>3. new \in Records /\ new.thread = t /\ None \notin Records
    BY <1>1, RotatedRecordFits
  <1> HIDE DEF new
  <1>4. ASSUME sessions' = [sessions EXCEPT ![s] = new]
        PROVE  /\ sessions' \in [Sessions -> Records \cup {None}] /\ sessions'[s] = new
               /\ \A r \in Sessions : sessions'[r] = sessions[r] \/ r = s
    <2> HIDE DEF s
    <2> QED
      BY <1>1, <1>2, <1>3, <1>4
  <1>5. CASE /\ t \in Deliveries /\ sessions' = [sessions EXCEPT ![s] = new] /\ StartTurnOn(t, t)
             /\ UNCHANGED <<executorVars, processed>>
    <2>1. thread' = [thread EXCEPT ![t] = t] /\ Request(t, "turn")
      BY <1>5 DEF StartTurnOn
    <2>2. /\ thread' \in [Tasks -> Tasks \cup {None}] /\ thread'[t] = t
          /\ \A u \in Tasks : u # t => thread'[u] = thread[u]
      BY <1>2, <2>1
    <2> HIDE DEF s
    <2> QED
      BY <1>1, <1>3, <1>4, <1>5, <2>1, <2>2, GoesOnInSlot DEF s
  <1>6. CASE /\ t \in Joins /\ sessions' = [sessions EXCEPT ![s] = new]
             /\ Executor!Finish(t, s) /\ pc' = [pc EXCEPT ![t] = "done"]
             /\ UNCHANGED <<processed, thread, answer, linkVars, sent>>
    <2>1. t \notin Deliveries
      BY <1>6
    <2>2. OnlyMoves(t)
      BY <1>6, InvariantParts DEF OnlyMoves, TaskTypeOK
    <2>3. OneStreamPerSession'
      BY <1>1, <2>2, InvariantParts, StreamsStay DEF TableTypeOK, registryVars
    <2>4. TableTypeOK' /\ streams' = streams
      BY <1>1, <1>4, <1>6, InvariantParts DEF TableTypeOK, registryVars
    <2> HIDE DEF s
    <2> QED
      BY <1>1, <1>4, <1>6, <2>1, <2>3, <2>4, LeavesSlot DEF s
  <1>7. CASE Abort(t)
    BY <1>1, <1>7, AbortKeepsIInv
  <1> QED
    BY <1>5, <1>6, <1>7 DEF ThreadOpened, new

(* A session's reply is registered only if no other turn of it is active.  *)
LEMMA ReplyStarted ==
  ASSUME IInv, NEW t \in Deliveries, InFlight(t), StartReply(ScopeOf(t), t), OnlyMoves(t), job' = job
  PROVE  /\ OneStreamPerSession'
         /\ activeTurn' \in [Sessions -> Deliveries \cup {None}] /\ streams' \subseteq Deliveries
         /\ \A u \in streams' : u \in streams \/ u = t
  <1> DEFINE s == ScopeOf(t)
  <1>1. /\ t \in Tasks /\ s \in Sessions /\ ScopeOf(t)' = s
        /\ activeTurn \in [Sessions -> Deliveries \cup {None}] /\ streams \subseteq Deliveries
    BY InvariantParts DEF ScopesKnown, TableTypeOK, Tasks
  <1>2. \A u \in streams : u # None /\ ScopeOf(u) \in Sessions /\ ScopeOf(u)' = ScopeOf(u)
                           /\ activeTurn[ScopeOf(u)] = u
    BY <1>1, InvariantParts DEF ScopesKnown, TasksFit, Tasks, OneStreamPerSession
  <1>3. CASE CanActivate(s, t)
    <2>1. /\ activeTurn' = [activeTurn EXCEPT ![s] = t] /\ streams' = streams \cup {t}
          /\ activeTurn[s] \in {None, t}
      BY <1>3 DEF StartReply, CanActivate
    <2> HIDE DEF s
    <2>2. \A u \in streams : u # t => ScopeOf(u) # s
      BY <1>2, <2>1
    <2>3. \A u \in streams' : activeTurn'[ScopeOf(u)'] = u
      BY <1>1, <1>2, <2>1, <2>2
    <2>4. \A r \in Sessions : activeTurn'[r] # None => activeTurn'[r] \in streams'
      BY <1>1, <2>1, InvariantParts DEF OneStreamPerSession
    <2>5. OneStreamPerSession'
      BY <2>3, <2>4 DEF OneStreamPerSession
    <2> QED
      BY <1>1, <2>1, <2>5
  <1>4. CASE ~CanActivate(s, t)
    <2>1. UNCHANGED registryVars
      BY <1>4 DEF StartReply
    <2> QED
      BY <1>1, <2>1, InvariantParts, StreamsStay DEF registryVars
  <1> QED
    BY <1>3, <1>4

LEMMA TurnAcceptedKeepsIInv ==
  ASSUME IInv, NEW t \in Tasks, TurnAccepted(t),
         UNCHANGED <<job, existing, turns, stranded, alertVars, boundVars>>
  PROVE  IInv'
  <1> DEFINE s == ScopeOf(t)  m == job[t]
  <1>1. /\ pc[t] = "turn" /\ InFlight(t) /\ t \in Deliveries /\ s \in Sessions /\ m \in Messages
    BY InvariantParts DEF TurnAccepted, TasksFit, ScopesKnown, TaskTypeOK
  <1>2. CASE /\ sessions' = Touch(s, SentAt[m])
             /\ processed' = [processed EXCEPT ![m] = "turn_started"]
             /\ Executor!Finish(t, s) /\ pc' = [pc EXCEPT ![t] = "done"]
             /\ StartReply(s, t)
             /\ UNCHANGED <<thread, answer, linkVars, sent>>
    <2>1. OnlyMoves(t)
      BY <1>2, InvariantParts DEF OnlyMoves, TaskTypeOK
    <2>2. sessions[s] \in Records /\ sessions \in [Sessions -> Records \cup {None}]
      BY <1>1, InvariantParts DEF TurnOnSessionThread, TableTypeOK
    <2>3. ExpiresAt(s, SentAt[m]) \in Nat \cup {None}
      BY <1>1 DEF ExpiresAt
    <2>4. /\ sessions' \in [Sessions -> Records \cup {None}]
          /\ \A r \in Sessions : sessions'[r] = sessions[r] \/ r = s
      <3> DEFINE e == ExpiresAt(s, SentAt[m])
      <3>1. [sessions[s] EXCEPT !.expiresAt = e] \in Records
        <4> HIDE DEF s, e
        <4> QED
          BY <2>2, <2>3 DEF Records, e
      <3>2. sessions' = [sessions EXCEPT ![s] = [sessions[s] EXCEPT !.expiresAt = e]]
        BY <1>2 DEF Touch
      <3> HIDE DEF s, e
      <3> QED
        BY <1>1, <2>2, <3>1, <3>2
    <2>5. /\ OneStreamPerSession'
          /\ activeTurn' \in [Sessions -> Deliveries \cup {None}] /\ streams' \subseteq Deliveries
          /\ \A u \in streams' : u \in streams \/ u = t
      BY <1>1, <1>2, <2>1, ReplyStarted
    <2>6. /\ processed' \in [Messages -> Statuses]
          /\ \A n \in Messages : processed'[n] = processed[n] \/ (n = m /\ processed'[n] # "none")
          /\ processed'[m] # "accepted"
      BY <1>1, <1>2, InvariantParts DEF TableTypeOK, Statuses
    <2>7. TableTypeOK'
      BY <2>4, <2>5, <2>6 DEF TableTypeOK
    <2> HIDE DEF s
    <2> QED
      BY <1>1, <1>2, <2>4, <2>5, <2>6, <2>7, LeavesSlot DEF s
  <1>3. CASE Abort(t) /\ UNCHANGED registryVars
    BY <1>1, <1>3, AbortKeepsIInv
  <1> QED
    BY <1>2, <1>3 DEF TurnAccepted

LEMMA ContinueKeepsIInv ==
  ASSUME IInv, NEW t \in Tasks, Continue(t)
  PROVE  IInv'
  BY ThreadResumedKeepsIInv, ThreadOpenedKeepsIInv, TurnAcceptedKeepsIInv DEF Continue

-----------------------------------------------------------------------------
(* The steps of Codex, of the connection and of the receive loop leave the *)
(* tasks where they are.                                                   *)
LEMMA QuietStep ==
  ASSUME IInv,
         UNCHANGED <<executorVars, tableVars, pc, job, existing, thread, sent, crashes>>,
         UNCHANGED alertVars \/ (OutsidersAreReported' /\ AlertsAdvance' /\ OtherTypeOK'),
         OneStreamPerSession', activeTurn' \in [Sessions -> Deliveries \cup {None}],
         streams' \subseteq streams, answer' \in [Tasks -> Answers], drops' \in Nat, CodexTypeOK'
  PROVE  IInv'
  <1> USE DEF executorVars, tableVars, alertVars
  <1>1. /\ ExecutorTypeOK' /\ TaskTypeOK' /\ TableTypeOK'
    BY InvariantParts DEF ExecutorTypeOK, TaskTypeOK, TableTypeOK
  <1>2. OtherTypeOK' /\ OutsidersAreReported' /\ AlertsAdvance'
    <2>1. CASE UNCHANGED alertVars
      <3>1. OtherTypeOK'
        BY <2>1, InvariantParts DEF OtherTypeOK, Security!AlertsTypeOK
      <3>2. OutsidersAreReported' /\ AlertsAdvance'
        BY <2>1, InvariantParts DEF OutsidersAreReported, AlertsAdvance, Outsider
      <3> QED
        BY <3>1, <3>2
    <2> QED
      BY <2>1
  <1>3. TypeOK'
    BY <1>1, <1>2, TypeParts, PTL
  <1>4. TasksFit'
    BY InvariantParts DEF TasksFit, Working
  <1>5. SlotIsHeld' /\ QueuedTasksWait'
    BY InvariantParts DEF SlotIsHeld, QueuedTasksWait
  <1>6. EachMessageHasOneTaker' /\ AcceptedIsInProgress'
    BY InvariantParts DEF EachMessageHasOneTaker, Took, Working, AcceptedIsInProgress
  <1>7. SlotKeepsRecord' /\ TurnOnSessionThread'
    BY InvariantParts DEF SlotKeepsRecord, TurnOnSessionThread
  <1> QED
    BY <1>2, <1>3, <1>4, <1>5, <1>6, <1>7 DEF IInv

LEMMA QuietRegistry ==
  ASSUME IInv, UNCHANGED <<registryVars, job>>
  PROVE  /\ OneStreamPerSession' /\ activeTurn' \in [Sessions -> Deliveries \cup {None}]
         /\ streams' \subseteq streams
  BY InvariantParts DEF OneStreamPerSession, TableTypeOK, registryVars

LEMMA CodexAnswersKeepsIInv ==
  ASSUME IInv, NEW t \in Tasks, CodexAnswers(t)
  PROVE  IInv'
  <1>1. PICK r \in {"ok", "error", "moved"} :
          /\ inbox' = Append(inbox, [type |-> "response", task |-> t, result |-> r])
          /\ turns' = IF pc[t] = "turn" /\ r = "ok" THEN [turns EXCEPT ![t] = "running"] ELSE turns
    BY DEF CodexAnswers
  <1>2. [type |-> "response", task |-> t, result |-> r] \in CodexMessages
    BY DEF CodexMessages, Answers
  <1>3. inbox' \in Seq(CodexMessages)
    BY <1>1, <1>2, InvariantParts DEF CodexTypeOK
  <1>4. CodexTypeOK'
    BY <1>1, <1>3, InvariantParts DEF CodexTypeOK, CodexAnswers, historyVars
  <1>5. answer' \in [Tasks -> Answers] /\ drops' \in Nat
    BY InvariantParts DEF TaskTypeOK, OtherTypeOK, CodexAnswers, taskVars, boundVars
  <1> QED
    BY <1>4, <1>5, QuietStep, QuietRegistry
       DEF CodexAnswers, taskVars, registryVars, boundVars, historyVars

LEMMA CodexEndsTurnKeepsIInv ==
  ASSUME IInv, NEW t \in Tasks, CodexEndsTurn(t)
  PROVE  IInv'
  <1>1. [type |-> "turn/completed", task |-> t, result |-> "ok"] \in CodexMessages
    BY DEF CodexMessages, Answers
  <1>2. inbox' \in Seq(CodexMessages)
    BY <1>1, InvariantParts DEF CodexTypeOK, CodexEndsTurn
  <1>3. CodexTypeOK'
    BY <1>2, InvariantParts DEF CodexTypeOK, CodexEndsTurn, historyVars
  <1>4. answer' \in [Tasks -> Answers] /\ drops' \in Nat
    BY InvariantParts DEF TaskTypeOK, OtherTypeOK, CodexEndsTurn, taskVars, boundVars
  <1> QED
    BY <1>3, <1>4, QuietStep, QuietRegistry
       DEF CodexEndsTurn, taskVars, registryVars, boundVars, historyVars

LEMMA ConnectionLostKeepsIInv ==
  ASSUME IInv, ConnectionLost
  PROVE  IInv'
  <1>1. PICK n \in 0..Len(inbox), how \in {"broken", "ended"} :
          inbox' = Append(SubSeq(inbox, 1, n), [type |-> how, task |-> None, result |-> "ok"])
    BY DEF ConnectionLost
  <1>2. [type |-> how, task |-> None, result |-> "ok"] \in CodexMessages
    BY DEF CodexMessages
  <1>3. SubSeq(inbox, 1, n) \in Seq(CodexMessages)
    <2>1. inbox \in Seq(CodexMessages)
      BY InvariantParts DEF CodexTypeOK
    <2> QED
      BY <2>1
  <1>4. inbox' \in Seq(CodexMessages)
    BY <1>1, <1>2, <1>3
  <1>5. CodexTypeOK'
    BY <1>4, InvariantParts DEF CodexTypeOK, ConnectionLost, Interrupted, historyVars
  <1>6. answer' \in [Tasks -> Answers] /\ drops' \in Nat
    BY InvariantParts DEF TaskTypeOK, OtherTypeOK, ConnectionLost, taskVars
  <1> QED
    BY <1>5, <1>6, QuietStep, QuietRegistry
       DEF ConnectionLost, taskVars, registryVars, historyVars

(* The end of a turn frees its session for the next one.                   *)
LEMMA TurnCompleted ==
  ASSUME IInv, NEW t \in Tasks, CompleteTurn(t), job' = job
  PROVE  /\ OneStreamPerSession' /\ activeTurn' \in [Sessions -> Deliveries \cup {None}]
         /\ streams' \subseteq streams
  <1>1. CASE t \in streams
    <2>1. /\ streams' = streams \ {t}
          /\ activeTurn' = [s \in Sessions |-> IF activeTurn[s] = t THEN None ELSE activeTurn[s]]
      BY <1>1 DEF CompleteTurn
    <2>2. \A u \in streams : ScopeOf(u) \in Sessions /\ ScopeOf(u)' = ScopeOf(u)
                             /\ activeTurn[ScopeOf(u)] = u
      BY InvariantParts DEF ScopesKnown, TasksFit, TableTypeOK, Tasks, OneStreamPerSession
    <2>3. \A u \in streams' : activeTurn'[ScopeOf(u)'] = u
      BY <2>1, <2>2
    <2>4. \A s \in Sessions : activeTurn'[s] # None => activeTurn'[s] \in streams'
      BY <2>1, InvariantParts DEF OneStreamPerSession
    <2>5. OneStreamPerSession'
      BY <2>3, <2>4 DEF OneStreamPerSession
    <2> QED
      BY <2>1, <2>5, InvariantParts DEF TableTypeOK
  <1>2. CASE t \notin streams
    BY <1>2, QuietRegistry DEF CompleteTurn
  <1> QED
    BY <1>1, <1>2

LEMMA ReceiveKeepsIInv ==
  ASSUME IInv, Receive
  PROVE  IInv'
  <1> DEFINE msg == Head(inbox)
  <1>1. /\ inbox # <<>> /\ inbox' = Tail(inbox)
        /\ UNCHANGED <<executorVars, tableVars, pc, job, existing, thread, requests, turns,
                       sent, alertVars, boundVars>>
    BY DEF Receive
  <1>2. msg \in CodexMessages /\ inbox' \in Seq(CodexMessages)
    BY <1>1, InvariantParts DEF CodexTypeOK
  <1>3. drops' \in Nat /\ crashes' = crashes
    BY <1>1, InvariantParts DEF OtherTypeOK, boundVars
  <1>4. ASSUME link' \in {"up", "closing", "down"}, stranded' \subseteq Tasks
        PROVE  CodexTypeOK'
    BY <1>1, <1>2, <1>4, InvariantParts DEF CodexTypeOK
  <1>5. link \in {"up", "closing", "down"} /\ stranded \subseteq Tasks /\ answer \in [Tasks -> Answers]
    BY InvariantParts DEF CodexTypeOK, TaskTypeOK
  <1>6. CASE /\ msg.type = "response" /\ answer' = [answer EXCEPT ![msg.task] = msg.result]
             /\ UNCHANGED <<registryVars, link, stranded>>
    <2>1. msg.result \in Answers
      BY <1>2, <1>6 DEF CodexMessages
    <2>2. answer' \in [Tasks -> Answers]
      BY <1>5, <1>6, <2>1
    <2> QED
      BY <1>1, <1>3, <1>4, <1>5, <1>6, <2>2, QuietStep, QuietRegistry DEF registryVars
  <1>7. CASE /\ msg.type = "turn/completed" /\ CompleteTurn(msg.task)
             /\ UNCHANGED <<answer, link, stranded>>
    <2>1. msg.task \in Tasks
      BY <1>2, <1>7 DEF CodexMessages
    <2> QED
      BY <1>1, <1>3, <1>4, <1>5, <1>7, <2>1, QuietStep, TurnCompleted
  <1>8. CASE /\ msg.type = "broken"
             /\ answer' = [t \in Tasks |-> IF t \in Unanswered THEN "error" ELSE answer[t]]
             /\ link' = "down" /\ UNCHANGED <<registryVars, stranded>>
    <2>1. answer' \in [Tasks -> Answers]
      BY <1>5, <1>8 DEF Answers
    <2> QED
      BY <1>1, <1>3, <1>4, <1>5, <1>8, <2>1, QuietStep, QuietRegistry DEF registryVars
  <1>9. CASE /\ msg.type = "ended" /\ stranded' = stranded \cup Unanswered /\ link' = "down"
             /\ UNCHANGED <<registryVars, answer>>
    <2>1. stranded' \subseteq Tasks
      BY <1>5, <1>9 DEF Unanswered
    <2> QED
      BY <1>1, <1>3, <1>4, <1>5, <1>9, <2>1, QuietStep, QuietRegistry DEF registryVars
  <1> QED
    BY <1>6, <1>7, <1>8, <1>9 DEF Receive

-----------------------------------------------------------------------------
(* The report of an outsider's attempt, and the end of the process.        *)
LEMMA ReportOutsiderKeepsIInv ==
  ASSUME IInv, NEW t \in Deliveries, ReportOutsider(t)
  PROVE  IInv'
  <1>1. UNCHANGED <<executorVars, registryVars, tableVars, taskVars, linkVars, turns,
                    historyVars, boundVars>>
    BY DEF ReportOutsider
  <1>2. /\ alerts \in [Deliveries -> {"none", "blocked", "alert_sent", "alert_failed"}]
        /\ told \subseteq Deliveries
        /\ alertStep \in [Deliveries -> {"none", "alert", "mark sent", "mark failed", "over"}]
    BY InvariantParts DEF OtherTypeOK, Security!AlertsTypeOK
  <1>3. crashes' = crashes /\ \A u \in Deliveries : /\ Outsider(u)' <=> Outsider(u)
                                /\ job'[u] = job[u] /\ processed' = processed /\ sent' = sent
    BY <1>1 DEF taskVars, tableVars, historyVars, boundVars, Outsider
  <1>4. OutsidersAreReported' /\ AlertsAdvance' /\ OtherTypeOK'
    <2>1. \E x \in {"alert", "mark sent", "mark failed"} : alertStep[t] = x
      BY DEF ReportOutsider, Security!SendOwnerAlert, Security!MarkAlert
    <2>2. alerts[t] # "none"
      BY <2>1, InvariantParts DEF AlertsAdvance
    <2>3. \E x \in {"mark sent", "mark failed", "over"} :
            alertStep' = [alertStep EXCEPT ![t] = x]
      BY DEF ReportOutsider, Security!SendOwnerAlert, Security!MarkAlert
    <2>4. /\ alertStep' \in [Deliveries -> {"none", "alert", "mark sent", "mark failed", "over"}]
          /\ alertStep'[t] \in {"mark sent", "mark failed", "over"}
          /\ \A u \in Deliveries : u # t => alertStep'[u] = alertStep[u]
      BY <1>2, <2>3
    <2>5. told \subseteq told' /\ told' \subseteq Deliveries
      BY <1>2 DEF ReportOutsider, Security!SendOwnerAlert, Security!MarkAlert
    <2>6. \/ alerts' = alerts
          \/ \E x \in {"alert_sent", "alert_failed"} : alerts' = [alerts EXCEPT ![t] = x]
      BY DEF ReportOutsider, Security!SendOwnerAlert, Security!MarkAlert
    <2>7. /\ alerts' \in [Deliveries -> {"none", "blocked", "alert_sent", "alert_failed"}]
          /\ alerts'[t] # "none" /\ \A u \in Deliveries : u # t => alerts'[u] = alerts[u]
      BY <1>2, <2>2, <2>6
    <2>8. alertStep'[t] = "mark sent" => t \in told'
      BY <1>2 DEF ReportOutsider, Security!SendOwnerAlert, Security!MarkAlert
    <2>9. alerts'[t] = "alert_sent" => t \in told'
      <3>1. alerts[t] = "alert_sent" => t \in told
        BY InvariantParts DEF OutsidersAreReported
      <3>2. alertStep[t] = "mark sent" => t \in told
        BY InvariantParts DEF AlertsAdvance
      <3> QED
        BY <1>2, <2>5, <3>1, <3>2 DEF ReportOutsider, Security!SendOwnerAlert, Security!MarkAlert
    <2>10. alerts'[t] = "blocked" => alertStep'[t] # "over"
      BY <1>2 DEF ReportOutsider, Security!SendOwnerAlert, Security!MarkAlert
    <2>11. OtherTypeOK'
      BY <1>1, <2>4, <2>5, <2>7, InvariantParts DEF OtherTypeOK, Security!AlertsTypeOK, boundVars
    <2>12. AlertsAdvance'
      BY <2>4, <2>5, <2>7, <2>8, InvariantParts DEF AlertsAdvance
    <2> HIDE DEF Outsider
    <2>13. OutsidersAreReported'
      <3> SUFFICES ASSUME NEW u \in Deliveries
                   PROVE  /\ Outsider(u)' => processed'[job'[u]] = "none" /\ u \notin sent'
                          /\ alerts'[u] # "none" <=> Outsider(u)'
                          /\ alerts'[u] = "alert_sent" => u \in told'
                          /\ alerts'[u] = "blocked" => crashes' > 0 \/ alertStep'[u] # "over"
        BY DEF OutsidersAreReported
      <3>1. /\ Outsider(u) => processed[job[u]] = "none" /\ u \notin sent
            /\ alerts[u] # "none" <=> Outsider(u)
            /\ alerts[u] = "alert_sent" => u \in told
            /\ alerts[u] = "blocked" => crashes > 0 \/ alertStep[u] # "over"
        BY InvariantParts DEF OutsidersAreReported
      <3>2. CASE u = t
        BY <1>3, <2>2, <2>7, <2>9, <2>10, <3>1, <3>2
      <3>3. CASE u # t
        BY <1>3, <2>4, <2>5, <2>7, <3>1, <3>3
      <3> QED
        BY <3>2, <3>3
    <2> QED
      BY <2>11, <2>12, <2>13
  <1>5. answer' \in [Tasks -> Answers] /\ drops' \in Nat /\ CodexTypeOK'
    BY <1>1, InvariantParts DEF TaskTypeOK, OtherTypeOK, CodexTypeOK, taskVars, boundVars, linkVars,
       historyVars
  <1> QED
    BY <1>1, <1>4, <1>5, QuietStep, QuietRegistry DEF taskVars, registryVars, boundVars, historyVars

LEMMA RestartKeepsIInv ==
  ASSUME IInv, Restart
  PROVE  IInv'
  <1>1. /\ queue' = [s \in Sessions |-> <<>>] /\ serving' = [s \in Sessions |-> None]
        /\ served' = served \cup {t \in Tasks : pc[t] # "idle"}
        /\ activeTurn' = [s \in Sessions |-> None] /\ streams' = {}
        /\ pc' = [t \in Tasks |-> IF pc[t] = "idle" THEN "idle" ELSE "done"]
        /\ existing' = [t \in Tasks |-> None] /\ thread' = [t \in Tasks |-> None]
        /\ answer' = [t \in Tasks |-> "none"]
        /\ link' = "up" /\ requests' = {} /\ inbox' = <<>> /\ turns' = Interrupted
        /\ crashes' = crashes + 1
        /\ UNCHANGED <<sessions, processed, job, sent, stranded, drops>>
    BY DEF Restart, tableVars, historyVars
  <1>2. \A t \in Tasks : pc'[t] \in {"idle", "done"} /\ (pc'[t] = "idle" <=> pc[t] = "idle")
    BY <1>1
  <1>3. crashes' \in Nat \ {0}
    BY <1>1, InvariantParts DEF OtherTypeOK
  <1>4. TypeOK'
    <2>1. ExecutorTypeOK'
      BY <1>1, InvariantParts DEF ExecutorTypeOK
    <2>2. TaskTypeOK' /\ TableTypeOK'
      BY <1>1, InvariantParts DEF TaskTypeOK, TableTypeOK, Answers
    <2>3. CodexTypeOK'
      BY <1>1, InvariantParts DEF CodexTypeOK, Interrupted
    <2>4. OtherTypeOK'
      BY <1>1, <1>3, InvariantParts
         DEF Restart, OtherTypeOK, Security!AlertsTypeOK, Security!ProcessEnds
    <2> QED
      BY <2>1, <2>2, <2>3, <2>4, TypeParts, PTL
  <1>5. TasksFit'
    BY <1>1, <1>2, InvariantParts DEF TasksFit, Working, Tasks
  <1>6. SlotIsHeld' /\ QueuedTasksWait'
    BY <1>1, <1>2 DEF SlotIsHeld, QueuedTasksWait
  <1>7. EachMessageHasOneTaker'
    <2>1. \A t \in Deliveries : Took(t)' => Took(t)
      BY <1>1, <1>2 DEF Took, Working, Tasks
    <2> QED
      BY <1>1, <2>1, InvariantParts DEF EachMessageHasOneTaker
  <1>8. AcceptedIsInProgress'
    BY <1>3 DEF AcceptedIsInProgress
  <1>9. SlotKeepsRecord' /\ TurnOnSessionThread'
    BY <1>2 DEF SlotKeepsRecord, TurnOnSessionThread, Tasks
  <1>10. OneStreamPerSession'
    BY <1>1 DEF OneStreamPerSession
  <1>11. OutsidersAreReported' /\ AlertsAdvance'
    <2>1. /\ alertStep' = [a \in Deliveries |-> IF alertStep[a] = "none" THEN "none" ELSE "over"]
          /\ UNCHANGED <<alerts, told>>
      BY DEF Restart, Security!ProcessEnds
    <2>2. AlertsAdvance'
      BY <2>1, InvariantParts DEF AlertsAdvance
    <2>3. \A t \in Deliveries : Outsider(t)' <=> Outsider(t)
      BY <1>1 DEF Outsider
    <2> HIDE DEF Outsider
    <2>4. OutsidersAreReported'
      BY <1>1, <1>3, <2>1, <2>3, InvariantParts DEF OutsidersAreReported
    <2> QED
      BY <2>2, <2>4
  <1> QED
    BY <1>4, <1>5, <1>6, <1>7, <1>8, <1>9, <1>10, <1>11 DEF IInv

LEMMA StutterKeepsIInv ==
  ASSUME IInv, UNCHANGED vars
  PROVE  IInv'
  <1>1. UNCHANGED <<executorVars, registryVars, tableVars, taskVars, linkVars, turns,
                    historyVars, alertVars, boundVars>>
    BY DEF vars
  <1>2. answer' \in [Tasks -> Answers] /\ drops' \in Nat /\ CodexTypeOK'
    BY <1>1, InvariantParts DEF TaskTypeOK, OtherTypeOK, CodexTypeOK, taskVars, boundVars, linkVars,
       historyVars
  <1> QED
    BY <1>1, <1>2, QuietStep, QuietRegistry DEF taskVars, registryVars, boundVars, historyVars

-----------------------------------------------------------------------------
LEMMA InitIInv ==
  ASSUME Init
  PROVE  IInv
  <1>1. TypeOK
    BY DEF Init, TypeOK, Executor!Init, Security!Init, Security!AlertsTypeOK, Statuses, Answers
  <1>2. TasksFit /\ SlotIsHeld /\ QueuedTasksWait /\ SlotKeepsRecord /\ TurnOnSessionThread
    BY DEF Init, Executor!Init, TasksFit, SlotIsHeld, QueuedTasksWait, SlotKeepsRecord,
           TurnOnSessionThread, Working, Tasks
  <1>3. EachMessageHasOneTaker /\ AcceptedIsInProgress /\ OneStreamPerSession
    BY DEF Init, EachMessageHasOneTaker, Took, Working, AcceptedIsInProgress, OneStreamPerSession, Tasks
  <1>4. AlertsAdvance /\ OutsidersAreReported
    BY DEF Init, Security!Init, AlertsAdvance, OutsidersAreReported, Outsider
  <1> QED
    BY <1>1, <1>2, <1>3, <1>4 DEF IInv

LEMMA NextKeepsIInv ==
  ASSUME IInv, [Next]_vars
  PROVE  IInv'
  <1>1. ASSUME NEW t \in Deliveries, NEW m \in Messages, HandleMessage(t, m)
        PROVE  IInv'
    BY <1>1, HandleMessageKeepsIInv
  <1>2. ASSUME NEW t \in Joins, HandleBotAdded(t)
        PROVE  IInv'
    BY <1>2, HandleBotAddedKeepsIInv
  <1>3. ASSUME NEW t \in Tasks, EnterSlot(t)
        PROVE  IInv'
    BY <1>3, EnterSlotKeepsIInv
  <1>4. ASSUME NEW t \in Tasks, Continue(t)
        PROVE  IInv'
    BY <1>4, ContinueKeepsIInv
  <1>5. ASSUME NEW t \in Tasks, CodexAnswers(t)
        PROVE  IInv'
    BY <1>5, CodexAnswersKeepsIInv
  <1>6. ASSUME NEW t \in Tasks, CodexEndsTurn(t)
        PROVE  IInv'
    BY <1>6, CodexEndsTurnKeepsIInv
  <1>7. ASSUME NEW t \in Deliveries, ReportOutsider(t)
        PROVE  IInv'
    BY <1>7, ReportOutsiderKeepsIInv
  <1>8. CASE ConnectionLost
    BY <1>8, ConnectionLostKeepsIInv
  <1>9. CASE Receive
    BY <1>9, ReceiveKeepsIInv
  <1>10. CASE Restart
    BY <1>10, RestartKeepsIInv
  <1>11. CASE UNCHANGED vars
    BY <1>11, StutterKeepsIInv
  <1> QED
    BY <1>1, <1>2, <1>3, <1>4, <1>5, <1>6, <1>7, <1>8, <1>9, <1>10, <1>11 DEF Next

-----------------------------------------------------------------------------
(* The inductive invariant: slots and queues agree with what tasks await,  *)
(* one task takes a message, and only the holder of a session's slot       *)
(* writes its record.                                                      *)
THEOREM Invariance == Spec => []IInv
  BY InitIInv, NextKeepsIInv, PTL DEF Spec

(* Every table, registry and task keeps values of its type, and what Codex *)
(* has sent can be handled.                                                *)
THEOREM TypeCorrect == Spec => []TypeOK
  <1>1. IInv => TypeOK
    BY DEF IInv
  <1> QED
    BY <1>1, Invariance, PTL

(* No message is ever forwarded to Codex twice: the insert into            *)
(* processed_messages comes first, and nothing removes it.                 *)
THEOREM EachForwardedOnce == Spec => []ForwardedAtMostOnce
  <1>1. IInv => ForwardedAtMostOnce
    <2> SUFFICES ASSUME IInv, NEW t \in sent, NEW u \in sent, job[t] = job[u]
                 PROVE  t = u
      BY DEF ForwardedAtMostOnce
    <2>1. t \in Deliveries /\ u \in Deliveries /\ Took(t) /\ Took(u)
      BY InvariantParts DEF CodexTypeOK, Took
    <2> QED
      BY <2>1, InvariantParts DEF EachMessageHasOneTaker
  <1> QED
    BY <1>1, Invariance, PTL

(* A message is marked accepted only while a task works on it, unless the  *)
(* process has died: handle_message gives every other way out a final      *)
(* status.                                                                 *)
THEOREM AcceptedIsWorkedOn == Spec => []AcceptedIsInProgress
  <1>1. IInv => AcceptedIsInProgress
    BY DEF IInv
  <1> QED
    BY <1>1, Invariance, PTL

(* A turn is started on the thread that the session's record names when    *)
(* Codex accepts it.                                                       *)
THEOREM TurnsUseTheSessionThread == Spec => []TurnOnSessionThread
  <1>1. IInv => TurnOnSessionThread
    BY DEF IInv
  <1> QED
    BY <1>1, Invariance, PTL

(* A session streams at most one turn, the one its gate looks at.          *)
THEOREM StreamsAreActive == Spec => []OneStreamPerSession
  <1>1. IInv => OneStreamPerSession
    BY DEF IInv
  <1> QED
    BY <1>1, Invariance, PTL

(* Messages of outsiders go no further than their row in security_alerts,  *)
(* which tells what the owner got.                                         *)
THEOREM OutsidersStayOut == Spec => []OutsidersAreReported
  <1>1. IInv => OutsidersAreReported
    BY DEF IInv
  <1> QED
    BY <1>1, Invariance, PTL

(* A task replaces the record it has read: no rotation between its read    *)
(* and its write, several awaits later, is lost.                           *)
THEOREM RotationsSerial == Spec => RotationsAreSerial
  <1>1. IInv => \A t \in Tasks :
                  pc[t] \in {"resume", "open"} => existing[t] = sessions[ScopeOf(t)]
    BY DEF IInv, SlotKeepsRecord
  <1>2. IInv => [\A t \in Tasks :
                   /\ pc[t] \in {"resume", "open"} /\ pc'[t] # pc[t]
                   /\ sessions'[ScopeOf(t)] # sessions[ScopeOf(t)]
                   => existing[t] = sessions[ScopeOf(t)]]_sessions
    BY <1>1
  <1> QED
    BY <1>2, Invariance, PTL DEF RotationsAreSerial
=============================================================================
