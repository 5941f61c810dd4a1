--------------------------- MODULE SessionExecutor ---------------------------
(***************************************************************************)
(* workers/session_executor.py: SessionExecutor.run serialises the         *)
(* asynchronous operations of one session_scope_key.  A session's lock     *)
(* lives in a table entry that is created on demand, reference-counted,    *)
(* and dropped when its last user leaves.  Every action below is one       *)
(* stretch of code between two suspension points of the event loop:        *)
(* _entries_guard is never held across a suspension, so it never blocks.   *)
(*                                                                         *)
(* A lock object is named by the task that created it: a task calls run    *)
(* once, so it creates at most one.  asyncio.Lock is FIFO: release only    *)
(* marks the first waiter's future as done, and the waiter takes the lock  *)
(* when the loop runs it again; until then the lock is free, but acquire   *)
(* queues behind whoever waits.                                            *)
(***************************************************************************)
EXTENDS Integers, Sequences, FiniteSets

CONSTANTS
  Tasks,   \* calls of run, each an asyncio task of its own
  Keys,    \* session_scope_key values
  None     \* no lock, no task

ASSUME NoneAssumption == None \notin Tasks
ASSUME TasksAssumption == IsFiniteSet(Tasks)

VARIABLES
  entries,   \* self._entries: the lock of each key, None when absent
  refCount,  \* _LockEntry.ref_count, by lock
  locked,    \* asyncio.Lock._locked, by lock
  waiters,   \* asyncio.Lock._waiters, by lock
  woken,     \* woken[l]: the future of l's first waiter is done
  pc,        \* where each task is
  key,       \* the session_scope_key argument of each task
  entryOf    \* the local variable entry of each task

tableVars == <<entries, refCount>>
lockVars == <<locked, waiters, woken>>
taskVars == <<pc, key, entryOf>>
vars == <<entries, refCount, locked, waiters, woken, pc, key, entryOf>>

Init ==
  /\ entries = [k \in Keys |-> None]
  /\ refCount = [l \in Tasks |-> 0]
  /\ locked = [l \in Tasks |-> FALSE]
  /\ waiters = [l \in Tasks |-> <<>>]
  /\ woken = [l \in Tasks |-> FALSE]
  /\ pc = [t \in Tasks |-> "idle"]
  /\ key = [t \in Tasks |-> None]
  /\ entryOf = [t \in Tasks |-> None]

-----------------------------------------------------------------------------
(* _retain_entry: find or create the entry and count the caller.           *)
RetainedEntry(t, k) == IF entries[k] = None THEN t ELSE entries[k]

RetainEntryUncounted(t, k) ==  \* mutant: the creator is not counted
  /\ entries' = [entries EXCEPT ![k] = RetainedEntry(t, k)]
  /\ refCount' = [refCount EXCEPT ![entries[k]] = @ + 1]

RetainEntry(t, k) ==
  /\ entries' = [entries EXCEPT ![k] = RetainedEntry(t, k)]
  /\ refCount' = [refCount EXCEPT ![RetainedEntry(t, k)] = @ + 1]

(* asyncio.Lock.acquire takes a free lock only when nobody waits for it.   *)
CanAcquire(l) == ~locked[l] /\ waiters[l] = <<>>

(* asyncio.Lock.release frees the lock and completes the first waiter.     *)
Release(l) ==
  /\ locked' = [locked EXCEPT ![l] = FALSE]
  /\ woken' = [woken EXCEPT ![l] = waiters[l] # <<>>]
  /\ UNCHANGED waiters

(* _release_entry, which looks the entry up again by its key.              *)
DroppableWhenFree(l) == ~locked'[l]                          \* mutant
DroppableTooLate(l) == refCount[l] - 1 < 0 /\ ~locked'[l]    \* mutant

Droppable(l) == refCount[l] - 1 <= 0 /\ ~locked'[l]

ReleaseEntry(t) ==
  LET k == key[t]
      l == entries[key[t]]
  IN  IF l = None
      THEN UNCHANGED tableVars
      ELSE /\ refCount' = [refCount EXCEPT ![l] = @ - 1]
           /\ entries' = IF Droppable(l) THEN [entries EXCEPT ![k] = None] ELSE entries

-----------------------------------------------------------------------------
(* run, up to its first suspension: the operation starts at once, or the   *)
(* task suspends in lock.acquire().                                        *)
Run(t, k) ==
  LET l == RetainedEntry(t, k)
  IN  /\ pc[t] = "idle"
      /\ RetainEntry(t, k)
      /\ key' = [key EXCEPT ![t] = k]
      /\ entryOf' = [entryOf EXCEPT ![t] = l]
      /\ \/ /\ CanAcquire(l)
            /\ locked' = [locked EXCEPT ![l] = TRUE]
            /\ pc' = [pc EXCEPT ![t] = "running"]
            /\ UNCHANGED <<waiters, woken>>
         \/ /\ ~CanAcquire(l)
            /\ waiters' = [waiters EXCEPT ![l] = Append(@, t)]
            /\ pc' = [pc EXCEPT ![t] = "waiting"]
            /\ UNCHANGED <<locked, woken>>

(* The loop resumes the waiter whose future is done: it takes the lock     *)
(* without looking at it again and starts its operation.                   *)
Enter(t) ==
  LET l == entryOf[t]
  IN  /\ pc[t] = "waiting"
      /\ woken[l] /\ Head(waiters[l]) = t
      /\ waiters' = [waiters EXCEPT ![l] = Tail(@)]
      /\ woken' = [woken EXCEPT ![l] = FALSE]
      /\ locked' = [locked EXCEPT ![l] = TRUE]
      /\ pc' = [pc EXCEPT ![t] = "running"]
      /\ UNCHANGED <<tableVars, key, entryOf>>

LeaveLocked(t) ==  \* mutant: only the entry is released
  /\ pc[t] = "running"
  /\ UNCHANGED lockVars
  /\ ReleaseEntry(t)
  /\ pc' = [pc EXCEPT ![t] = "done"]
  /\ UNCHANGED <<key, entryOf>>

(* The operation returns or raises; the finally block releases both.       *)
Leave(t) ==
  /\ pc[t] = "running"
  /\ Release(entryOf[t])
  /\ ReleaseEntry(t)
  /\ pc' = [pc EXCEPT ![t] = "done"]
  /\ UNCHANGED <<key, entryOf>>

Next ==
  \E t \in Tasks : Enter(t) \/ Leave(t) \/ \E k \in Keys : Run(t, k)

Spec == Init /\ [][Next]_vars

(* The event loop runs every task whose future is done.                    *)
FairSpec == Spec /\ \A t \in Tasks : WF_vars(Enter(t))

-----------------------------------------------------------------------------
Inside(t) == pc[t] \in {"waiting", "running"}
Users(l) == {t \in Tasks : Inside(t) /\ entryOf[t] = l}

(* Every variable keeps the type the class gives it.                       *)
TypeOK ==
  /\ entries \in [Keys -> Tasks \cup {None}]
  /\ refCount \in [Tasks -> Nat]
  /\ locked \in [Tasks -> BOOLEAN]
  /\ waiters \in [Tasks -> Seq(Tasks)]
  /\ woken \in [Tasks -> BOOLEAN]
  /\ pc \in [Tasks -> {"idle", "waiting", "running", "done"}]
  /\ key \in [Tasks -> Keys \cup {None}]
  /\ entryOf \in [Tasks -> Tasks \cup {None}]

(* Two operations of one session never run at the same time.  The lock     *)
(* alone does not give this: dropping the entry while a woken waiter has   *)
(* yet to run would let a new caller create a second lock for the key.     *)
OneOperationPerSession ==
  \A t, u \in Tasks :
    pc[t] = "running" /\ pc[u] = "running" /\ key[t] = key[u] => t = u

(* The table holds an entry for a key exactly while some call of run for   *)
(* that key is between its retain and its release: entries are neither     *)
(* leaked nor dropped under a user.                                        *)
EntriesTrackUsers ==
  \A k \in Keys :
    entries[k] # None <=> \E t \in Tasks : Inside(t) /\ key[t] = k

(* Provided every operation ends, every call of run gets its slot.         *)
EveryCallIsServed ==
  (\A u \in Tasks : pc[u] = "running" ~> pc[u] = "done")
    => \A t \in Tasks : pc[t] = "waiting" ~> pc[t] = "running"

(* The executor implements a first-come-first-served queue per session.    *)
Queue == INSTANCE SessionQueue WITH
  queue <- [k \in Keys |-> IF entries[k] = None THEN <<>> ELSE waiters[entries[k]]],
  serving <- [k \in Keys |->
                IF \E t \in Tasks : pc[t] = "running" /\ key[t] = k
                THEN CHOOSE t \in Tasks : pc[t] = "running" /\ key[t] = k
                ELSE None],
  served <- {t \in Tasks : pc[t] = "done"}

ServesInArrivalOrder == Queue!Spec

-----------------------------------------------------------------------------
(* The inductive invariant behind the properties above, part by part.      *)

(* A call between retain and release uses the entry the table holds for    *)
(* its key, and keys do not share entries.                                 *)
UsersShareEntry ==
  /\ \A t \in Tasks : Inside(t) =>
       /\ key[t] \in Keys
       /\ entryOf[t] \in Tasks
       /\ entries[key[t]] = entryOf[t]
  /\ \A j, k \in Keys : entries[j] = entries[k] /\ entries[j] # None => j = k

(* A live entry has a user, and its count is the number of its users.      *)
CountsUsers ==
  /\ \A l \in Tasks : refCount[l] = Cardinality(Users(l))
  /\ \A k \in Keys : entries[k] # None => \E t \in Tasks : Inside(t) /\ key[t] = k

(* A task that has not called run has created no lock.                     *)
IdleCreatedNothing ==
  \A t \in Tasks : pc[t] = "idle" =>
    /\ ~locked[t] /\ ~woken[t] /\ waiters[t] = <<>>
    /\ \A u \in Tasks : Inside(u) => entryOf[u] # t
    /\ \A k \in Keys : entries[k] # t

(* A lock is held exactly while an operation runs under it, by that one    *)
(* alone.                                                                  *)
LockHeldWhileRunning ==
  /\ \A t \in Tasks : pc[t] = "running" => locked[entryOf[t]]
  /\ \A l \in Tasks : locked[l] => \E t \in Tasks : pc[t] = "running" /\ entryOf[t] = l
  /\ \A t, u \in Tasks :
       pc[t] = "running" /\ pc[u] = "running" /\ entryOf[t] = entryOf[u] => t = u

(* A waiter is woken only while the lock is free, and waits for that lock. *)
WokenWhileFree ==
  /\ \A l \in Tasks : woken[l] => ~locked[l] /\ waiters[l] # <<>>
  /\ \A l \in Tasks : \A i \in 1..Len(waiters[l]) :
       /\ pc[waiters[l][i]] = "waiting"
       /\ entryOf[waiters[l][i]] = l
       /\ \A j \in 1..Len(waiters[l]) : waiters[l][i] = waiters[l][j] => i = j

IInv ==
  /\ TypeOK
  /\ UsersShareEntry
  /\ CountsUsers
  /\ IdleCreatedNothing
  /\ LockHeldWhileRunning
  /\ WokenWhileFree
=============================================================================
