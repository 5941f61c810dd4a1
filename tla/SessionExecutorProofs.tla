------------------------ MODULE SessionExecutorProofs ------------------------
(* Proofs about SessionExecutor for any finite set of calls, any keys.     *)
EXTENDS SessionExecutor, FiniteSetTheorems, TLAPS

USE NoneAssumption

(* A lock has finitely many users, so that ref_count can be their number.  *)
LEMMA UsersFinite == \A l \in Tasks : IsFiniteSet(Users(l)) /\ Cardinality(Users(l)) \in Nat
  BY TasksAssumption, FS_Subset, FS_CardinalityType DEF Users

(* What remains when the first waiter leaves: the others, one place ahead, *)
(* still each in one place.                                                *)
LEMMA TailOfWaiters ==
  ASSUME NEW S, NEW s \in Seq(S), s # <<>>,
         \A i, j \in 1..Len(s) : s[i] = s[j] => i = j
  PROVE  /\ Tail(s) \in Seq(S)
         /\ \A i \in 1..Len(Tail(s)) :
              /\ i + 1 \in 1..Len(s)
              /\ Tail(s)[i] = s[i + 1]
              /\ Tail(s)[i] # s[1]
         /\ \A i, j \in 1..Len(Tail(s)) : Tail(s)[i] = Tail(s)[j] => i = j
  <1>1. Tail(s) \in Seq(S) /\ Len(Tail(s)) = Len(s) - 1 /\ Len(s) \in Nat \ {0}
    OBVIOUS
  <1>2. \A i \in 1..Len(Tail(s)) : i + 1 \in 1..Len(s) /\ 1 \in 1..Len(s) /\ i + 1 # 1
    BY <1>1
  <1>3. \A i \in 1..Len(Tail(s)) : Tail(s)[i] = s[i + 1]
    BY <1>1
  <1>4. ASSUME NEW i \in 1..Len(Tail(s)), NEW j \in 1..Len(Tail(s)), i # j
        PROVE  Tail(s)[i] # Tail(s)[j]
    <2>1. i + 1 # j + 1
      BY <1>1, <1>4
    <2>2. s[i + 1] # s[j + 1]
      BY <2>1, <1>2
    <2> QED
      BY <2>2, <1>3
  <1>5. \A i \in 1..Len(Tail(s)) : Tail(s)[i] # s[1]
    BY <1>2, <1>3
  <1> QED
    BY <1>1, <1>2, <1>3, <1>4, <1>5

(* __init__ leaves no entry, so no call, count or waiter to account for.   *)
LEMMA InitIInv == Init => IInv
  <1> SUFFICES ASSUME Init PROVE IInv
    OBVIOUS
  <1> USE DEF Init, Inside
  <1>1. TypeOK
    BY DEF TypeOK
  <1>2. CountsUsers
    <2>1. \A l \in Tasks : Users(l) = {}
      BY DEF Users
    <2> QED
      BY <2>1, FS_EmptySet DEF CountsUsers
  <1>3. UsersShareEntry /\ IdleCreatedNothing /\ LockHeldWhileRunning /\ WokenWhileFree
    BY DEF UsersShareEntry, IdleCreatedNothing, LockHeldWhileRunning, WokenWhileFree
  <1> QED
    BY <1>1, <1>2, <1>3 DEF IInv

-----------------------------------------------------------------------------
(* run up to its first suspension: the entry it retains is new, and then   *)
(* nobody uses it, or is the one every user of the key has.                *)
LEMMA RunKeepsIInv ==
  ASSUME IInv, NEW t \in Tasks, NEW k \in Keys, Run(t, k)
  PROVE  IInv'
  <1> PICK l \in Tasks : l = RetainedEntry(t, k)
    BY DEF IInv, TypeOK, RetainedEntry
  <1> USE DEF Run, RetainEntry, CanAcquire
  <1>1. l \in Tasks /\ (entries[k] # None => entries[k] = l) /\ pc[t] = "idle"
    BY DEF RetainedEntry
  <1>2. l # t => entries[k] = l
    BY DEF RetainedEntry
  <1>3. TypeOK'
    <2>1. Append(waiters[l], t) \in Seq(Tasks)
      BY DEF IInv, TypeOK
    <2>2. waiters' \in [Tasks -> Seq(Tasks)]
      BY <2>1 DEF IInv, TypeOK
    <2>3. /\ locked' \in [Tasks -> BOOLEAN] /\ woken' \in [Tasks -> BOOLEAN]
          /\ pc' \in [Tasks -> {"idle", "waiting", "running", "done"}]
      BY DEF IInv, TypeOK
    <2>4. /\ entries' \in [Keys -> Tasks \cup {None}] /\ refCount' \in [Tasks -> Nat]
          /\ key' \in [Tasks -> Keys \cup {None}] /\ entryOf' \in [Tasks -> Tasks \cup {None}]
      BY DEF IInv, TypeOK
    <2> QED
      BY <2>2, <2>3, <2>4 DEF TypeOK
  <1>4. /\ \A u \in Tasks : u # t => (Inside(u)' <=> Inside(u)) /\ entryOf'[u] = entryOf[u]
                                    /\ key'[u] = key[u] /\ pc'[u] = pc[u]
        /\ Inside(t)' /\ ~Inside(t) /\ entryOf'[t] = l /\ key'[t] = k
    BY <1>1 DEF IInv, TypeOK, Inside
  <1>5. entries'[k] = l /\ \A j \in Keys : j # k => entries'[j] = entries[j]
    BY DEF IInv, TypeOK
  <1>6. UsersShareEntry'
    <2>1. ASSUME NEW u \in Tasks, Inside(u)'
          PROVE  key'[u] \in Keys /\ entryOf'[u] \in Tasks /\ entries'[key'[u]] = entryOf'[u]
      <3>1. CASE u = t
        BY <3>1, <1>4, <1>5
      <3>2. CASE u # t
        <4>1. Inside(u) /\ key[u] \in Keys /\ entryOf[u] \in Tasks /\ entries[key[u]] = entryOf[u]
          BY <2>1, <3>2, <1>4 DEF IInv, UsersShareEntry
        <4> QED
          BY <4>1, <3>2, <1>1, <1>4, <1>5
      <3> QED
        BY <3>1, <3>2
    <2>2. ASSUME NEW i \in Keys, NEW j \in Keys, entries'[i] = entries'[j], entries'[i] # None
          PROVE  i = j
      <3>1. \A h \in Keys : h # k => entries[h] # l
        BY <1>1, <1>2 DEF IInv, UsersShareEntry, IdleCreatedNothing
      <3> QED
        BY <2>2, <3>1, <1>5 DEF IInv, UsersShareEntry
    <2> QED
      BY <2>1, <2>2 DEF UsersShareEntry
  <1>7. CountsUsers'
    <2>1. Users(l)' = Users(l) \cup {t} /\ t \notin Users(l)
      BY <1>1, <1>4 DEF Users
    <2>2. \A m \in Tasks : m # l => Users(m)' = Users(m)
      BY <1>1, <1>4 DEF Users
    <2>3. Cardinality(Users(l)') = Cardinality(Users(l)) + 1
      BY <2>1, <1>1, UsersFinite, FS_AddElement
    <2>4. \A m \in Tasks : refCount'[m] = Cardinality(Users(m)')
      BY <2>2, <2>3, <1>1 DEF IInv, TypeOK, CountsUsers
    <2>5. \A j \in Keys : entries'[j] # None => \E u \in Tasks : Inside(u)' /\ key'[u] = j
      BY <1>4, <1>5 DEF IInv, CountsUsers
    <2> QED
      BY <2>4, <2>5 DEF CountsUsers
  <1>8. IdleCreatedNothing'
    <2> SUFFICES ASSUME NEW u \in Tasks, pc'[u] = "idle"
                 PROVE  /\ ~locked'[u] /\ ~woken'[u] /\ waiters'[u] = <<>>
                        /\ \A w \in Tasks : Inside(w)' => entryOf'[w] # u
                        /\ \A j \in Keys : entries'[j] # u
      BY DEF IdleCreatedNothing
    <2>1. u # t /\ pc[u] = "idle"
      BY DEF IInv, TypeOK
    <2>2. u # l
      BY <2>1, <1>2 DEF IInv, IdleCreatedNothing
    <2> QED
      BY <1>1, <1>4, <1>5, <2>1, <2>2 DEF IInv, TypeOK, IdleCreatedNothing
  <1>9. LockHeldWhileRunning'
    <2>1. ASSUME NEW m \in Tasks, locked[m]
          PROVE  \E u \in Tasks : pc'[u] = "running" /\ entryOf'[u] = m
      <3>1. PICK u \in Tasks : pc[u] = "running" /\ entryOf[u] = m
        BY <2>1 DEF IInv, LockHeldWhileRunning
      <3>2. u # t
        BY <1>1, <3>1
      <3> QED
        BY <1>4, <3>1, <3>2
    <2>2. CASE CanAcquire(l)
      <3>1. \A u \in Tasks : pc[u] = "running" => entryOf[u] # l
        BY <2>2 DEF IInv, LockHeldWhileRunning
      <3>2. /\ \A u \in Tasks : pc'[u] = "running" => locked'[entryOf'[u]]
            /\ \A u, v \in Tasks :
                 pc'[u] = "running" /\ pc'[v] = "running" /\ entryOf'[u] = entryOf'[v] => u = v
        BY <2>2, <3>1, <1>1, <1>4 DEF IInv, TypeOK, LockHeldWhileRunning, UsersShareEntry, Inside
      <3>3. pc'[t] = "running" /\ locked' = [locked EXCEPT ![l] = TRUE]
        BY <2>2 DEF IInv, TypeOK
      <3>4. \A m \in Tasks : locked'[m] => \E u \in Tasks : pc'[u] = "running" /\ entryOf'[u] = m
        BY <2>1, <3>3, <1>4 DEF IInv, TypeOK
      <3> QED
        BY <3>2, <3>4 DEF LockHeldWhileRunning
    <2>3. CASE ~CanAcquire(l)
      <3>1. locked' = locked /\ pc'[t] # "running"
        BY <2>3 DEF IInv, TypeOK
      <3>2. \A m \in Tasks : locked'[m] => \E u \in Tasks : pc'[u] = "running" /\ entryOf'[u] = m
        BY <2>1, <3>1
      <3> QED
        BY <3>1, <3>2, <1>4 DEF IInv, LockHeldWhileRunning
    <2> QED
      BY <2>2, <2>3
  <1>10. WokenWhileFree'
    <2>1. CASE CanAcquire(l)
      <3>1. /\ locked' = [locked EXCEPT ![l] = TRUE] /\ woken' = woken /\ waiters' = waiters
            /\ waiters[l] = <<>> /\ ~woken[l]
        BY <2>1, <1>1 DEF IInv, WokenWhileFree
      <3>2. \A m \in Tasks : woken'[m] => ~locked'[m] /\ waiters'[m] # <<>>
        BY <3>1 DEF IInv, TypeOK, WokenWhileFree
      <3>3. ASSUME NEW m \in Tasks, NEW i \in 1..Len(waiters[m])
            PROVE  /\ pc'[waiters[m][i]] = "waiting" /\ entryOf'[waiters[m][i]] = m
                   /\ \A j \in 1..Len(waiters[m]) : waiters[m][i] = waiters[m][j] => i = j
        <4>1. waiters[m] \in Seq(Tasks) /\ waiters[m][i] \in Tasks
          BY DEF IInv, TypeOK
        <4> QED
          BY <4>1, <1>1, <1>4 DEF IInv, WokenWhileFree
      <3> QED
        BY <3>1, <3>2, <3>3 DEF WokenWhileFree
    <2>2. CASE ~CanAcquire(l)
      <3>1. waiters' = [waiters EXCEPT ![l] = Append(@, t)] /\ waiters[l] \in Seq(Tasks)
            /\ locked' = locked /\ woken' = woken
        BY <2>2, <1>1 DEF IInv, TypeOK
      <3>2. /\ Len(waiters'[l]) = Len(waiters[l]) + 1
            /\ waiters'[l][Len(waiters[l]) + 1] = t
            /\ \A i \in 1..Len(waiters[l]) : waiters'[l][i] = waiters[l][i]
        BY <3>1, <1>1 DEF IInv, TypeOK
      <3>3. \A i \in 1..Len(waiters[l]) : waiters[l][i] # t /\ waiters[l][i] \in Tasks
        BY <3>1, <1>1 DEF IInv, WokenWhileFree
      <3>4. \A m \in Tasks : m # l => waiters'[m] = waiters[m]
        BY <3>1 DEF IInv, TypeOK
      <3>5. \A m \in Tasks : woken'[m] => ~locked'[m] /\ waiters'[m] # <<>>
        BY <3>1, <3>2, <3>4, <1>1 DEF IInv, WokenWhileFree
      <3>6. pc'[t] = "waiting"
        BY <2>2, <1>1 DEF IInv, TypeOK
      <3>7. ASSUME NEW m \in Tasks, NEW i \in 1..Len(waiters'[m])
            PROVE  /\ pc'[waiters'[m][i]] = "waiting"
                   /\ entryOf'[waiters'[m][i]] = m
                   /\ \A j \in 1..Len(waiters'[m]) : waiters'[m][i] = waiters'[m][j] => i = j
        <4>1. CASE m # l
          <5>1. waiters'[m] = waiters[m] /\ waiters[m] \in Seq(Tasks)
            BY <4>1, <3>4 DEF IInv, TypeOK
          <5>2. waiters[m][i] \in Tasks /\ pc[waiters[m][i]] = "waiting"
            BY <5>1 DEF IInv, WokenWhileFree
          <5> QED
            BY <5>1, <5>2, <1>1, <1>4 DEF IInv, WokenWhileFree
        <4>2. CASE m = l
          <5>1. CASE i = Len(waiters[l]) + 1
            BY <4>2, <5>1, <3>1, <3>2, <3>3, <3>6, <1>4
          <5>2. CASE i # Len(waiters[l]) + 1
            <6>1. i \in 1..Len(waiters[l])
              BY <4>2, <5>2, <3>1, <3>2
            <6>2. waiters'[l][i] = waiters[l][i] /\ waiters[l][i] # t /\ waiters[l][i] \in Tasks
              BY <6>1, <3>2, <3>3
            <6>3. pc[waiters[l][i]] = "waiting" /\ entryOf[waiters[l][i]] = l
              BY <6>1, <1>1 DEF IInv, WokenWhileFree
            <6>4. \A j \in 1..Len(waiters[l]) : waiters[l][i] = waiters[l][j] => i = j
              BY <6>1, <1>1 DEF IInv, WokenWhileFree
            <6> QED
              BY <4>2, <6>2, <6>3, <6>4, <3>1, <3>2, <1>4
          <5> QED
            BY <5>1, <5>2
        <4> QED
          BY <4>1, <4>2
      <3> QED
        BY <3>5, <3>7 DEF WokenWhileFree
    <2> QED
      BY <2>1, <2>2
  <1> QED
    BY <1>3, <1>6, <1>7, <1>8, <1>9, <1>10 DEF IInv

(* The woken waiter takes the lock: it was free, and the waiter was alone  *)
(* in being woken, so no other operation of the session runs.              *)
LEMMA EnterKeepsIInv ==
  ASSUME IInv, NEW t \in Tasks, Enter(t)
  PROVE  IInv'
  <1> PICK l \in Tasks : l = entryOf[t]
    BY DEF IInv, UsersShareEntry, Inside, Enter
  <1> DEFINE w == waiters[l]
  <1>1. /\ pc[t] = "waiting" /\ woken[l] /\ Head(w) = t
        /\ waiters' = [waiters EXCEPT ![l] = Tail(w)]
        /\ woken' = [woken EXCEPT ![l] = FALSE]
        /\ locked' = [locked EXCEPT ![l] = TRUE]
        /\ pc' = [pc EXCEPT ![t] = "running"]
        /\ UNCHANGED <<entries, refCount, key, entryOf>>
    BY DEF Enter, tableVars
  <1>2. w \in Seq(Tasks) /\ w # <<>> /\ ~locked[l]
    BY <1>1 DEF IInv, TypeOK, WokenWhileFree
  <1>3. /\ Tail(w) \in Seq(Tasks) /\ t = w[1]
        /\ \A i \in 1..Len(Tail(w)) :
             i + 1 \in 1..Len(w) /\ Tail(w)[i] = w[i + 1] /\ Tail(w)[i] # w[1]
        /\ \A i, j \in 1..Len(Tail(w)) : Tail(w)[i] = Tail(w)[j] => i = j
    <2>1. \A i, j \in 1..Len(w) : w[i] = w[j] => i = j
      BY DEF IInv, WokenWhileFree
    <2>2. t = w[1]
      BY <1>1, <1>2
    <2> QED
      BY <2>1, <2>2, <1>2, TailOfWaiters
  <1>4. TypeOK'
    BY <1>1, <1>3 DEF IInv, TypeOK
  <1>5. \A u \in Tasks : (Inside(u)' <=> Inside(u)) /\ (u # t => pc'[u] = pc[u])
    BY <1>1 DEF IInv, TypeOK, Inside
  <1>6. UsersShareEntry'
    BY <1>1, <1>5 DEF IInv, UsersShareEntry
  <1>7. CountsUsers'
    <2>1. \A m \in Tasks : Users(m)' = Users(m)
      BY <1>1, <1>5 DEF Users
    <2> QED
      BY <2>1, <1>1, <1>5 DEF IInv, CountsUsers
  <1>8. IdleCreatedNothing'
    <2>1. pc[l] # "idle"
      BY <1>1 DEF IInv, IdleCreatedNothing, Inside
    <2> QED
      BY <2>1, <1>1, <1>5 DEF IInv, TypeOK, IdleCreatedNothing
  <1>9. LockHeldWhileRunning'
    <2>1. \A u \in Tasks : pc[u] = "running" => entryOf[u] # l
      BY <1>2 DEF IInv, LockHeldWhileRunning
    <2> QED
      BY <2>1, <1>1 DEF IInv, TypeOK, LockHeldWhileRunning, UsersShareEntry, Inside
  <1>10. WokenWhileFree'
    <2>1. \A m \in Tasks : woken'[m] => ~locked'[m] /\ waiters'[m] # <<>>
      BY <1>1 DEF IInv, TypeOK, WokenWhileFree
    <2>2. ASSUME NEW m \in Tasks, NEW i \in 1..Len(waiters'[m])
          PROVE  /\ pc'[waiters'[m][i]] = "waiting"
                 /\ entryOf'[waiters'[m][i]] = m
                 /\ \A j \in 1..Len(waiters'[m]) : waiters'[m][i] = waiters'[m][j] => i = j
      <3>1. CASE m # l
        <4>1. waiters'[m] = waiters[m] /\ waiters[m] \in Seq(Tasks)
          BY <1>1, <3>1 DEF IInv, TypeOK
        <4>2. /\ waiters[m][i] \in Tasks /\ pc[waiters[m][i]] = "waiting"
              /\ entryOf[waiters[m][i]] = m
          BY <4>1 DEF IInv, WokenWhileFree
        <4>3. waiters[m][i] # t
          BY <4>2, <3>1
        <4>4. \A j \in 1..Len(waiters[m]) : waiters[m][i] = waiters[m][j] => i = j
          BY <4>1 DEF IInv, WokenWhileFree
        <4>5. pc'[waiters[m][i]] = "waiting" /\ entryOf'[waiters[m][i]] = m
          BY <4>2, <4>3, <1>1 DEF IInv, TypeOK
        <4> QED
          BY <4>1, <4>4, <4>5
      <3>2. CASE m = l
        <4>1. waiters'[m] = Tail(w)
          BY <1>1, <3>2 DEF IInv, TypeOK
        <4>2. i \in 1..Len(Tail(w))
          BY <4>1
        <4>3. \A j \in 1..Len(Tail(w)) : Tail(w)[i] = Tail(w)[j] => i = j
          BY <4>2, <1>3
        <4>4. i + 1 \in 1..Len(w) /\ Tail(w)[i] = w[i + 1] /\ Tail(w)[i] # t
          BY <4>2, <1>3
        <4>5. w[i + 1] \in Tasks /\ pc[w[i + 1]] = "waiting" /\ entryOf[w[i + 1]] = l
          BY <4>4, <1>2 DEF IInv, WokenWhileFree
        <4>6. pc'[Tail(w)[i]] = "waiting" /\ entryOf'[Tail(w)[i]] = l
          BY <4>4, <4>5, <1>1 DEF IInv, TypeOK
        <4> QED
          BY <4>1, <4>3, <4>6, <3>2
      <3> QED
        BY <3>1, <3>2
    <2> QED
      BY <2>1, <2>2 DEF WokenWhileFree
  <1> QED
    BY <1>4, <1>6, <1>7, <1>8, <1>9, <1>10 DEF IInv

(* The finally block of run: the entry goes exactly when the leaving call  *)
(* was its last user, and then nobody waits for its lock.                  *)
LEMMA LeaveKeepsIInv ==
  ASSUME IInv, NEW t \in Tasks, Leave(t)
  PROVE  IInv'
  <1> PICK l \in Tasks : l = entryOf[t]
    BY DEF IInv, UsersShareEntry, Inside, Leave
  <1> PICK k \in Keys : k = key[t]
    BY DEF IInv, UsersShareEntry, Inside, Leave
  <1>1. pc[t] = "running" /\ Inside(t) /\ entries[k] = l /\ l # None
    BY DEF IInv, UsersShareEntry, Inside, Leave
  <1>2. /\ locked' = [locked EXCEPT ![l] = FALSE]
        /\ woken' = [woken EXCEPT ![l] = waiters[l] # <<>>]
        /\ UNCHANGED <<waiters, key, entryOf>>
        /\ pc' = [pc EXCEPT ![t] = "done"]
    BY DEF Leave, Release
  <1>3. /\ refCount' = [refCount EXCEPT ![l] = @ - 1]
        /\ entries' = IF refCount[l] - 1 <= 0 THEN [entries EXCEPT ![k] = None] ELSE entries
    BY <1>1, <1>2 DEF Leave, ReleaseEntry, Droppable, IInv, TypeOK
  <1>4. /\ \A u \in Tasks : u # t => (Inside(u)' <=> Inside(u)) /\ pc'[u] = pc[u]
        /\ ~Inside(t)'
    BY <1>2 DEF IInv, TypeOK, Inside
  <1>5. Users(l)' = Users(l) \ {t} /\ t \in Users(l)
    BY <1>1, <1>2, <1>4 DEF Users
  <1>6. Cardinality(Users(l)') = Cardinality(Users(l)) - 1 /\ Cardinality(Users(l)') \in Nat
    <2>1. IsFiniteSet(Users(l)) /\ IsFiniteSet(Users(l)')
      BY <1>5, UsersFinite, FS_RemoveElement
    <2> QED
      BY <2>1, <1>5, FS_RemoveElement, FS_CardinalityType
  <1>7. refCount[l] - 1 = Cardinality(Users(l)') /\ refCount[l] \in Nat
    BY <1>6 DEF IInv, TypeOK, CountsUsers
  <1>8. refCount[l] - 1 <= 0 <=> Users(l)' = {}
    <2>1. IsFiniteSet(Users(l)')
      BY <1>5, UsersFinite, FS_RemoveElement
    <2> QED
      BY <2>1, <1>6, <1>7, FS_EmptySet
  <1>9. TypeOK'
    <2>1. refCount' \in [Tasks -> Nat]
      BY <1>3, <1>6, <1>7 DEF IInv, TypeOK
    <2> QED
      BY <2>1, <1>2, <1>3 DEF IInv, TypeOK
  <1>10. \A j \in Keys : entries'[j] = IF j = k /\ Users(l)' = {} THEN None ELSE entries[j]
    BY <1>3, <1>8 DEF IInv, TypeOK
  <1>11. \A u \in Tasks : Inside(u)' /\ key[u] = k => u \in Users(l)'
    BY <1>1, <1>2, <1>4 DEF IInv, UsersShareEntry, Users
  <1>12. UsersShareEntry'
    <2>1. ASSUME NEW u \in Tasks, Inside(u)'
          PROVE  key'[u] \in Keys /\ entryOf'[u] \in Tasks /\ entries'[key'[u]] = entryOf'[u]
      <3>1. Inside(u)
        BY <2>1, <1>4
      <3>2. key[u] = k => Users(l)' # {}
        BY <2>1, <1>11
      <3> QED
        BY <3>1, <3>2, <1>2, <1>10 DEF IInv, UsersShareEntry
    <2>2. \A i, j \in Keys : entries'[i] = entries'[j] /\ entries'[i] # None => i = j
      BY <1>10 DEF IInv, UsersShareEntry
    <2> QED
      BY <2>1, <2>2 DEF UsersShareEntry
  <1>13. CountsUsers'
    <2>1. \A m \in Tasks : m # l => Users(m)' = Users(m)
      BY <1>2, <1>4 DEF Users
    <2>2. \A m \in Tasks : refCount'[m] = Cardinality(Users(m)')
      BY <2>1, <1>3, <1>7 DEF IInv, TypeOK, CountsUsers
    <2>3. ASSUME NEW j \in Keys, entries'[j] # None
          PROVE  \E u \in Tasks : Inside(u)' /\ key'[u] = j
      <3>1. CASE j = k
        <4>1. PICK u \in Tasks : Inside(u)' /\ entryOf'[u] = l
          BY <2>3, <3>1, <1>10 DEF Users
        <4>2. entryOf[u] = l /\ Inside(u)
          BY <4>1, <1>2, <1>4
        <4>3. key[u] = k
          BY <4>2, <1>1 DEF IInv, UsersShareEntry
        <4> QED
          BY <4>1, <4>3, <3>1, <1>2
      <3>2. CASE j # k
        <4>1. PICK u \in Tasks : Inside(u) /\ key[u] = j
          BY <2>3, <3>2, <1>10 DEF IInv, CountsUsers
        <4> QED
          BY <4>1, <3>2, <1>2, <1>4
      <3> QED
        BY <3>1, <3>2
    <2> QED
      BY <2>2, <2>3 DEF CountsUsers
  <1>14. IdleCreatedNothing'
    <2>1. pc[l] # "idle"
      BY <1>1 DEF IInv, IdleCreatedNothing
    <2> QED
      BY <2>1, <1>2, <1>4, <1>10 DEF IInv, TypeOK, IdleCreatedNothing
  <1>15. LockHeldWhileRunning'
    <2>1. \A u \in Tasks : u # t /\ pc[u] = "running" => entryOf[u] # l
      BY <1>1 DEF IInv, LockHeldWhileRunning
    <2> QED
      BY <2>1, <1>2 DEF IInv, TypeOK, LockHeldWhileRunning, UsersShareEntry, Inside
  <1>16. WokenWhileFree'
    <2>1. \A m \in Tasks : woken'[m] => ~locked'[m] /\ waiters'[m] # <<>>
      BY <1>2 DEF IInv, TypeOK, WokenWhileFree
    <2>2. ASSUME NEW m \in Tasks, NEW i \in 1..Len(waiters[m])
          PROVE  /\ pc'[waiters[m][i]] = "waiting" /\ entryOf'[waiters[m][i]] = m
                 /\ \A j \in 1..Len(waiters[m]) : waiters[m][i] = waiters[m][j] => i = j
      <3>1. waiters[m] \in Seq(Tasks) /\ waiters[m][i] \in Tasks
        BY DEF IInv, TypeOK
      <3>2. pc[waiters[m][i]] = "waiting" /\ entryOf[waiters[m][i]] = m
        BY DEF IInv, WokenWhileFree
      <3>3. \A j \in 1..Len(waiters[m]) : waiters[m][i] = waiters[m][j] => i = j
        BY DEF IInv, WokenWhileFree
      <3> QED
        BY <3>1, <3>2, <3>3, <1>1, <1>2, <1>4
    <2> QED
      BY <2>1, <2>2, <1>2 DEF WokenWhileFree
  <1> QED
    BY <1>9, <1>12, <1>13, <1>14, <1>15, <1>16 DEF IInv

(* A step that changes nothing keeps the invariant.                        *)
LEMMA StutterKeepsIInv == IInv /\ UNCHANGED vars => IInv'
  <1> SUFFICES ASSUME IInv, UNCHANGED vars PROVE IInv'
    OBVIOUS
  <1> QED
    BY DEF vars, IInv, TypeOK, UsersShareEntry, CountsUsers, IdleCreatedNothing,
           LockHeldWhileRunning, WokenWhileFree, Inside, Users

-----------------------------------------------------------------------------
(* The inductive invariant: the entry table, its counts and the locks      *)
(* agree with where the calls of run are.                                  *)
THEOREM Invariance == Spec => []IInv
  <1>1. IInv /\ [Next]_vars => IInv'
    BY RunKeepsIInv, EnterKeepsIInv, LeaveKeepsIInv, StutterKeepsIInv DEF Next
  <1> QED
    BY <1>1, InitIInv, PTL DEF Spec

(* session_executor.py keeps every variable in its type; in particular a   *)
(* reference count is never negative.                                      *)
THEOREM TypeCorrect == Spec => []TypeOK
  <1>1. IInv => TypeOK
    BY DEF IInv
  <1> QED
    BY <1>1, Invariance, PTL

(* SessionExecutor.run never runs two operations of one session at a time, *)
(* however many calls and sessions there are.                              *)
THEOREM MutualExclusion == Spec => []OneOperationPerSession
  <1>1. IInv => OneOperationPerSession
    BY DEF IInv, OneOperationPerSession, UsersShareEntry, LockHeldWhileRunning, Inside
  <1> QED
    BY <1>1, Invariance, PTL

(* A key has an entry exactly while a call of run for it is in progress.   *)
THEOREM EntriesNeitherLeakNorVanish == Spec => []EntriesTrackUsers
  <1>1. IInv => EntriesTrackUsers
    BY DEF IInv, EntriesTrackUsers, UsersShareEntry, CountsUsers
  <1> QED
    BY <1>1, Invariance, PTL

-----------------------------------------------------------------------------
(* The executor implements the queue of SessionQueue, for any calls and    *)
(* keys.  Its variables, as the refinement mapping sees them.              *)
Waiting == [k \in Keys |-> IF entries[k] = None THEN <<>> ELSE waiters[entries[k]]]
InService == [k \in Keys |->
                IF \E t \in Tasks : pc[t] = "running" /\ key[t] = k
                THEN CHOOSE t \in Tasks : pc[t] = "running" /\ key[t] = k
                ELSE None]
Over == {t \in Tasks : pc[t] = "done"}

(* A session's server is the task that runs for it, if any does.           *)
ServesRunning ==
  \A k \in Keys :
    /\ \A t \in Tasks : pc[t] = "running" /\ key[t] = k => InService[k] = t
    /\ (\A t \in Tasks : ~(pc[t] = "running" /\ key[t] = k)) => InService[k] = None

LEMMA RunningIsServed == OneOperationPerSession => ServesRunning
  <1> SUFFICES ASSUME OneOperationPerSession, NEW k \in Keys
               PROVE  /\ \A t \in Tasks : pc[t] = "running" /\ key[t] = k => InService[k] = t
                      /\ (\A t \in Tasks : ~(pc[t] = "running" /\ key[t] = k)) => InService[k] = None
    BY DEF ServesRunning
  <1> DEFINE Runs(t) == pc[t] = "running" /\ key[t] = k
             server == CHOOSE t \in Tasks : Runs(t)
  <1>1. InService[k] = IF \E t \in Tasks : Runs(t) THEN server ELSE None
    BY DEF InService
  <1>2. ASSUME NEW t \in Tasks, Runs(t)
        PROVE  server = t
    <2>1. server \in Tasks /\ Runs(server)
      BY <1>2
    <2> QED
      BY <1>2, <2>1 DEF OneOperationPerSession
  <1> QED
    BY <1>1, <1>2

LEMMA RunningFacts == IInv => OneOperationPerSession /\ ServesRunning
  <1>1. IInv => OneOperationPerSession
    BY DEF IInv, OneOperationPerSession, UsersShareEntry, LockHeldWhileRunning, Inside
  <1> QED
    BY <1>1, RunningIsServed

(* A step that changes what runs for one session changes one server.       *)
LEMMA ServerChanges ==
  ASSUME ServesRunning, ServesRunning', NEW k \in Keys, NEW s,
         \A t \in Tasks : \A j \in Keys : j # k =>
           ((pc'[t] = "running" /\ key'[t] = j) <=> (pc[t] = "running" /\ key[t] = j)),
         InService'[k] = s
  PROVE  InService' = [InService EXCEPT ![k] = s]
  <1>1. ASSUME NEW j \in Keys, j # k
        PROVE  InService'[j] = InService[j]
    <2>1. CASE \E t \in Tasks : pc[t] = "running" /\ key[t] = j
      BY <1>1, <2>1 DEF ServesRunning
    <2>2. CASE \A t \in Tasks : ~(pc[t] = "running" /\ key[t] = j)
      BY <1>1, <2>2 DEF ServesRunning
    <2> QED
      BY <2>1, <2>2
  <1>2. /\ InService = [j \in Keys |-> InService[j]]
        /\ InService' = [j \in Keys |-> InService'[j]]
    BY DEF InService
  <1> QED
    BY <1>1, <1>2

(* run that starts at once, or queues: nothing of its session is in the    *)
(* way, or something is.                                                   *)
LEMMA RunSubmits ==
  ASSUME IInv, IInv', NEW t \in Tasks, NEW k \in Keys, Run(t, k)
  PROVE  /\ t \notin Over /\ Over' = Over
         /\ \A j \in Keys : InService[j] # t /\ \A i \in 1..Len(Waiting[j]) : Waiting[j][i] # t
         /\ \/ /\ Waiting[k] = <<>> /\ InService[k] = None
               /\ InService' = [InService EXCEPT ![k] = t] /\ Waiting' = Waiting
            \/ /\ ~(Waiting[k] = <<>> /\ InService[k] = None)
               /\ Waiting' = [Waiting EXCEPT ![k] = Append(@, t)] /\ InService' = InService
  <1>1. ServesRunning /\ ServesRunning'
    BY RunningFacts, PTL
  <1> PICK l \in Tasks : l = RetainedEntry(t, k)
    BY DEF IInv, TypeOK, RetainedEntry
  <1>2. /\ pc[t] = "idle" /\ (entries[k] # None => entries[k] = l) /\ (l # t => entries[k] = l)
        /\ entries' = [entries EXCEPT ![k] = l]
        /\ \A u \in Tasks : u # t => pc'[u] = pc[u] /\ key'[u] = key[u]
        /\ key'[t] = k
    BY DEF Run, RetainEntry, RetainedEntry, IInv, TypeOK
  <1>3. t \notin Over /\ Over' = Over
    BY <1>2 DEF Over, Run, IInv, TypeOK
  <1>4. ASSUME NEW j \in Keys
        PROVE  InService[j] # t /\ \A i \in 1..Len(Waiting[j]) : Waiting[j][i] # t
    <2>1. InService[j] # t
      BY <1>1, <1>2 DEF ServesRunning
    <2>2. ASSUME entries[j] # None, NEW i \in 1..Len(waiters[entries[j]])
          PROVE  waiters[entries[j]][i] # t
      <3>1. entries[j] \in Tasks
        BY <2>2 DEF IInv, TypeOK
      <3> QED
        BY <1>2, <2>2, <3>1 DEF IInv, WokenWhileFree
    <2> QED
      BY <2>1, <2>2 DEF Waiting
  <1>5. /\ \A j \in Keys : j # k => entries'[j] = entries[j] /\ entries[j] # l
        /\ entries'[k] = l
        /\ entries[k] = None => waiters[l] = <<>> /\ ~locked[l]
    BY <1>2 DEF IInv, TypeOK, UsersShareEntry, IdleCreatedNothing
  <1>6. \A u \in Tasks : pc[u] = "running" /\ key[u] = k => entryOf[u] = l
    BY <1>2 DEF IInv, UsersShareEntry, Inside
  <1>7. waiters \in [Tasks -> Seq(Tasks)] /\ entries \in [Keys -> Tasks \cup {None}]
    BY DEF IInv, TypeOK
  <1>8. Waiting[k] = waiters[l]
    BY <1>2, <1>5 DEF Waiting
  <1>9. CASE CanAcquire(l)
    <2>1. pc'[t] = "running" /\ waiters' = waiters /\ waiters[l] = <<>> /\ ~locked[l]
      BY <1>9 DEF Run, CanAcquire, IInv, TypeOK
    <2>2. InService[k] = None
      BY <1>1, <1>6, <2>1 DEF ServesRunning, IInv, LockHeldWhileRunning
    <2>3. InService'[k] = t
      BY <1>1, <1>2, <2>1 DEF ServesRunning
    <2>4. InService' = [InService EXCEPT ![k] = t]
      BY <1>1, <1>2, <2>3, ServerChanges
    <2>5. Waiting' = Waiting
      BY <1>5, <1>8, <2>1, NoneAssumption DEF Waiting
    <2> QED
      BY <1>3, <1>4, <1>8, <2>1, <2>2, <2>4, <2>5
  <1>10. CASE ~CanAcquire(l)
    <2>1. /\ pc'[t] = "waiting" /\ waiters' = [waiters EXCEPT ![l] = Append(@, t)]
          /\ waiters[l] # <<>> \/ locked[l]
      BY <1>10 DEF Run, CanAcquire, IInv, TypeOK
    <2>2. entries[k] = l
      BY <1>2, <1>5, <2>1
    <2>3. ASSUME locked[l]
          PROVE  InService[k] # None
      <3>1. PICK u \in Tasks : pc[u] = "running" /\ entryOf[u] = l
        BY <2>3 DEF IInv, LockHeldWhileRunning
      <3>2. key[u] = k
        BY <2>2, <3>1, NoneAssumption DEF IInv, UsersShareEntry, Inside
      <3> QED
        BY <1>1, <3>1, <3>2, NoneAssumption DEF ServesRunning
    <2>4. ~(Waiting[k] = <<>> /\ InService[k] = None)
      BY <1>8, <2>1, <2>3
    <2>5. Waiting' = [Waiting EXCEPT ![k] = Append(@, t)]
      <3>1. Waiting'[k] = Append(Waiting[k], t)
        BY <1>5, <1>7, <1>8, <2>1, NoneAssumption DEF Waiting
      <3>2. \A j \in Keys : j # k => Waiting'[j] = Waiting[j]
        BY <1>5, <1>7, <2>1 DEF Waiting
      <3>3. Waiting = [j \in Keys |-> Waiting[j]] /\ Waiting' = [j \in Keys |-> Waiting'[j]]
        BY DEF Waiting
      <3> QED
        BY <3>1, <3>2, <3>3
    <2>6. \A u \in Tasks : \A j \in Keys :
            (pc'[u] = "running" /\ key'[u] = j) <=> (pc[u] = "running" /\ key[u] = j)
      BY <1>2, <2>1
    <2>7. InService' = InService
      <3>1. InService'[k] = InService[k]
        BY <1>1, <2>6 DEF ServesRunning
      <3>2. InService' = [InService EXCEPT ![k] = InService[k]]
        BY <1>1, <2>6, <3>1, ServerChanges
      <3> QED
        BY <3>2 DEF InService
    <2> QED
      BY <1>3, <1>4, <2>4, <2>5, <2>7
  <1> QED
    BY <1>9, <1>10

(* The waiter that takes the lock is the first of its session's queue.     *)
LEMMA EnterServes ==
  ASSUME IInv, IInv', NEW t \in Tasks, Enter(t)
  PROVE  \E k \in Keys :
           /\ InService[k] = None /\ Waiting[k] # <<>> /\ Head(Waiting[k]) = t
           /\ InService' = [InService EXCEPT ![k] = t]
           /\ Waiting' = [Waiting EXCEPT ![k] = Tail(@)]
           /\ Over' = Over
  <1>1. ServesRunning /\ ServesRunning'
    BY RunningFacts, PTL
  <1> PICK k \in Keys : k = key[t]
    BY DEF IInv, UsersShareEntry, Inside, Enter
  <1> PICK l \in Tasks : l = entryOf[t] /\ l = entries[k]
    BY DEF IInv, UsersShareEntry, Inside, Enter
  <1>2. /\ pc[t] = "waiting" /\ woken[l] /\ Head(waiters[l]) = t
        /\ waiters' = [waiters EXCEPT ![l] = Tail(@)] /\ UNCHANGED <<entries, key, entryOf>>
        /\ pc' = [pc EXCEPT ![t] = "running"]
    BY DEF Enter, tableVars
  <1>3. waiters[l] # <<>> /\ ~locked[l]
    BY <1>2 DEF IInv, WokenWhileFree
  <1>4. waiters \in [Tasks -> Seq(Tasks)] /\ pc \in [Tasks -> {"idle", "waiting", "running", "done"}]
    BY DEF IInv, TypeOK
  <1>5. Waiting[k] = waiters[l] /\ \A j \in Keys : j # k => entries[j] # l
    BY NoneAssumption DEF Waiting, IInv, UsersShareEntry
  <1>6. InService[k] = None
    <2>1. \A u \in Tasks : pc[u] = "running" /\ key[u] = k => entryOf[u] = l
      BY DEF IInv, UsersShareEntry, Inside
    <2> QED
      BY <1>1, <1>3, <2>1 DEF ServesRunning, IInv, LockHeldWhileRunning
  <1>7. pc'[t] = "running" /\ \A u \in Tasks : u # t => pc'[u] = pc[u]
    BY <1>2, <1>4
  <1>8. InService' = [InService EXCEPT ![k] = t]
    <2>1. InService'[k] = t
      BY <1>1, <1>2, <1>7 DEF ServesRunning
    <2> QED
      BY <1>1, <1>2, <1>7, <2>1, ServerChanges
  <1>9. Waiting' = [Waiting EXCEPT ![k] = Tail(@)]
    <2>1. Waiting'[k] = Tail(waiters[l])
      BY <1>2, <1>4, NoneAssumption DEF Waiting
    <2>2. \A j \in Keys : j # k => Waiting'[j] = Waiting[j]
      <3>1. \A m \in Tasks : m # l => waiters'[m] = waiters[m]
        BY <1>2, <1>4
      <3>2. \A j \in Keys : entries[j] \in Tasks \cup {None}
        BY DEF IInv, TypeOK
      <3> QED
        BY <1>2, <1>5, <3>1, <3>2 DEF Waiting
    <2>3. Waiting = [j \in Keys |-> Waiting[j]] /\ Waiting' = [j \in Keys |-> Waiting'[j]]
      BY DEF Waiting
    <2> QED
      BY <1>5, <2>1, <2>2, <2>3
  <1>10. Over' = Over
    BY <1>2, <1>7 DEF Over
  <1> QED
    BY <1>2, <1>3, <1>5, <1>6, <1>8, <1>9, <1>10

(* The operation that ends was its session's server; an entry is dropped   *)
(* only when its queue is empty.                                           *)
LEMMA LeaveFinishes ==
  ASSUME IInv, IInv', NEW t \in Tasks, Leave(t)
  PROVE  \E k \in Keys :
           /\ InService[k] = t /\ InService' = [InService EXCEPT ![k] = None]
           /\ Over' = Over \cup {t} /\ Waiting' = Waiting
  <1>1. ServesRunning /\ ServesRunning' /\ OneOperationPerSession
    BY RunningFacts, PTL
  <1> PICK k \in Keys : k = key[t]
    BY DEF IInv, UsersShareEntry, Inside, Leave
  <1> PICK l \in Tasks : l = entryOf[t] /\ l = entries[k]
    BY DEF IInv, UsersShareEntry, Inside, Leave
  <1>2. /\ pc[t] = "running" /\ UNCHANGED <<waiters, key, entryOf>>
        /\ pc' = [pc EXCEPT ![t] = "done"] /\ entries' \in {entries, [entries EXCEPT ![k] = None]}
    BY NoneAssumption DEF Leave, Release, ReleaseEntry, tableVars
  <1>3. /\ pc \in [Tasks -> {"idle", "waiting", "running", "done"}]
        /\ entries \in [Keys -> Tasks \cup {None}] /\ waiters \in [Tasks -> Seq(Tasks)]
    BY DEF IInv, TypeOK
  <1>4. pc'[t] = "done" /\ \A u \in Tasks : u # t => pc'[u] = pc[u]
    BY <1>2, <1>3
  <1>5. InService[k] = t
    BY <1>1, <1>2 DEF ServesRunning
  <1>6. InService' = [InService EXCEPT ![k] = None]
    <2>1. \A u \in Tasks : ~(pc'[u] = "running" /\ key'[u] = k)
      BY <1>1, <1>2, <1>4 DEF OneOperationPerSession
    <2>2. InService'[k] = None
      BY <1>1, <2>1 DEF ServesRunning
    <2> QED
      BY <1>1, <1>2, <1>4, <2>2, ServerChanges
  <1>7. entries'[k] = None => waiters[l] = <<>>
    <2>1. ASSUME waiters[l] # <<>>, entries'[k] = None
          PROVE  FALSE
      <3>1. PICK u \in Tasks : u = waiters[l][1] /\ 1 \in 1..Len(waiters[l])
        BY <1>3, <2>1
      <3>2. pc[u] = "waiting" /\ entryOf[u] = l
        BY <3>1 DEF IInv, WokenWhileFree
      <3>3. key[u] = k
        BY <3>2, NoneAssumption DEF IInv, UsersShareEntry, Inside
      <3>4. Inside(u)' /\ key'[u] = k /\ entryOf'[u] = l
        BY <1>2, <1>4, <3>2, <3>3 DEF Inside
      <3>5. entries'[k] = l
        BY <3>4 DEF IInv, UsersShareEntry
      <3> QED
        BY <2>1, <3>5, NoneAssumption
    <2> QED
      BY <2>1
  <1>8. Waiting' = Waiting
    BY <1>2, <1>3, <1>7, NoneAssumption DEF Waiting
  <1>9. Over' = Over \cup {t}
    BY <1>4 DEF Over
  <1> QED
    BY <1>5, <1>6, <1>8, <1>9

(* The executor keeps the promise of SessionQueue: operations of a session *)
(* are served one at a time, in the order in which run was called.         *)
THEOREM ImplementsQueue == Spec => ServesInArrivalOrder
  <1>1. Init => Queue!Init
    <2> SUFFICES ASSUME Init
                 PROVE  Waiting = [k \in Keys |-> <<>>] /\ InService = [k \in Keys |-> None] /\ Over = {}
      BY DEF Queue!Init, Waiting, InService, Over
    <2> QED
      BY DEF Init, Waiting, InService, Over
  <1>2. IInv /\ IInv' /\ [Next]_vars => [Queue!Next]_Queue!vars
    <2>1. ASSUME IInv, IInv', NEW t \in Tasks, NEW k \in Keys, Run(t, k)
          PROVE  Queue!Next
      <3>1. Queue!SubmitNow(t, k) \/ Queue!SubmitLater(t, k)
        BY <2>1, RunSubmits DEF Queue!SubmitNow, Queue!SubmitLater, Queue!Fresh, Queue!Free,
           Waiting, InService, Over
      <3> QED
        BY <3>1 DEF Queue!Next
    <2>2. ASSUME IInv, IInv', NEW t \in Tasks, Enter(t)
          PROVE  Queue!Next
      <3>1. PICK k \in Keys :
              /\ InService[k] = None /\ Waiting[k] # <<>> /\ Head(Waiting[k]) = t
              /\ InService' = [InService EXCEPT ![k] = t]
              /\ Waiting' = [Waiting EXCEPT ![k] = Tail(@)]
              /\ Over' = Over
        BY <2>2, EnterServes
      <3>2. Queue!Serve(t, k)
        BY <3>1 DEF Queue!Serve, Queue!CanServe, Waiting, InService, Over
      <3> QED
        BY <3>2 DEF Queue!Next
    <2>3. ASSUME IInv, IInv', NEW t \in Tasks, Leave(t)
          PROVE  Queue!Next
      <3>1. PICK k \in Keys :
              /\ InService[k] = t /\ InService' = [InService EXCEPT ![k] = None]
              /\ Over' = Over \cup {t} /\ Waiting' = Waiting
        BY <2>3, LeaveFinishes
      <3>2. Queue!Finish(t, k)
        BY <3>1 DEF Queue!Finish, Waiting, InService, Over
      <3> QED
        BY <3>2 DEF Queue!Next
    <2>4. UNCHANGED vars => UNCHANGED Queue!vars
      BY DEF vars, Queue!vars
    <2> QED
      BY <2>1, <2>2, <2>3, <2>4 DEF Next
  <1> QED
    BY <1>1, <1>2, Invariance, PTL DEF Spec, ServesInArrivalOrder, Queue!Spec
=============================================================================
