---------------------------- MODULE SessionQueue ----------------------------
(***************************************************************************)
(* What SessionExecutor.run promises its callers: each session key has one *)
(* first-come-first-served queue and one server.  A submitted operation is *)
(* served at once when nothing of its session is queued or being served,   *)
(* otherwise it waits its turn.  Nothing here is a lock: SessionExecutor   *)
(* implements this specification with reference-counted asyncio locks, and *)
(* TurnDispatch uses it for the executor of the running program.           *)
(***************************************************************************)
EXTENDS Naturals, Sequences

CONSTANTS
  Tasks,   \* calls of SessionExecutor.run, one asyncio task each
  Keys,    \* session_scope_key values
  None     \* no task

VARIABLES
  queue,    \* queue[k]: tasks of session k that wait, oldest first
  serving,  \* serving[k]: the task whose operation runs for session k
  served    \* tasks whose operation is over

vars == <<queue, serving, served>>

Init ==
  /\ queue = [k \in Keys |-> <<>>]
  /\ serving = [k \in Keys |-> None]
  /\ served = {}

Fresh(t) ==
  /\ t \notin served
  /\ \A k \in Keys : serving[k] # t /\ \A i \in 1..Len(queue[k]) : queue[k][i] # t

AlwaysFree(k) == TRUE  \* mutant: operations of one session overlap

Free(k) == queue[k] = <<>> /\ serving[k] = None

(* The operation starts at once and suspends.                              *)
SubmitNow(t, k) ==
  /\ Fresh(t) /\ Free(k)
  /\ serving' = [serving EXCEPT ![k] = t]
  /\ UNCHANGED <<queue, served>>

(* The operation starts at once and is over before it ever suspends.       *)
SubmitBrief(t, k) ==
  /\ Fresh(t) /\ Free(k)
  /\ served' = served \cup {t}
  /\ UNCHANGED <<queue, serving>>

SubmitLater(t, k) ==
  /\ Fresh(t) /\ ~Free(k)
  /\ queue' = [queue EXCEPT ![k] = Append(@, t)]
  /\ UNCHANGED <<serving, served>>

CanServe(t, k) == serving[k] = None /\ queue[k] # <<>> /\ Head(queue[k]) = t

Serve(t, k) ==
  /\ CanServe(t, k)
  /\ serving' = [serving EXCEPT ![k] = t]
  /\ queue' = [queue EXCEPT ![k] = Tail(@)]
  /\ UNCHANGED served

ServeBrief(t, k) ==
  /\ CanServe(t, k)
  /\ served' = served \cup {t}
  /\ queue' = [queue EXCEPT ![k] = Tail(@)]
  /\ UNCHANGED serving

Finish(t, k) ==
  /\ serving[k] = t
  /\ served' = served \cup {t}
  /\ serving' = [serving EXCEPT ![k] = None]
  /\ UNCHANGED queue

Next ==
  \E k \in Keys, t \in Tasks :
    \/ SubmitNow(t, k) \/ SubmitBrief(t, k) \/ SubmitLater(t, k)
    \/ Serve(t, k) \/ ServeBrief(t, k)
    \/ Finish(t, k)

Spec == Init /\ [][Next]_vars
=============================================================================
