--------------------------- MODULE TaskPool_proofs ---------------------------
(***************************************************************************)
(* The promise of TaskPool for every number of workers, tasks and places   *)
(* in the queue.                                                           *)
(***************************************************************************)
EXTENDS TaskPool, TLAPS

(* What Tail leaves of a sequence, element by element.                     *)
LEMMA TailElements ==
    ASSUME NEW S, NEW s \in Seq(S), s # <<>>
    PROVE  /\ Len(s) \in Nat /\ Len(s) > 0
           /\ Head(s) = s[1]
           /\ Len(Tail(s)) = Len(s) - 1
           /\ \A i \in 1..Len(s) - 1 : Tail(s)[i] = s[i + 1]
  OBVIOUS

(* What Append makes of a sequence, element by element.                    *)
LEMMA AppendElements ==
    ASSUME NEW S, NEW s \in Seq(S), NEW e
    PROVE  /\ Len(s) \in Nat
           /\ Len(Append(s, e)) = Len(s) + 1
           /\ Append(s, e)[Len(s) + 1] = e
           /\ \A i \in 1..Len(s) : Append(s, e)[i] = s[i]
  OBVIOUS

(* TaskQueue.cc and Threadpool.cc keep tasks in the queue and tasks in the *)
(* hands of the workers: the variables stay in their types.                *)
THEOREM TypeCorrect == Spec => []TypeOK
<1>1. Init => TypeOK
  BY DEF Init, TypeOK
<1>2. TypeOK /\ [Next]_vars => TypeOK'
  <2> SUFFICES ASSUME TypeOK, [Next]_vars PROVE TypeOK'
    OBVIOUS
  <2>1. ASSUME NEW t \in Tasks, Submit(t) PROVE TypeOK'
    BY <2>1 DEF Submit, TypeOK
  <2>2. ASSUME NEW w \in Workers, Take(w) PROVE TypeOK'
    BY <2>2 DEF Take, TypeOK
  <2>3. ASSUME NEW w \in Workers, Finish(w) PROVE TypeOK'
    BY <2>3 DEF Finish, TypeOK
  <2>4. CASE UNCHANGED vars
    BY <2>4 DEF vars, TypeOK
  <2> QED
    BY <2>1, <2>2, <2>3, <2>4 DEF Next
<1> QED
  BY <1>1, <1>2, PTL DEF Spec

LEMMA SubmitKeeps ==
    ASSUME TypeOK, ExactlyOnce, NEW t \in Tasks, Submit(t)
    PROVE  ExactlyOnce'
<1> USE DEF ExactlyOnce
<1>1. buffer \in Seq(Tasks) /\ buffer' = Append(buffer, t)
  BY DEF TypeOK, Submit
<1>2. Queued' = Queued \cup {t}
  BY <1>1, AppendElements DEF Queued
<1>3. Running' = Running /\ finished' = finished
  BY DEF Submit, Running
<1>4. t \notin Queued \cup Running \cup finished
  BY DEF Submit, Accounted
<1>5. Accounted' /\ InOnePlace'
  BY <1>2, <1>3, <1>4 DEF Accounted, InOnePlace, Submit
<1>6. QueuedOnce'
  <2>1. \A i \in 1..Len(buffer) : buffer[i] # t
    BY <1>4 DEF Queued
  <2> QED
    BY <1>1, <2>1, AppendElements DEF QueuedOnce
<1>7. RunningOnce'
  BY DEF RunningOnce, Submit
<1> QED
  BY <1>5, <1>6, <1>7

LEMMA TakeKeeps ==
    ASSUME NoTask \notin Tasks, TypeOK, ExactlyOnce, NEW w \in Workers, Take(w)
    PROVE  ExactlyOnce'
<1> DEFINE t == Head(buffer)
<1> USE DEF ExactlyOnce
<1>1. buffer \in Seq(Tasks) /\ buffer # <<>> /\ buffer' = Tail(buffer)
  BY DEF TypeOK, Take
<1>2. t = buffer[1] /\ t \in Queued /\ t # NoTask
  <2>1. t = buffer[1] /\ t \in Queued
    BY <1>1, TailElements DEF Queued
  <2> QED
    BY <1>1, <2>1
<1>3. Queued = Queued' \cup {t}
  <2>1. ASSUME NEW i \in 1..Len(buffer) PROVE buffer[i] \in Queued' \cup {t}
    <3>1. CASE i = 1
      BY <1>2, <3>1
    <3>2. CASE i # 1
      <4>1. i - 1 \in 1..Len(buffer') /\ buffer'[i - 1] = buffer[i]
        BY <1>1, <3>2, TailElements
      <4> QED
        BY <4>1 DEF Queued
    <3> QED
      BY <3>1, <3>2
  <2>2. ASSUME NEW i \in 1..Len(buffer') PROVE buffer'[i] \in Queued
    <3>1. i + 1 \in 1..Len(buffer) /\ buffer'[i] = buffer[i + 1]
      BY <1>1, TailElements
    <3> QED
      BY <3>1 DEF Queued
  <2> HIDE DEF t
  <2> QED
    BY <1>2, <2>1, <2>2 DEF Queued
<1>4. t \notin Queued'
  <2>1. ASSUME NEW i \in 1..Len(buffer'), buffer'[i] = t PROVE FALSE
    <3>1. i + 1 \in 1..Len(buffer) /\ 1 \in 1..Len(buffer) /\ i + 1 # 1
      BY <1>1, TailElements
    <3>2. buffer[i + 1] = buffer[1]
      BY <1>1, <1>2, <2>1, TailElements
    <3> QED
      BY <3>1, <3>2 DEF QueuedOnce
  <2> QED
    BY <2>1 DEF Queued
<1>5. /\ busy \in [Workers -> Tasks \cup {NoTask}] /\ busy[w] = NoTask
      /\ busy' = [busy EXCEPT ![w] = t]
  BY DEF TypeOK, Take
<1> HIDE DEF t
<1>6. Running' = Running \cup {t}
  BY <1>2, <1>5 DEF Running
<1>7. Accounted' /\ InOnePlace'
  BY <1>2, <1>3, <1>4, <1>6 DEF Accounted, InOnePlace, Take
<1>8. QueuedOnce'
  <2>1. ASSUME NEW i \in 1..Len(buffer'), NEW j \in 1..Len(buffer'),
               buffer'[i] = buffer'[j]
        PROVE  i = j
    <3>1. /\ i + 1 \in 1..Len(buffer) /\ buffer'[i] = buffer[i + 1]
          /\ j + 1 \in 1..Len(buffer) /\ buffer'[j] = buffer[j + 1]
      BY <1>1, TailElements
    <3>2. i + 1 = j + 1
      BY <2>1, <3>1 DEF QueuedOnce
    <3> QED
      BY <3>2
  <2> QED
    BY <2>1 DEF QueuedOnce
<1>9. RunningOnce'
  <2>1. t \notin Running
    BY <1>2 DEF InOnePlace
  <2>2. \A v \in Workers : busy[v] # t
    BY <1>2, <2>1 DEF Running
  <2> QED
    BY <1>5, <2>2 DEF RunningOnce
<1> QED
  BY <1>7, <1>8, <1>9

LEMMA FinishKeeps ==
    ASSUME TypeOK, ExactlyOnce, NEW w \in Workers, Finish(w)
    PROVE  ExactlyOnce'
<1> USE DEF ExactlyOnce
<1>1. /\ busy \in [Workers -> Tasks \cup {NoTask}] /\ busy[w] # NoTask
      /\ busy' = [busy EXCEPT ![w] = NoTask]
  BY DEF TypeOK, Finish
<1>2. busy[w] \in Running /\ busy[w] \notin Running'
  BY <1>1 DEF Running, RunningOnce
<1>3. Running = Running' \cup {busy[w]}
  BY <1>1 DEF Running
<1>4. Queued' = Queued /\ finished' = finished \cup {busy[w]}
  BY DEF Queued, Finish
<1>5. Accounted' /\ InOnePlace'
  BY <1>2, <1>3, <1>4 DEF Accounted, InOnePlace, Finish
<1>6. QueuedOnce'
  BY DEF QueuedOnce, Finish
<1>7. RunningOnce'
  BY <1>1 DEF RunningOnce
<1> QED
  BY <1>5, <1>6, <1>7

(* Threadpool.cc:57-78: an accepted task is in one place, once.            *)
THEOREM TasksExactlyOnce ==
    ASSUME NoTask \notin Tasks
    PROVE  Spec => []ExactlyOnce
<1>1. Init => ExactlyOnce
  <2> SUFFICES ASSUME Init PROVE ExactlyOnce
    OBVIOUS
  <2>1. Queued = {} /\ Running = {}
    BY DEF Init, Queued, Running
  <2> QED
    BY <2>1 DEF Init, ExactlyOnce, Accounted, InOnePlace, QueuedOnce, RunningOnce
<1>2. TypeOK /\ ExactlyOnce /\ [Next]_vars => ExactlyOnce'
  <2>1. ASSUME ExactlyOnce, UNCHANGED vars PROVE ExactlyOnce'
    BY <2>1 DEF vars, ExactlyOnce, Accounted, InOnePlace, QueuedOnce,
                RunningOnce, Queued, Running
  <2> QED
    BY <2>1, SubmitKeeps, TakeKeeps, FinishKeeps DEF Next
<1> QED
  BY <1>1, <1>2, TypeCorrect, PTL DEF Spec
=============================================================================
