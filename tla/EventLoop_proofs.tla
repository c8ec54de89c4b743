--------------------------- MODULE EventLoop_proofs ---------------------------
(***************************************************************************)
(* The hand-over of functors to the IO thread, for any number of threads   *)
(* and functors.                                                           *)
(***************************************************************************)
EXTENDS EventLoop, SequenceTheorems, TLAPS

-----------------------------------------------------------------------------
(* Sequences: moving the border between two parts of a concatenation.      *)

LEMMA AppendConcat ==
    ASSUME NEW S, NEW s \in Seq(S), NEW t \in Seq(S), NEW e \in S
    PROVE  s \o Append(t, e) = Append(s \o t, e)
<1>1. <<e>> \in Seq(S) /\ s \o t \in Seq(S)
  BY ConcatProperties
<1>2. Append(t, e) = t \o <<e>> /\ Append(s \o t, e) = (s \o t) \o <<e>>
  BY <1>1, AppendIsConcat
<1> QED
  BY <1>1, <1>2, ConcatAssociative

LEMMA HeadConcat ==
    ASSUME NEW S, NEW s \in Seq(S), NEW t \in Seq(S), NEW u \in Seq(S), t # <<>>
    PROVE  Append(s, Head(t)) \o (Tail(t) \o u) = s \o (t \o u)
<1> DEFINE h == Head(t)
<1>1. h \in S /\ <<h>> \in Seq(S) /\ Tail(t) \in Seq(S)
  BY HeadTailProperties
<1>2. t = <<h>> \o Tail(t)
  <2>1. <<h>> \o Tail(t) \in Seq(S) /\ Len(<<h>> \o Tail(t)) = Len(t)
    BY <1>1, ConcatProperties, HeadTailProperties, LenProperties
  <2>2. ASSUME NEW i \in 1..Len(t) PROVE t[i] = (<<h>> \o Tail(t))[i]
    BY <1>1, ConcatProperties, HeadTailProperties, LenProperties
  <2> HIDE DEF h
  <2> QED
    BY <2>1, <2>2, SeqEqual, SMTT(30)
<1> HIDE DEF h
<1>3. Append(s, h) = s \o <<h>>
  BY <1>1, AppendIsConcat
<1>4. (s \o <<h>>) \o (Tail(t) \o u) = s \o (<<h>> \o (Tail(t) \o u))
  <2>1. Tail(t) \o u \in Seq(S)
    BY <1>1, ConcatProperties
  <2> QED
    BY <1>1, <2>1, ConcatAssociative
<1>5. <<h>> \o (Tail(t) \o u) = (<<h>> \o Tail(t)) \o u
  BY <1>1, ConcatAssociative, SMTT(30)
<1> QED
  BY <1>2, <1>3, <1>4, <1>5 DEF h

LEMMA TailConcat ==
    ASSUME NEW S, NEW s \in Seq(S), NEW t \in Seq(S), s # <<>>
    PROVE  s \o t # <<>> /\ Head(s \o t) = Head(s) /\ Tail(s \o t) = Tail(s) \o t
<1> DEFINE both == s \o t
           rest == Tail(s) \o t
<1>1. /\ Len(s) \in Nat \ {0} /\ Len(t) \in Nat /\ Head(s) = s[1]
      /\ Tail(s) \in Seq(S) /\ Len(Tail(s)) = Len(s) - 1
      /\ \A i \in 1..Len(Tail(s)) : Tail(s)[i] = s[i + 1]
  BY HeadTailProperties, EmptySeq, LenProperties
<1>2. /\ both \in Seq(S) /\ Len(both) = Len(s) + Len(t)
      /\ \A i \in 1..Len(both) : both[i] = IF i <= Len(s) THEN s[i] ELSE t[i - Len(s)]
  BY ConcatProperties
<1>3. /\ rest \in Seq(S) /\ Len(rest) = Len(s) - 1 + Len(t)
      /\ \A i \in 1..Len(rest) : rest[i] = IF i <= Len(s) - 1 THEN s[i + 1] ELSE t[i - (Len(s) - 1)]
  BY <1>1, ConcatProperties
<1> HIDE DEF both, rest
<1>4. both # <<>> /\ Head(both) = Head(s)
  BY <1>1, <1>2, HeadTailProperties, EmptySeq
<1>5. /\ Tail(both) \in Seq(S) /\ Len(Tail(both)) = Len(both) - 1
      /\ \A i \in 1..Len(Tail(both)) : Tail(both)[i] = both[i + 1]
  BY <1>2, <1>4, HeadTailProperties
<1>6. ASSUME NEW i \in 1..Len(rest) PROVE Tail(both)[i] = rest[i]
  <2>1. i \in Nat /\ i \in 1..Len(Tail(both)) /\ i + 1 \in 1..Len(both)
    BY <1>1, <1>2, <1>3, <1>5
  <2>2. Tail(both)[i] = both[i + 1]
    BY <1>5, <2>1
  <2>3. CASE i <= Len(s) - 1
    <3>1. i + 1 <= Len(s)
      BY <1>1, <2>1, <2>3
    <3>2. both[i + 1] = s[i + 1]
      BY <1>2, <2>1, <3>1
    <3>3. rest[i] = s[i + 1]
      BY <1>3, <2>3
    <3> QED
      BY <2>2, <3>2, <3>3
  <2>4. CASE ~(i <= Len(s) - 1)
    <3>1. ~(i + 1 <= Len(s)) /\ i + 1 - Len(s) = i - (Len(s) - 1)
      BY <1>1, <2>1, <2>4
    <3>2. both[i + 1] = t[i - (Len(s) - 1)]
      BY <1>2, <2>1, <3>1
    <3>3. rest[i] = t[i - (Len(s) - 1)]
      BY <1>3, <2>4
    <3> QED
      BY <2>2, <3>2, <3>3
  <2> QED
    BY <2>3, <2>4
<1>7. Tail(both) = rest
  BY <1>1, <1>2, <1>3, <1>5, <1>6, SeqEqual
<1> QED
  BY <1>4, <1>7 DEF both, rest

-----------------------------------------------------------------------------
(* The inductive invariant.                                                *)

(* Functors are taken only after those of the last batch have been called. *)
TmpInv == pc[IO] \in LoopPC \ {"swap_unlock"} => tmp = <<>>

ArgInv == \A t \in Threads : pc[t] \in {"post_lock", "post_push"} => arg[t] \in Functors

(* EventLoop.cc:158-168: the functors are called in the order in which     *)
(* they were stored, each once.                                            *)
CalledInOrder == posted = ran \o (tmp \o pending)

IInv == TypeOK /\ TmpInv /\ ArgInv /\ NoFunctorStranded /\ CalledInOrder

LEMMA InitIInv == Init => IInv
<1> SUFFICES ASSUME Init PROVE IInv
  OBVIOUS
<1> USE EventLoopAssumption DEF Init, Threads, PostPC, LoopPC
<1>1. TypeOK
  <2>1. pc \in [Threads -> PostPC \cup LoopPC] /\ \A t \in Callers : pc[t] \in PostPC
    OBVIOUS
  <2>2. <<>> \in Seq(Functors) /\ arg \in [Threads -> Functors \cup {NoFunctor}]
    OBVIOUS
  <2> QED
    BY <2>1, <2>2 DEF TypeOK
<1>2. TmpInv /\ ArgInv /\ NoFunctorStranded
  BY DEF TmpInv, ArgInv, NoFunctorStranded
<1>3. CalledInOrder
  BY ConcatEmptySeq, EmptySeq DEF CalledInOrder
<1> QED
  BY <1>1, <1>2, <1>3 DEF IInv

LEMMA NextTypeOK == IInv /\ [Next]_vars => TypeOK'
<1> SUFFICES ASSUME IInv, [Next]_vars PROVE TypeOK'
  OBVIOUS
<1> USE DEF IInv, TypeOK, Threads, PostPC, LoopPC, Goto, Lock, Unlock
<1>1. ASSUME NEW t \in Threads, PostStep(t) PROVE TypeOK'
  <2>1. CASE PostPush(t)
    BY <2>1 DEF PostPush, ArgInv
  <2>2. CASE PostLock(t)
    BY <2>2 DEF PostLock
  <2>3. CASE PostUnlock(t)
    BY <2>3 DEF PostUnlock
  <2>4. CASE Wakeup(t)
    BY <2>4 DEF Wakeup
  <2> QED
    BY <1>1, <2>1, <2>2, <2>3, <2>4 DEF PostStep
<1>2. ASSUME NEW t \in Threads, NEW f \in Functors, RunInLoop(t, f) PROVE TypeOK'
  BY <1>2 DEF RunInLoop
<1>3. CASE LoopStep
  <2>1. CASE CallFunctor
    BY <2>1, HeadTailProperties DEF CallFunctor
  <2>2. CASE LoopStart \/ LoopCheck \/ EpollEvent \/ EpollTimeout
    BY <2>2, EventLoopAssumption DEF LoopStart, LoopCheck, EpollEvent, EpollTimeout
  <2>3. CASE HandRead \/ SwapLock \/ Swap \/ SwapUnlock \/ FunctorsDone
    <3>1. CASE Swap
      BY <3>1, EventLoopAssumption DEF Swap
    <3>2. CASE SwapLock \/ SwapUnlock
      BY <3>2, EventLoopAssumption DEF SwapLock, SwapUnlock
    <3>3. CASE HandRead
      BY <3>3, EventLoopAssumption DEF HandRead
    <3>4. CASE FunctorsDone
      BY <3>4, EventLoopAssumption DEF FunctorsDone
    <3> QED
      BY ONLY <2>3, <3>1, <3>2, <3>3, <3>4
  <2> QED
    BY <1>3, <2>1, <2>2, <2>3 DEF LoopStep
<1>4. CASE Unloop
  BY <1>4 DEF Unloop
<1>5. CASE UNCHANGED vars
  BY <1>5 DEF vars
<1> QED
  BY <1>1, <1>2, <1>3, <1>4, <1>5 DEF Next

LEMMA NextControl ==
    IInv /\ [Next]_vars => TmpInv' /\ ArgInv' /\ NoFunctorStranded'
<1> SUFFICES ASSUME IInv, [Next]_vars PROVE TmpInv' /\ ArgInv' /\ NoFunctorStranded'
  OBVIOUS
<1> USE EventLoopAssumption
    DEF IInv, TypeOK, TmpInv, ArgInv, NoFunctorStranded, Threads, PostPC, LoopPC, Goto
<1> DEFINE Goal == TmpInv /\ ArgInv /\ NoFunctorStranded
<1>1. ASSUME NEW t \in Threads, PostLock(t) PROVE Goal'
  BY <1>1 DEF PostLock
<1>2. ASSUME NEW t \in Threads, PostPush(t) PROVE Goal'
  BY <1>2 DEF PostPush
<1>3. ASSUME NEW t \in Threads, PostUnlock(t) PROVE Goal'
  BY <1>3 DEF PostUnlock
<1>4. ASSUME NEW t \in Threads, Wakeup(t) PROVE Goal'
  BY <1>4 DEF Wakeup
<1>5. ASSUME NEW t \in Threads, NEW f \in Functors, RunInLoop(t, f) PROVE Goal'
  BY <1>5 DEF RunInLoop
<1>6. CASE LoopStart \/ LoopCheck
  BY <1>6 DEF LoopStart, LoopCheck
<1>7. CASE EpollEvent \/ EpollTimeout
  BY <1>7 DEF EpollEvent, EpollTimeout
<1>8. CASE HandRead \/ SwapLock
  BY <1>8 DEF HandRead, SwapLock
<1>9. CASE Swap
  BY <1>9 DEF Swap
<1>10. CASE SwapUnlock
  BY <1>10 DEF SwapUnlock
<1>11. CASE CallFunctor
  BY <1>11 DEF CallFunctor
<1>12. CASE FunctorsDone
  BY <1>12 DEF FunctorsDone
<1>13. CASE Unloop
  BY <1>13 DEF Unloop
<1>14. CASE UNCHANGED vars
  BY <1>14 DEF vars
<1> QED
  BY <1>1, <1>2, <1>3, <1>4, <1>5, <1>6, <1>7, <1>8, <1>9, <1>10, <1>11,
     <1>12, <1>13, <1>14 DEF Next, PostStep, LoopStep

LEMMA NextOrder == IInv /\ [Next]_vars => CalledInOrder'
<1> SUFFICES ASSUME IInv, [Next]_vars PROVE CalledInOrder'
  OBVIOUS
<1> USE DEF IInv, TypeOK, CalledInOrder
<1>1. ASSUME NEW t \in Threads, PostPush(t) PROVE CalledInOrder'
  <2>1. arg[t] \in Functors
    BY <1>1 DEF PostPush, Goto, ArgInv
  <2>2. tmp \o Append(pending, arg[t]) = Append(tmp \o pending, arg[t])
    BY <2>1, AppendConcat
  <2>3. ran \o Append(tmp \o pending, arg[t]) = Append(ran \o (tmp \o pending), arg[t])
    BY <2>1, AppendConcat, ConcatProperties
  <2> QED
    BY <1>1, <2>2, <2>3 DEF PostPush
<1>2. CASE Swap
  <2>1. tmp = <<>>
    BY <1>2 DEF Swap, Goto, TmpInv, LoopPC
  <2> QED
    BY <1>2, <2>1, ConcatEmptySeq DEF Swap
<1>3. CASE CallFunctor
  <2>1. /\ tmp # <<>> /\ tmp \in Seq(Functors)
        /\ ran \in Seq(Functors) /\ pending \in Seq(Functors)
    BY <1>3 DEF CallFunctor
  <2>2. Append(ran, Head(tmp)) \o (Tail(tmp) \o pending) = ran \o (tmp \o pending)
    BY ONLY <2>1, HeadConcat, SMTT(30)
  <2> QED
    BY <1>3, <2>2 DEF CallFunctor
<1>4. CASE UNCHANGED <<pending, tmp, posted, ran>>
  BY <1>4
<1>5. ASSUME NEW t \in Threads, PostStep(t) PROVE CalledInOrder'
  BY <1>1, <1>4, <1>5 DEF PostStep, PostLock, PostUnlock, Wakeup
<1>6. ASSUME NEW t \in Threads, NEW f \in Functors, RunInLoop(t, f) PROVE CalledInOrder'
  BY <1>4, <1>6 DEF RunInLoop
<1>7. CASE LoopStart \/ LoopCheck \/ EpollEvent \/ EpollTimeout
  BY <1>4, <1>7 DEF LoopStart, LoopCheck, EpollEvent, EpollTimeout
<1>8. CASE HandRead \/ SwapLock \/ SwapUnlock \/ FunctorsDone
  BY <1>4, <1>8 DEF HandRead, SwapLock, SwapUnlock, FunctorsDone
<1>9. CASE Unloop \/ UNCHANGED vars
  BY <1>4, <1>9 DEF Unloop, vars
<1> QED
  BY ONLY [Next]_vars, <1>2, <1>3, <1>5, <1>6, <1>7, <1>8, <1>9 DEF Next, LoopStep

LEMMA Invariance == Spec => []IInv
<1>1. IInv /\ [Next]_vars => IInv'
  BY NextTypeOK, NextControl, NextOrder DEF IInv
<1> QED
  BY InitIInv, <1>1, PTL DEF Spec

-----------------------------------------------------------------------------
(* The queue that others see.                                              *)

(* What a thread is about to store has not been stored, and no other       *)
(* thread is about to store it.                                            *)
Posting(t) == pc[t] \in {"post_lock", "post_push"}
NewInv ==
    /\ \A t \in Threads : Posting(t) => \A i \in 1..Len(posted) : posted[i] # arg[t]
    /\ \A t, u \in Threads : Posting(t) /\ arg[u] = arg[t] => u = t

LEMMA NextNew ==
    ASSUME IInv, NewInv, [Next]_vars
    PROVE  NewInv'
<1> USE DEF IInv, TypeOK, NewInv, Posting, Goto
<1>1. ASSUME NEW t \in Threads, NEW f \in Functors, RunInLoop(t, f) PROVE NewInv'
  BY <1>1 DEF RunInLoop, Fresh
<1>2. ASSUME NEW t \in Threads, PostPush(t) PROVE NewInv'
  <2>1. arg[t] \in Functors
    BY <1>2 DEF PostPush, ArgInv
  <2>2. /\ Len(posted') = Len(posted) + 1 /\ Len(posted) \in Nat
        /\ \A i \in 1..Len(posted) : posted'[i] = posted[i]
        /\ posted'[Len(posted) + 1] = arg[t]
    BY <1>2, <2>1, AppendProperties, LenProperties DEF PostPush
  <2>3. pc' = [pc EXCEPT ![t] = "post_unlock"] /\ arg' = arg /\ pc[t] = "post_push"
    BY <1>2 DEF PostPush
  <2>4. ASSUME NEW u \in Threads, Posting(u)', NEW i \in 1..Len(posted')
        PROVE  posted'[i] # arg[u]
    <3>1. u # t /\ Posting(u)
      BY <2>3, <2>4
    <3>2. arg[u] # arg[t]
      BY <2>3, <3>1
    <3>3. i \in 1..Len(posted) \/ i = Len(posted) + 1
      BY <2>2
    <3> QED
      BY <2>2, <3>1, <3>2, <3>3
  <2>5. \A u, v \in Threads : Posting(u)' /\ arg[v] = arg[u] => v = u
    BY <2>3
  <2> QED
    BY <2>3, <2>4, <2>5
<1>3. ASSUME NEW t \in Threads, Wakeup(t) PROVE NewInv'
  <2>1. /\ posted' = posted /\ pc' = [pc EXCEPT ![t] = "home"]
        /\ arg' = [arg EXCEPT ![t] = NoFunctor]
    BY <1>3 DEF Wakeup
  <2>2. \A u \in Threads : Posting(u)' => u # t /\ Posting(u) /\ arg'[u] = arg[u]
    BY <2>1
  <2>3. \A u \in Threads : Posting(u) => arg[u] \in Functors
    BY DEF ArgInv
  <2> QED
    BY <2>1, <2>2, <2>3, EventLoopAssumption
<1>4. ASSUME NEW t \in Threads, PostLock(t) \/ PostUnlock(t) PROVE NewInv'
  BY <1>4 DEF PostLock, PostUnlock
<1>5. CASE LoopStep
  <2>1. UNCHANGED <<posted, arg>> /\ \A t \in Threads : Posting(t)' => Posting(t)
    BY <1>5 DEF LoopStep, LoopStart, LoopCheck, EpollEvent, EpollTimeout, HandRead,
                SwapLock, Swap, SwapUnlock, CallFunctor, FunctorsDone
  <2> QED
    BY <2>1
<1>6. CASE Unloop \/ UNCHANGED vars
  BY <1>6 DEF Unloop, vars
<1> QED
  BY <1>1, <1>2, <1>3, <1>4, <1>5, <1>6 DEF Next, PostStep

LEMMA NewInvariance == Spec => [](IInv /\ NewInv)
<1>1. Init => NewInv
  BY DEF Init, NewInv, Posting
<1> QED
  BY <1>1, NextNew, Invariance, PTL DEF Spec

LEMMA QueueInit == Init => Queue!Init
  BY ConcatEmptySeq, EmptySeq DEF Init, Queue!Init

(* run_in_loop stores at the end of the queue, and what it stores is new.  *)
LEMMA QueuePost ==
    ASSUME IInv, NewInv, NEW t \in Threads, PostPush(t)
    PROVE  Queue!Post(arg[t])
<1> DEFINE waiting == tmp \o pending
<1>1. /\ arg[t] \in Functors /\ waiting \in Seq(Functors) /\ ran \in Seq(Functors)
      /\ tmp \in Seq(Functors) /\ pending \in Seq(Functors) /\ posted = ran \o waiting
  BY ConcatProperties DEF PostPush, Goto, ArgInv, IInv, TypeOK, CalledInOrder
<1>2. waiting' = Append(waiting, arg[t]) /\ ran' = ran
  <2>1. tmp \o Append(pending, arg[t]) = Append(tmp \o pending, arg[t])
    BY <1>1, AppendConcat
  <2>2. tmp' = tmp /\ pending' = Append(pending, arg[t]) /\ ran' = ran
    BY DEF PostPush
  <2> QED
    BY <2>1, <2>2
<1>3. \A i \in 1..Len(posted) : posted[i] # arg[t]
  BY DEF PostPush, Goto, NewInv, Posting
<1>4. ASSUME NEW i \in 1..Len(ran) PROVE ran[i] # arg[t]
  <2>1. Len(ran) \in Nat /\ Len(waiting) \in Nat /\ i \in 1..Len(posted) /\ posted[i] = ran[i]
    BY <1>1, ConcatProperties, LenProperties
  <2> QED
    BY <1>3, <2>1
<1>5. ASSUME NEW i \in 1..Len(waiting) PROVE waiting[i] # arg[t]
  <2> HIDE DEF waiting
  <2>1. Len(ran) \in Nat /\ Len(waiting) \in Nat /\ Len(posted) = Len(ran) + Len(waiting)
    BY <1>1, ConcatProperties, LenProperties
  <2>2. Len(ran) + i \in 1..Len(posted) /\ posted[Len(ran) + i] = waiting[i]
    BY <1>1, <2>1, ConcatProperties
  <2> QED
    BY <1>3, <2>2
<1> QED
  BY <1>2, <1>4, <1>5 DEF Queue!Post, Queue!Waiting

(* The IO thread calls the oldest.                                         *)
LEMMA QueueCall ==
    ASSUME IInv, CallFunctor
    PROVE  Queue!Call
<1>1. /\ tmp # <<>> /\ tmp \in Seq(Functors) /\ pending \in Seq(Functors) /\ ran \in Seq(Functors)
      /\ tmp' = Tail(tmp) /\ pending' = pending /\ ran' = Append(ran, Head(tmp))
  BY DEF CallFunctor, IInv, TypeOK
<1>2. Head(tmp) \in Functors
  BY <1>1, HeadTailProperties
<1>3. /\ tmp \o pending # <<>> /\ Head(tmp \o pending) = Head(tmp)
      /\ Tail(tmp \o pending) = Tail(tmp) \o pending
  BY <1>1, TailConcat
<1>4. /\ Len(ran') = Len(ran) + 1 /\ Len(ran) \in Nat /\ ran'[Len(ran) + 1] = Head(tmp)
      /\ \A i \in 1..Len(ran) : ran'[i] = ran[i]
  BY <1>1, <1>2, AppendProperties, LenProperties
<1>5. {ran'[i] : i \in 1..Len(ran')} = {ran[i] : i \in 1..Len(ran)} \cup {Head(tmp)}
  BY <1>4
<1> QED
  BY <1>1, <1>3, <1>5 DEF Queue!Call

LEMMA QueueStep ==
    ASSUME IInv, NewInv, [Next]_vars
    PROVE  [Queue!Next]_(Queue!vars)
<1>1. CASE UNCHANGED <<tmp, pending, ran>>
  BY <1>1 DEF Queue!vars
<1>2. ASSUME NEW t \in Threads, PostPush(t) PROVE Queue!Next
  <2>1. arg[t] \in Functors
    BY <1>2 DEF PostPush, Goto, ArgInv, IInv
  <2> QED
    BY <1>2, <2>1, QueuePost DEF Queue!Next
<1>3. CASE CallFunctor
  BY <1>3, QueueCall DEF Queue!Next
<1>4. CASE Swap
  <2>1. tmp = <<>> /\ pending \in Seq(Functors)
    BY <1>4 DEF Swap, Goto, TmpInv, LoopPC, IInv, TypeOK
  <2>2. tmp' \o pending' = tmp \o pending /\ ran' = ran
    BY <1>4, <2>1, ConcatEmptySeq DEF Swap
  <2> QED
    BY <2>2 DEF Queue!vars
<1>5. ASSUME NEW t \in Threads, PostStep(t) PROVE [Queue!Next]_(Queue!vars)
  BY <1>1, <1>2, <1>5 DEF PostStep, PostLock, PostUnlock, Wakeup
<1>6. ASSUME NEW t \in Threads, NEW f \in Functors, RunInLoop(t, f) PROVE UNCHANGED <<tmp, pending, ran>>
  BY <1>6 DEF RunInLoop
<1>7. CASE LoopStart \/ LoopCheck \/ EpollEvent \/ EpollTimeout \/ HandRead \/ SwapLock \/ SwapUnlock \/ FunctorsDone
  BY <1>1, <1>7 DEF LoopStart, LoopCheck, EpollEvent, EpollTimeout, HandRead, SwapLock, SwapUnlock, FunctorsDone
<1>8. CASE Unloop \/ UNCHANGED vars
  BY <1>1, <1>8 DEF Unloop, vars
<1> QED
  BY <1>1, <1>3, <1>4, <1>5, <1>6, <1>7, <1>8 DEF Next, LoopStep

(* EventLoop.cc:51-57, 158-168: to its callers the loop is the queue of    *)
(* FunctorQueue: each step of it stores a new functor at the end, calls    *)
(* the first, or is not to be seen.                                        *)
THEOREM LoopImplementsQueue == Spec => ImplementsFunctorQueue
  BY QueueInit, QueueStep, NewInvariance, PTL DEF Spec, ImplementsFunctorQueue, Queue!Spec

-----------------------------------------------------------------------------
(* The variables of the loop stay in their types (EventLoop.h:68-76).      *)
THEOREM TypeCorrect == Spec => []TypeOK
<1>1. IInv => TypeOK
  BY DEF IInv
<1> QED
  BY <1>1, Invariance, PTL

(* EventLoop.cc:51-57, 86-91: no functor is left behind with the loop      *)
(* asleep and nobody about to wake it.                                     *)
THEOREM WakeupCorrect == Spec => []NoFunctorStranded
<1>1. IInv => NoFunctorStranded
  BY DEF IInv
<1> QED
  BY <1>1, Invariance, PTL

(* EventLoop.cc:158-168: functors are called once, in the order in which   *)
(* they were stored.                                                       *)
THEOREM OrderCorrect == Spec => []CalledInOrder
<1>1. IInv => CalledInOrder
  BY DEF IInv
<1> QED
  BY <1>1, Invariance, PTL
=============================================================================
