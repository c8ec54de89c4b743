---------------------------- MODULE Server_proofs ----------------------------
(***************************************************************************)
(* Of Server, for any number of connections, descriptors, workers and      *)
(* requests: the descriptors and the events; the types and that it runs    *)
(* its pool as TaskPool says; and, when clients close only after their     *)
(* answers, that each client gets its own answers once and nothing kills   *)
(* the process.                                                            *)
(*                                                                         *)
(* The first part rests on IInv, which says whose the descriptors are.     *)
(* For the others ReadInv is arithmetic: what is in the inbox of a         *)
(* connection is what its client has sent, two units for a message, less   *)
(* what has been read of it, unless the connection has ended.  So          *)
(* onMessage gets no message that was not sent, and every message it       *)
(* passes on is a new one, as the pool wants of its tasks (SubmittedInv).  *)
(* The answer to a message is then in one place (PlacesInv), and as a      *)
(* client that has closed had all of them (AllAnswered), no functor waits  *)
(* for a connection that has been closed (WaitingIsOpen): the raw pointers *)
(* that functors hold do not dangle.                                       *)
(***************************************************************************)
EXTENDS Server, SequenceTheorems, FiniteSetTheorems, TLAPS

-----------------------------------------------------------------------------
(* The elements of a sequence.                                             *)

LEMMA ElementsAppend ==
    ASSUME NEW S, NEW s \in Seq(S), NEW e \in S
    PROVE  Elements(Append(s, e)) = Elements(s) \cup {e}
<1>1. /\ Len(Append(s, e)) = Len(s) + 1 /\ Len(s) \in Nat
      /\ Append(s, e)[Len(s) + 1] = e
      /\ \A i \in 1..Len(s) : Append(s, e)[i] = s[i]
  BY AppendProperties, LenProperties
<1> QED
  BY <1>1 DEF Elements

LEMMA ElementsHeadTail ==
    ASSUME NEW S, NEW s \in Seq(S), s # <<>>
    PROVE  Elements(s) = {Head(s)} \cup Elements(Tail(s))
<1>1. /\ Len(Tail(s)) = Len(s) - 1 /\ Len(s) \in Nat \ {0} /\ Head(s) = s[1]
      /\ \A i \in 1..Len(Tail(s)) : Tail(s)[i] = s[i + 1]
  BY HeadTailProperties, EmptySeq
<1>2. ASSUME NEW x \in Elements(s) PROVE x \in {Head(s)} \cup Elements(Tail(s))
  <2>1. PICK i \in 1..Len(s) : x = s[i]
    BY DEF Elements
  <2>2. CASE i = 1
    BY <1>1, <2>1, <2>2
  <2>3. CASE i # 1
    <3>1. i - 1 \in 1..Len(Tail(s)) /\ Tail(s)[i - 1] = x
      BY <1>1, <2>1, <2>3
    <3> QED
      BY <3>1 DEF Elements
  <2> QED
    BY <2>2, <2>3
<1>3. ASSUME NEW x \in {Head(s)} \cup Elements(Tail(s)) PROVE x \in Elements(s)
  <2>1. CASE x = Head(s)
    BY <1>1, <2>1 DEF Elements
  <2>2. CASE x \in Elements(Tail(s))
    <3>1. PICK i \in 1..Len(Tail(s)) : x = Tail(s)[i]
      BY <2>2 DEF Elements
    <3>2. i + 1 \in 1..Len(s) /\ s[i + 1] = x
      BY <1>1, <3>1
    <3> QED
      BY <3>2 DEF Elements
  <2> QED
    BY <2>1, <2>2
<1> QED
  BY <1>2, <1>3

Distinct(s) == \A i, j \in 1..Len(s) : s[i] = s[j] => i = j

LEMMA DistinctAppend ==
    ASSUME NEW S, NEW s \in Seq(S), NEW e \in S, Distinct(s), e \notin Elements(s)
    PROVE  Distinct(Append(s, e))
<1>1. /\ Len(Append(s, e)) = Len(s) + 1 /\ Len(s) \in Nat
      /\ Append(s, e)[Len(s) + 1] = e
      /\ \A i \in 1..Len(s) : Append(s, e)[i] = s[i]
  BY AppendProperties, LenProperties
<1> QED
  BY <1>1 DEF Distinct, Elements

LEMMA DistinctTail ==
    ASSUME NEW S, NEW s \in Seq(S), s # <<>>, Distinct(s)
    PROVE  Distinct(Tail(s)) /\ Head(s) \notin Elements(Tail(s))
<1>1. /\ Len(Tail(s)) = Len(s) - 1 /\ Len(s) \in Nat \ {0} /\ Head(s) = s[1]
      /\ \A i \in 1..Len(Tail(s)) : Tail(s)[i] = s[i + 1]
  BY HeadTailProperties, EmptySeq
<1>2. Distinct(Tail(s))
  BY <1>1 DEF Distinct
<1>3. Head(s) \notin Elements(Tail(s))
  BY <1>1 DEF Distinct, Elements
<1> QED
  BY <1>2, <1>3

(* Two sequences one after the other.                                      *)
LEMMA AppendConcat ==
    ASSUME NEW S, NEW s \in Seq(S), NEW t \in Seq(S), NEW e \in S
    PROVE  s \o Append(t, e) = Append(s \o t, e)
<1>1. <<e>> \in Seq(S) /\ s \o t \in Seq(S)
  BY ConcatProperties
<1>2. Append(t, e) = t \o <<e>> /\ Append(s \o t, e) = (s \o t) \o <<e>>
  BY <1>1, AppendIsConcat
<1> QED
  BY <1>1, <1>2, ConcatAssociative

LEMMA TailConcat ==
    ASSUME NEW S, NEW s \in Seq(S), NEW t \in Seq(S), s # <<>>
    PROVE  s \o t # <<>> /\ Head(s \o t) = Head(s) /\ Tail(s \o t) = Tail(s) \o t
<1> DEFINE both == s \o t
           rest == Tail(s) \o t
<1>1. /\ Len(s) \in Nat \ {0} /\ Len(t) \in Nat /\ Head(s) = s[1]
      /\ Tail(s) \in Seq(S) /\ Len(Tail(s)) = Len(s) - 1
      /\ \A i \in 1..Len(Tail(s)) : Tail(s)[i] = s[i + 1]
  BY HeadTailProperties, EmptySeq, LenProperties
<1>2. /\ both \in Seq(S) /\ Len(both) = Len(s) + Len(t)
      /\ \A i \in 1..Len(both) : both[i] = IF i <= Len(s) THEN s[i] ELSE t[i - Len(s)]
  BY ConcatProperties
<1>3. /\ rest \in Seq(S) /\ Len(rest) = Len(s) - 1 + Len(t)
      /\ \A i \in 1..Len(rest) : rest[i] = IF i <= Len(s) - 1 THEN s[i + 1] ELSE t[i - (Len(s) - 1)]
  BY <1>1, ConcatProperties
<1> HIDE DEF both, rest
<1>4. both # <<>> /\ Head(both) = Head(s)
  BY <1>1, <1>2, HeadTailProperties, EmptySeq
<1>5. /\ Tail(both) \in Seq(S) /\ Len(Tail(both)) = Len(both) - 1
      /\ \A i \in 1..Len(Tail(both)) : Tail(both)[i] = both[i + 1]
  BY <1>2, <1>4, HeadTailProperties
<1>6. ASSUME NEW i \in 1..Len(rest) PROVE Tail(both)[i] = rest[i]
  <2>1. i \in Nat /\ i \in 1..Len(Tail(both)) /\ i + 1 \in 1..Len(both)
    BY <1>1, <1>2, <1>3, <1>5
  <2>2. Tail(both)[i] = both[i + 1]
    BY <1>5, <2>1
  <2>3. CASE i <= Len(s) - 1
    <3>1. i + 1 <= Len(s)
      BY <1>1, <2>1, <2>3
    <3>2. both[i + 1] = s[i + 1]
      BY <1>2, <2>1, <3>1
    <3>3. rest[i] = s[i + 1]
      BY <1>3, <2>3
    <3> QED
      BY <2>2, <3>2, <3>3
  <2>4. CASE ~(i <= Len(s) - 1)
    <3>1. ~(i + 1 <= Len(s)) /\ i + 1 - Len(s) = i - (Len(s) - 1)
      BY <1>1, <2>1, <2>4
    <3>2. both[i + 1] = t[i - (Len(s) - 1)]
      BY <1>2, <2>1, <3>1
    <3>3. rest[i] = t[i - (Len(s) - 1)]
      BY <1>3, <2>4
    <3> QED
      BY <2>2, <3>2, <3>3
  <2> QED
    BY <2>3, <2>4
<1>7. Tail(both) = rest
  BY <1>1, <1>2, <1>3, <1>5, <1>6, SeqEqual
<1> QED
  BY <1>4, <1>7 DEF both, rest

LEMMA ElementsConcat ==
    ASSUME NEW S, NEW s \in Seq(S), NEW t \in Seq(S)
    PROVE  Elements(s \o t) = Elements(s) \cup Elements(t)
<1>1. /\ Len(s) \in Nat /\ Len(t) \in Nat /\ Len(s \o t) = Len(s) + Len(t)
      /\ \A i \in 1..(Len(s) + Len(t)) : (s \o t)[i] = IF i <= Len(s) THEN s[i] ELSE t[i - Len(s)]
  BY ConcatProperties, LenProperties
<1>2. ASSUME NEW x \in Elements(s \o t) PROVE x \in Elements(s) \cup Elements(t)
  <2>1. PICK i \in 1..(Len(s) + Len(t)) : x = (s \o t)[i]
    BY <1>1 DEF Elements
  <2>2. CASE i <= Len(s)
    BY <1>1, <2>1, <2>2 DEF Elements
  <2>3. CASE ~(i <= Len(s))
    <3>1. i - Len(s) \in 1..Len(t) /\ x = t[i - Len(s)]
      BY <1>1, <2>1, <2>3
    <3> QED
      BY <3>1 DEF Elements
  <2> QED
    BY <2>2, <2>3
<1>3. ASSUME NEW x \in Elements(s) PROVE x \in Elements(s \o t)
  <2>1. PICK i \in 1..Len(s) : x = s[i]
    BY DEF Elements
  <2>2. i \in 1..(Len(s) + Len(t)) /\ (s \o t)[i] = x
    BY <1>1, <2>1
  <2> QED
    BY <1>1, <2>2 DEF Elements
<1>4. ASSUME NEW x \in Elements(t) PROVE x \in Elements(s \o t)
  <2>1. PICK i \in 1..Len(t) : x = t[i]
    BY DEF Elements
  <2>2. Len(s) + i \in 1..(Len(s) + Len(t)) /\ (s \o t)[Len(s) + i] = x
    BY <1>1, <2>1
  <2> QED
    BY <1>1, <2>2 DEF Elements
<1> QED
  BY <1>2, <1>3, <1>4

-----------------------------------------------------------------------------
(* The inductive invariant.                                                *)

(* As much of TypeOK as the descriptors depend on.                         *)
Types ==
    /\ phase \in [Conns -> {"new", "queued", "open", "closed"}]
    /\ backlog \in Seq(Conns)
    /\ fdOf \in [Conns -> Fds \cup {NoFd}]
    /\ interest \subseteq Fds
    /\ batch \subseteq Fds \cup {Listen, Wake}
    /\ conns \in [Fds -> Conns \cup {NoConn}]
    /\ received \in [Conns -> Nat]
    /\ buffer \in Seq(Conns \X Nat)
    /\ busy \in [Workers -> (Conns \X Nat) \cup {NoTask}]

(* A connection waits in the backlog once, without a descriptor, and the   *)
(* event of the acceptor is about one that waits there.                    *)
BacklogInv ==
    /\ \A c \in Elements(backlog) : phase[c] = "queued"
    /\ \A c \in Conns : phase[c] \in {"new", "queued"} => fdOf[c] = NoFd
    /\ Distinct(backlog)
    /\ Listen \in batch => backlog # <<>>

(* The connection whose message is being received stays in _conns.         *)
CurInv == io # "loop" => cur \in Conns /\ \E fd \in Fds : conns[fd] = cur

IInv == Types /\ DescriptorsOwned /\ EventFindsConnection /\ BacklogInv /\ CurInv

-----------------------------------------------------------------------------

LEMMA InitIInv == Init => IInv
<1> SUFFICES ASSUME Init PROVE IInv
  OBVIOUS
<1> USE ServerAssumption DEF Init, Pool!Init
<1>1. Elements(<<>>) = {} /\ TasksOf(buffer, busy) = {}
  BY DEF Elements, TasksOf
<1>2. Types
  BY DEF Types
<1>3. DescriptorsOwned
  <2>1. \A c \in Conns : ~Alive(c)
    BY <1>1 DEF Alive, Held, Fds
  <2> QED
    BY <2>1 DEF DescriptorsOwned, Fds, NoFd
<1>4. EventFindsConnection /\ BacklogInv /\ CurInv
  BY <1>1 DEF EventFindsConnection, BacklogInv, CurInv, Distinct
<1> QED
  BY <1>2, <1>3, <1>4 DEF IInv

(* What the invariant speaks of, except batch and io, which a step that    *)
(* touches no descriptor may still move.                                   *)
registry == <<phase, backlog, fdOf, interest, conns, cur, received, buffer, busy>>

(* The steps that leave the descriptors alone: batch only shrinks, and a   *)
(* message is being received after the step only if one was before.        *)
LEMMA Frame ==
    ASSUME IInv, UNCHANGED registry, batch' \subseteq batch,
           io' # "loop" => io # "loop"
    PROVE  IInv'
<1>1. Types'
  BY DEF IInv, Types, registry
<1>2. DescriptorsOwned'
  BY DEF IInv, DescriptorsOwned, Alive, registry
<1>3. EventFindsConnection'
  BY DEF IInv, EventFindsConnection, registry
<1>4. BacklogInv' /\ CurInv'
  BY DEF IInv, BacklogInv, CurInv, registry
<1> QED
  BY <1>1, <1>2, <1>3, <1>4 DEF IInv

LEMMA ConnectStep == ASSUME IInv, NEW c \in Conns, Connect(c) PROVE IInv'
<1> USE DEF IInv, Connect, loopVars, poolVars, historyVars, clientVars
<1>1. Elements(backlog') = Elements(backlog) \cup {c} /\ backlog' \in Seq(Conns)
  BY ElementsAppend, AppendProperties DEF Types
<1>2. Distinct(backlog') /\ backlog' # <<>>
  <2>1. c \notin Elements(backlog)
    BY DEF BacklogInv
  <2>2. Len(backlog') = Len(backlog) + 1 /\ Len(backlog) \in Nat
    BY AppendProperties, LenProperties DEF Types
  <2> QED
    BY <2>1, <2>2, DistinctAppend, SMTT(60) DEF Types, BacklogInv
<1>3. Types'
  BY <1>1 DEF Types
<1>4. DescriptorsOwned'
  BY DEF DescriptorsOwned, Alive
<1>5. EventFindsConnection'
  BY DEF EventFindsConnection
<1>6. BacklogInv'
  <2>1. phase'[c] = "queued" /\ fdOf[c] = NoFd
    BY DEF BacklogInv, Types
  <2>2. \A d \in Conns \ {c} : phase'[d] = phase[d]
    BY DEF Types
  <2>3. Elements(backlog) \subseteq Conns
    BY ElementOfSeq DEF Types, Elements
  <2> QED
    BY <1>1, <1>2, <2>1, <2>2, <2>3 DEF BacklogInv
<1>7. CurInv'
  BY DEF CurInv
<1> QED
  BY <1>3, <1>4, <1>5, <1>6, <1>7

(* What epoll reports is watched, and what is watched is in _conns.        *)
LEMMA EpollWaitStep == ASSUME IInv, EpollWait PROVE IInv'
<1> USE ServerAssumption
    DEF IInv, EpollWait, kernelVars, poolVars, historyVars, clientVars
<1>1. /\ batch' \subseteq interest \cup {Listen, Wake}
      /\ Listen \in batch' => backlog # <<>>
      /\ batch' \cap Fds \subseteq interest
  <2>1. Listen \notin Fds /\ Wake \notin Fds /\ Listen # Wake
    BY DEF Fds
  <2>2. /\ batch' \subseteq interest \cup {Listen, Wake}
        /\ Listen \in batch' => backlog # <<>> \/ Listen \in interest
    BY <2>1 DEF Ready
  <2> QED
    BY <2>1, <2>2 DEF Types
<1>2. Types'
  BY <1>1 DEF Types
<1>3. DescriptorsOwned'
  BY DEF DescriptorsOwned, Alive
<1>4. EventFindsConnection'
  BY <1>1 DEF EventFindsConnection, DescriptorsOwned
<1>5. BacklogInv' /\ CurInv'
  BY <1>1 DEF BacklogInv, CurInv
<1> QED
  BY <1>2, <1>3, <1>4, <1>5

(* accept() gives a descriptor nobody has, so it is free in _conns too.    *)
LEMMA HandleNewConnectionStep == ASSUME IInv, HandleNewConnection PROVE IInv'
<1> USE ServerAssumption
    DEF IInv, HandleNewConnection, Handle, clientVars, poolVars
<1>1. backlog \in Seq(Conns) /\ backlog # <<>> /\ backlog' = Tail(backlog)
  BY DEF Types, BacklogInv
<1>2. PICK c \in Conns : c = Head(backlog)
  BY <1>1, HeadTailProperties
<1>3. /\ backlog' \in Seq(Conns) /\ Elements(backlog') \subseteq Conns
      /\ Elements(backlog) = {c} \cup Elements(backlog')
      /\ Distinct(backlog') /\ c \notin Elements(backlog')
  <2>1. backlog' \in Seq(Conns)
    BY <1>1, HeadTailProperties
  <2>2. Elements(backlog) = {c} \cup Elements(backlog')
    BY <1>1, <1>2, ElementsHeadTail
  <2>3. Distinct(backlog') /\ c \notin Elements(backlog')
    BY <1>1, <1>2, DistinctTail DEF BacklogInv
  <2>4. Elements(backlog') \subseteq Conns
    BY <2>1, ElementOfSeq DEF Elements
  <2> QED
    BY <2>1, <2>2, <2>3, <2>4
<1>4. PICK fd \in Lowest :
        /\ fdOf' = [fdOf EXCEPT ![c] = fd]
        /\ phase' = [phase EXCEPT ![c] = "open"]
        /\ interest' = interest \cup {fd}
        /\ conns' = [conns EXCEPT ![fd] = IF @ = NoConn THEN c ELSE @]
  BY <1>2
<1>5. fd \in Fds /\ fd # NoFd /\ \A d \in Conns : fdOf[d] # fd
  BY <1>4 DEF Lowest, FreeFds, Fds, NoFd
<1>6. phase[c] = "queued" /\ fdOf[c] = NoFd /\ ~Alive(c)
  BY <1>3 DEF BacklogInv, DescriptorsOwned
<1>7. conns[fd] = NoConn
  BY <1>5 DEF DescriptorsOwned, Types
<1>8. conns' = [conns EXCEPT ![fd] = c]
  BY <1>4, <1>7
<1>9. Types'
  BY <1>4, <1>5, <1>3, <1>8 DEF Types
<1>10. DescriptorsOwned'
  <2>1. ASSUME NEW f \in Fds, conns'[f] # NoConn PROVE fdOf'[conns'[f]] = f
    <3>1. CASE f = fd
      BY <1>4, <1>5, <1>8, <3>1 DEF Types
    <3>2. CASE f # fd
      <4>1. conns'[f] = conns[f] /\ conns[f] \in Conns /\ fdOf[conns[f]] = f
        BY <1>8, <2>1, <3>2 DEF Types, DescriptorsOwned
      <4>2. conns[f] # c
        BY <1>6, <4>1 DEF Fds, NoFd
      <4> QED
        BY <1>4, <4>1, <4>2 DEF Types
    <3> QED
      BY <3>1, <3>2
  <2>2. interest' = {f \in Fds : conns'[f] # NoConn}
    BY <1>4, <1>5, <1>3, <1>8 DEF Types, DescriptorsOwned
  <2>3. \A a, b \in Conns : fdOf'[a] = fdOf'[b] /\ fdOf'[a] # NoFd => a = b
    BY <1>4, <1>5, <1>3 DEF Types, DescriptorsOwned
  <2>4. Alive(c)' /\ fdOf'[c] # NoFd
    BY <1>4, <1>5, <1>3, <1>8 DEF Types, Alive, Held
  <2>5. ASSUME NEW d \in Conns, d # c PROVE Alive(d)' <=> fdOf'[d] # NoFd
    <3>1. fdOf'[d] = fdOf[d]
      BY <1>4, <2>5 DEF Types
    <3>2. \A f \in Fds : conns'[f] = d <=> conns[f] = d
      BY <1>7, <1>8, <2>5 DEF Types
    <3>3. Alive(d)' <=> Alive(d)
      BY <3>2 DEF Alive, Held
    <3> QED
      BY <3>1, <3>3 DEF DescriptorsOwned
  <2> QED
    BY <2>1, <2>2, <2>3, <2>4, <2>5 DEF DescriptorsOwned
<1>11. EventFindsConnection'
  BY <1>3, <1>8 DEF Types, EventFindsConnection
<1>12. BacklogInv'
  <2>1. phase'[c] = "open" /\ \A d \in Conns \ {c} : phase'[d] = phase[d] /\ fdOf'[d] = fdOf[d]
    BY <1>4, <1>3 DEF Types
  <2>2. Listen \notin batch'
    OBVIOUS
  <2> QED
    BY <1>3, <2>1, <2>2 DEF BacklogInv
<1>13. CurInv'
  BY DEF CurInv
<1> QED
  BY <1>9, <1>10, <1>11, <1>12, <1>13

(* ~TcpConnection, on whatever thread drops the last pointer: c is alive   *)
(* before, and stays so or gives its descriptor back.                      *)
LEMMA DropStep ==
    ASSUME IInv, NEW c \in Conns, fdOf[c] # NoFd, NEW held, Drop(c, held), UNCHANGED backlog
    PROVE  /\ phase' \in [Conns -> {"new", "queued", "open", "closed"}]
           /\ fdOf' \in [Conns -> Fds \cup {NoFd}]
           /\ fdOf'[c] = IF held THEN fdOf[c] ELSE NoFd
           /\ \A d \in Conns \ {c} : fdOf'[d] = fdOf[d]
           /\ \A d \in Elements(backlog) : phase'[d] = "queued"
           /\ \A d \in Conns : phase'[d] \in {"new", "queued"} => fdOf'[d] = NoFd
<1> USE DEF IInv, Drop, Types, NoFd
<1>1. c \notin Elements(backlog)
  BY DEF BacklogInv
<1>2. Elements(backlog) \subseteq Conns
  BY ElementOfSeq DEF Elements
<1>3. CASE held
  BY <1>3 DEF BacklogInv
<1>4. CASE ~held
  BY <1>1, <1>2, <1>4 DEF BacklogInv
<1> QED
  BY <1>3, <1>4

LEMMA HandleCloseStep == ASSUME IInv, NEW fd \in Fds, HandleClose(fd) PROVE IInv'
<1> USE ServerAssumption DEF IInv, HandleClose, Handle, clientVars, poolVars, historyVars
<1>0. PICK c \in Conns : c = conns[fd]
  BY DEF Types
<1> DEFINE stays == Alive(c)'
<1>1. /\ fdOf[c] = fd /\ fd # NoFd
      /\ conns' = [conns EXCEPT ![fd] = NoConn]
      /\ Drop(c, stays)
  BY <1>0 DEF Types, DescriptorsOwned, Fds, NoFd, Alive
<1> HIDE DEF stays
<1>2. \A f \in Fds : conns'[f] = IF f = fd THEN NoConn ELSE conns[f]
  BY DEF Types
<1>3. \A f \in Fds : conns'[f] # c
  BY <1>1, <1>2 DEF DescriptorsOwned
<1>5. /\ phase' \in [Conns -> {"new", "queued", "open", "closed"}]
      /\ fdOf' \in [Conns -> Fds \cup {NoFd}]
      /\ fdOf'[c] = IF stays THEN fdOf[c] ELSE NoFd
      /\ \A d \in Conns \ {c} : fdOf'[d] = fdOf[d]
      /\ \A d \in Elements(backlog) : phase'[d] = "queued"
      /\ \A d \in Conns : phase'[d] \in {"new", "queued"} => fdOf'[d] = NoFd
  <2> HIDE DEF IInv
  <2> QED
    BY <1>1, DropStep
<1>6. Types'
  BY <1>1, <1>5 DEF Types
<1>7. DescriptorsOwned'
  <2>1. \A f \in Fds : conns'[f] # NoConn => fdOf'[conns'[f]] = f
    BY <1>2, <1>3, <1>5 DEF Types, DescriptorsOwned
  <2>2. interest' = {f \in Fds : conns'[f] # NoConn}
    BY <1>2 DEF DescriptorsOwned
  <2>3. \A a, b \in Conns : fdOf'[a] = fdOf'[b] /\ fdOf'[a] # NoFd => a = b
    BY <1>5 DEF DescriptorsOwned
  <2>4. Alive(c)' <=> fdOf'[c] # NoFd
    BY <1>1, <1>5 DEF stays
  <2>5. ASSUME NEW d \in Conns, d # c PROVE Alive(d)' <=> fdOf'[d] # NoFd
    <3>1. \A f \in Fds : conns'[f] = d <=> conns[f] = d
      BY <1>0, <1>2, <2>5
    <3>2. Alive(d)' <=> Alive(d)
      BY <3>1 DEF Alive, Held
    <3> QED
      BY <1>5, <2>5, <3>2 DEF DescriptorsOwned
  <2> QED
    BY <2>1, <2>2, <2>3, <2>4, <2>5 DEF DescriptorsOwned
<1>8. EventFindsConnection'
  BY <1>2 DEF EventFindsConnection
<1>9. BacklogInv'
  BY <1>5 DEF BacklogInv
<1>10. CurInv'
  BY DEF CurInv
<1> QED
  BY <1>6, <1>7, <1>8, <1>9, <1>10

LEMMA HandleMessageStep == ASSUME IInv, NEW fd \in Fds, HandleMessage(fd) PROVE IInv'
<1> USE DEF IInv, HandleMessage, Handle, clientVars, poolVars, historyVars
<1>1. Types'
  BY DEF Types
<1>2. DescriptorsOwned'
  BY DEF DescriptorsOwned, Alive
<1>3. EventFindsConnection' /\ BacklogInv'
  BY DEF EventFindsConnection, BacklogInv
<1>4. CurInv'
  BY DEF CurInv, Types
<1> QED
  BY <1>1, <1>2, <1>3, <1>4

(* The task given to the pool points to a connection that is in _conns.    *)
LEMMA AddTaskStep == ASSUME IInv, AddTask PROVE IInv'
<1> USE DEF IInv, AddTask, kernelVars, clientVars, historyVars
<1>1. /\ cur \in Conns /\ CurRequest \in Conns \X Nat /\ CurRequest[1] = cur
      /\ \E fd \in Fds : conns[fd] = cur
  BY DEF CurInv, Types, CurRequest
<1>2. buffer' = Append(buffer, CurRequest) /\ busy' = busy
  BY DEF Pool!Submit
<1>3. buffer' \in Seq(Conns \X Nat) /\ Elements(buffer') = Elements(buffer) \cup {CurRequest}
  BY <1>1, <1>2, ElementsAppend, AppendProperties, SMTT(60) DEF Types
<1>4. Types'
  BY <1>2, <1>3 DEF Types
<1>5. \A c \in Conns : Alive(c)' <=> Alive(c)
  BY <1>1, <1>2, <1>3 DEF Alive, Held, TasksOf
<1>6. DescriptorsOwned'
  BY <1>5 DEF DescriptorsOwned
<1>7. EventFindsConnection' /\ BacklogInv' /\ CurInv'
  BY DEF EventFindsConnection, BacklogInv, CurInv
<1> QED
  BY <1>4, <1>6, <1>7

(* A task goes from the queue to the worker and points to the same         *)
(* connection there.                                                       *)
LEMMA GetTaskStep == ASSUME IInv, NEW w \in Workers, GetTask(w) PROVE IInv'
<1> USE ServerAssumption DEF IInv, GetTask, kernelVars, loopVars, clientVars, historyVars
<1>1. /\ buffer # <<>> /\ busy[w] = NoTask /\ buffer' = Tail(buffer)
      /\ busy' = [busy EXCEPT ![w] = Head(buffer)]
  BY DEF Pool!Take
<1>2. /\ Head(buffer) \in Conns \X Nat /\ buffer' \in Seq(Conns \X Nat)
      /\ Elements(buffer) = {Head(buffer)} \cup Elements(buffer')
  BY <1>1, HeadTailProperties, ElementsHeadTail DEF Types
<1>3. Types'
  BY <1>1, <1>2 DEF Types
<1>4. TasksOf(buffer', busy') = TasksOf(buffer, busy)
  <2>1. {busy'[v] : v \in Workers} = {busy[v] : v \in Workers \ {w}} \cup {Head(buffer)}
    BY <1>1 DEF Types
  <2>2. {busy[v] : v \in Workers} = {busy[v] : v \in Workers \ {w}} \cup {NoTask}
    BY <1>1
  <2>3. Head(buffer) # NoTask /\ NoTask \notin Elements(buffer)
    <3>1. \A i \in 1..Len(buffer) : buffer[i] \in Conns \X Nat
      BY ElementOfSeq DEF Types
    <3> QED
      BY <1>2, <3>1 DEF Elements
  <2> QED
    BY <1>2, <2>1, <2>2, <2>3 DEF TasksOf
<1>5. \A c \in Conns : Alive(c)' <=> Alive(c)
  BY <1>4 DEF Alive, Held
<1>6. DescriptorsOwned'
  BY <1>5 DEF DescriptorsOwned
<1>7. EventFindsConnection' /\ BacklogInv' /\ CurInv'
  BY DEF EventFindsConnection, BacklogInv, CurInv
<1> QED
  BY <1>3, <1>6, <1>7

LEMMA TaskDoneStep == ASSUME IInv, NEW w \in Workers, TaskDone(w) PROVE IInv'
<1> USE ServerAssumption DEF IInv, TaskDone, loopVars, clientVars, historyVars
<1>1. /\ busy[w] # NoTask /\ busy' = [busy EXCEPT ![w] = NoTask]
      /\ buffer' = buffer
  BY DEF Pool!Finish
<1>2. PICK c \in Conns : c = busy[w][1]
  <2>1. busy[w] \in Conns \X Nat
    BY <1>1 DEF Types
  <2> QED
    BY <2>1
<1> DEFINE stays == Alive(c)'
<1>3. fdOf[c] # NoFd
  <2>1. busy[w] \in TasksOf(buffer, busy)
    BY <1>1 DEF TasksOf
  <2> QED
    BY <1>2, <2>1 DEF DescriptorsOwned, Alive, Held
<1>4. Drop(c, stays)
  BY <1>1, <1>2 DEF Alive
<1>5. \A t : t \in TasksOf(buffer, busy) /\ t # busy[w] <=> t \in TasksOf(buffer', busy') /\ t # busy[w]
  BY <1>1 DEF TasksOf, Types
<1>6. ASSUME NEW d \in Conns, d # c PROVE Alive(d)' <=> Alive(d)
  BY <1>2, <1>5, <1>6 DEF Alive, Held
<1> HIDE DEF stays
<1>7. /\ phase' \in [Conns -> {"new", "queued", "open", "closed"}]
      /\ fdOf' \in [Conns -> Fds \cup {NoFd}]
      /\ fdOf'[c] = IF stays THEN fdOf[c] ELSE NoFd
      /\ \A d \in Conns \ {c} : fdOf'[d] = fdOf[d]
      /\ \A d \in Elements(backlog) : phase'[d] = "queued"
      /\ \A d \in Conns : phase'[d] \in {"new", "queued"} => fdOf'[d] = NoFd
  <2> HIDE DEF IInv
  <2> QED
    BY <1>3, <1>4, DropStep
<1>8. Types'
  BY <1>1, <1>7 DEF Types
<1>9. DescriptorsOwned'
  <2>1. Alive(c)' <=> fdOf'[c] # NoFd
    BY <1>3, <1>7 DEF stays
  <2>2. \A d \in Conns : Alive(d)' <=> fdOf'[d] # NoFd
    BY <1>6, <1>7, <2>1 DEF DescriptorsOwned
  <2>3. \A a, b \in Conns : fdOf'[a] = fdOf'[b] /\ fdOf'[a] # NoFd => a = b
    BY <1>7 DEF DescriptorsOwned
  <2>4. ASSUME NEW fd \in Fds, conns[fd] # NoConn PROVE fdOf'[conns[fd]] = fd
    <3>1. conns[fd] \in Conns /\ fdOf[conns[fd]] = fd
      BY <2>4 DEF Types, DescriptorsOwned
    <3>2. Alive(conns[fd])'
      BY <2>4 DEF Alive, Held
    <3> QED
      BY <1>7, <2>2, <3>1, <3>2
  <2> QED
    BY <2>2, <2>3, <2>4 DEF DescriptorsOwned
<1>10. EventFindsConnection' /\ CurInv'
  BY DEF EventFindsConnection, CurInv
<1>11. BacklogInv'
  BY <1>7 DEF BacklogInv
<1> QED
  BY <1>8, <1>9, <1>10, <1>11

-----------------------------------------------------------------------------

LEMMA NextIInv == IInv /\ [Next]_vars => IInv'
<1> SUFFICES ASSUME IInv, [Next]_vars PROVE IInv'
  OBVIOUS
<1> USE DEF registry, clientVars, kernelVars, loopVars, poolVars, historyVars
<1>1. ASSUME NEW c \in Conns, ClientStep(c) PROVE IInv'
  <2>1. CASE SendLength(c) \/ SendBody(c) \/ Close(c)
    BY <2>1, Frame DEF SendLength, SendBody, Close
  <2> QED
    BY <1>1, <2>1, ConnectStep DEF ClientStep
<1>2. CASE IOStep
  <2>1. CASE HandleNewConnectionFails \/ HandleWake
    BY <2>1, Frame DEF HandleNewConnectionFails, HandleWake, Handle
  <2>2. CASE CallFunctor \/ CallDanglingFunctor
    BY <2>2, Frame DEF CallFunctor, CallDanglingFunctor
  <2>3. CASE ReceiveLength \/ ReceiveNoLength \/ ReceiveBody \/ ReceiveCutBody
    BY <2>3, Frame DEF ReceiveLength, ReceiveNoLength, ReceiveBody, ReceiveCutBody
  <2> QED
    BY <1>2, <2>1, <2>2, <2>3, EpollWaitStep, HandleNewConnectionStep,
       HandleCloseStep, HandleMessageStep, AddTaskStep DEF IOStep
<1>3. ASSUME NEW w \in Workers, WorkerStep(w) PROVE IInv'
  <2>1. CASE SendInLoop(w)
    BY <2>1, Frame DEF SendInLoop
  <2> QED
    BY <1>3, <2>1, GetTaskStep, TaskDoneStep DEF WorkerStep
<1>4. CASE UNCHANGED vars
  BY <1>4, Frame DEF vars
<1> QED
  BY <1>1, <1>2, <1>3, <1>4 DEF Next

THEOREM Invariance == Spec => []IInv
<1> QED
  BY InitIInv, NextIInv, PTL DEF Spec

(* EventLoop.cc:104-131, Socket.cc:33: a connection in _conns has the      *)
(* descriptor it is filed under, open and watched, no two connections      *)
(* share one, and a connection is open exactly while _conns or a WorkTask  *)
(* points to it, whichever thread destroys it.                             *)
THEOREM DescriptorsCorrect == Spec => []DescriptorsOwned
<1>1. IInv => DescriptorsOwned
  BY DEF IInv
<1> QED
  BY <1>1, Invariance, PTL

(* EventLoop.cc:122: an event finds its connection when it is handled,     *)
(* however many connections, in whatever order the events come.            *)
THEOREM EventsCorrect == Spec => []EventFindsConnection
<1>1. IInv => EventFindsConnection
  BY DEF IInv
<1> QED
  BY <1>1, Invariance, PTL

-----------------------------------------------------------------------------
(* What has been sent and what has been read.                              *)

(* Of one connection: n units in its inbox, s requests sent and, if h, a   *)
(* length too, p for peer, r messages received, and the IO thread at "at". *)
Units(s, h) == 2 * s + (IF h THEN 1 ELSE 0)

(* Nothing more comes, and the error of the reset has been reported.       *)
Spent(n, s, h, p, r) == n = 0 /\ p = "gone" /\ r <= s + (IF h THEN 2 ELSE 1)

(* The end of the stream has cut off the last message received.            *)
CutOff(n, s, h, p, r) == n = 0 /\ h /\ p \in {"fin", "rst"} /\ r = s + 1

(* Two units have been read for each message received, otherwise.          *)
Counts(n, s, h, p, r, at) ==
    /\ h => s < MaxReqs
    /\ at # "loop" => r > 0
    /\ at = "receive" =>
          (n > 0 /\ n = Units(s, h) - 2 * r + 2) \/ Spent(n, s, h, p, r)
    /\ at = "receive_body" => n = Units(s, h) - 2 * r + 1
    /\ at \in {"loop", "add_task"} =>
          n = Units(s, h) - 2 * r \/ CutOff(n, s, h, p, r) \/ Spent(n, s, h, p, r)

At(c) == IF cur = c THEN io ELSE "loop"
CountInv ==
    \A c \in Conns :
        Counts(Len(inbox[c]), sent[c], half[c], peer[c], received[c], At(c))

(* An event still to be handled is about a connection that has something   *)
(* to be read, and is not the one being read.                              *)
BatchInv ==
    \A fd \in batch \cap Fds :
        /\ inbox[conns[fd]] # <<>> \/ peer[conns[fd]] # "open"
        /\ io # "loop" => conns[fd] # cur

Peers == {"open", "fin", "rst", "gone"}
Places == {"loop", "receive", "receive_body", "add_task"}

ReadTypes ==
    /\ sent \in [Conns -> 0..MaxReqs]
    /\ half \in [Conns -> BOOLEAN]
    /\ peer \in [Conns -> Peers]
    /\ inbox \in [Conns -> Seq({"length", "body"})]
    /\ io \in Places

ReadInv == ReadTypes /\ CountInv /\ BatchInv

(* The rest of TypeOK.                                                     *)
RequestTypes ==
    /\ outbox \in [Conns -> Seq({Welcome} \cup Requests)]
    /\ functors \in Seq(Requests)
    /\ tmp \in Seq(Requests)
    /\ broken \subseteq Requests
    /\ Pool!TypeOK

HistoryTypes ==
    /\ ghost \in BOOLEAN
    /\ cur \in Conns \cup {NoConn}
    /\ posted \in [Workers -> BOOLEAN]
    /\ heirs \in [Conns -> SUBSET Conns]
    /\ crashed \in BOOLEAN

AnswerInv == ReadInv /\ RequestTypes /\ HistoryTypes

-----------------------------------------------------------------------------
(* The arithmetic of one connection, step by step.                         *)

LEMMA CountsSend ==
    ASSUME NEW n \in Nat, NEW s \in Nat, NEW r \in Nat, NEW at \in Places
    PROVE  /\ Counts(n, s, FALSE, "open", r, at) /\ s < MaxReqs
                  => Counts(n + 1, s, TRUE, "open", r, at)
           /\ Counts(n, s, TRUE, "open", r, at)
                  => Counts(n + 1, s + 1, FALSE, "open", r, at)
  BY DEF Counts, Units, Spent, CutOff, Places

(* The steps of peer: a close, a reset, and its error reported.            *)
PeerMoves(p, q) ==
    \/ q = p
    \/ p = "open" /\ q \in {"fin", "rst"}
    \/ p = "fin" /\ q = "rst"
    \/ p = "rst" /\ q = "gone"

LEMMA CountsPeer ==
    ASSUME NEW n \in Nat, NEW s \in Nat, NEW h \in BOOLEAN, NEW p \in Peers, NEW q \in Peers,
           NEW r \in Nat, NEW at \in Places, PeerMoves(p, q), Counts(n, s, h, p, r, at)
    PROVE  Counts(n, s, h, q, r, at)
  BY DEF Counts, Units, Spent, CutOff, Places, Peers, PeerMoves

LEMMA CountsMessage ==
    ASSUME NEW n \in Nat, NEW s \in Nat, NEW h \in BOOLEAN, NEW p \in Peers, NEW q \in Peers,
           NEW r \in Nat, n > 0 \/ p = "rst", q = (IF n = 0 THEN "gone" ELSE p),
           Counts(n, s, h, p, r, "loop")
    PROVE  Counts(n, s, h, q, r + 1, "receive")
  BY DEF Counts, Units, Spent, CutOff, Peers

LEMMA CountsRead ==
    ASSUME NEW n \in Nat, NEW s \in Nat, NEW h \in BOOLEAN, NEW p \in Peers, NEW r \in Nat
    PROVE  /\ Counts(n, s, h, p, r, "receive") /\ n > 0
                  => Counts(n - 1, s, h, p, r, "receive_body")
           /\ Counts(n, s, h, p, r, "receive_body") /\ n > 0
                  => Counts(n - 1, s, h, p, r, "add_task")
           /\ Counts(n, s, h, p, r, "add_task") => Counts(n, s, h, p, r, "loop")
  BY DEF Counts, Units, Spent, CutOff, Peers

LEMMA CountsEnd ==
    ASSUME NEW s \in Nat, NEW h \in BOOLEAN, NEW p \in Peers \ {"open"}, NEW r \in Nat,
           NEW at \in {"receive", "receive_body"}, Counts(0, s, h, p, r, at)
    PROVE  Counts(0, s, h, IF p = "rst" THEN "gone" ELSE p, r, "add_task")
  BY DEF Counts, Units, Spent, CutOff, Peers

(* One message more than the client sends is received, at most.            *)
LEMMA CountsBound ==
    ASSUME NEW n \in Nat, NEW s \in 0..MaxReqs, NEW h \in BOOLEAN, NEW p \in Peers,
           NEW r \in Nat, NEW at \in Places, Counts(n, s, h, p, r, at)
    PROVE  r \in 0..MaxReqs + 1
  BY ServerAssumption DEF Counts, Units, Spent, CutOff, Places, Peers

-----------------------------------------------------------------------------
(* Every step keeps ReadInv.                                               *)

LEMMA ReadTyping ==
    ASSUME ReadTypes, NEW c \in Conns
    PROVE  /\ inbox[c] \in Seq({"length", "body"})
           /\ Len(inbox[c]) \in Nat /\ (inbox[c] = <<>> <=> Len(inbox[c]) = 0)
           /\ sent[c] \in 0..MaxReqs /\ sent[c] \in Nat /\ half[c] \in BOOLEAN
           /\ peer[c] \in Peers /\ At(c) \in Places
<1>1. inbox[c] \in Seq({"length", "body"})
  BY DEF ReadTypes
<1>2. Len(inbox[c]) \in Nat /\ (inbox[c] = <<>> <=> Len(inbox[c]) = 0)
  BY <1>1, EmptySeq, LenProperties
<1>3. /\ sent[c] \in 0..MaxReqs /\ sent[c] \in Nat /\ half[c] \in BOOLEAN
      /\ peer[c] \in Peers /\ At(c) \in Places
  BY ServerAssumption DEF ReadTypes, At, Places
<1> QED
  BY <1>1, <1>2, <1>3

countVars == <<sent, half, peer, inbox, received, io, cur>>

(* The steps of one connection leave the counts of the others alone.       *)
LEMMA OneCounts ==
    ASSUME CountInv, NEW c \in Conns,
           \A d \in Conns \ {c} :
              /\ inbox'[d] = inbox[d] /\ sent'[d] = sent[d] /\ half'[d] = half[d]
              /\ peer'[d] = peer[d] /\ received'[d] = received[d] /\ At(d)' = At(d),
           Counts(Len(inbox'[c]), sent'[c], half'[c], peer'[c], received'[c], At(c)')
    PROVE  CountInv'
  BY DEF CountInv

(* A step that only moves peer, and shrinks the batch.                     *)
LEMMA PeerStep ==
    ASSUME IInv, ReadInv, NEW c \in Conns, NEW q \in Peers, PeerMoves(peer[c], q),
           peer' = [peer EXCEPT ![c] = q], batch' \subseteq batch,
           UNCHANGED <<sent, half, inbox, received, io, cur>>,
           \A fd \in batch' \cap Fds : conns'[fd] = conns[fd]
    PROVE  ReadInv'
<1>1. ReadTypes'
  BY DEF ReadInv, ReadTypes
<1>2. \A d \in Conns : peer'[d] = IF d = c THEN q ELSE peer[d]
  BY DEF ReadInv, ReadTypes
<1>3. CountInv'
  <2>1. \A d \in Conns : At(d)' = At(d)
    BY DEF At
  <2>2. received[c] \in Nat
    BY DEF IInv, Types
  <2>3. Counts(Len(inbox[c]), sent[c], half[c], q, received[c], At(c))
    BY <2>2, ReadTyping, CountsPeer DEF ReadInv, CountInv
  <2> QED
    BY <1>2, <2>1, <2>3, OneCounts DEF ReadInv
<1>4. BatchInv'
  <2>1. q = "open" => peer[c] = "open"
    BY DEF PeerMoves
  <2>2. ASSUME NEW fd \in batch' \cap Fds
        PROVE  /\ inbox'[conns'[fd]] # <<>> \/ peer'[conns'[fd]] # "open"
               /\ io' # "loop" => conns'[fd] # cur'
    <3>1. fd \in batch \cap Fds /\ conns[fd] \in Conns /\ conns'[fd] = conns[fd]
      BY DEF IInv, Types, EventFindsConnection
    <3> QED
      BY <1>2, <2>1, <3>1 DEF ReadInv, BatchInv
  <2> QED
    BY <2>2 DEF BatchInv
<1> QED
  BY <1>1, <1>3, <1>4 DEF ReadInv

(* A step that moves no peer either.                                       *)
LEMMA QuietStep ==
    ASSUME IInv, ReadInv, UNCHANGED countVars, batch' \subseteq batch,
           \A fd \in batch' \cap Fds : conns'[fd] = conns[fd]
    PROVE  ReadInv'
<1>1. ReadTypes'
  BY DEF ReadInv, ReadTypes, countVars
<1>2. CountInv'
  BY DEF ReadInv, CountInv, At, countVars
<1>3. BatchInv'
  BY DEF ReadInv, BatchInv, countVars
<1> QED
  BY <1>1, <1>2, <1>3 DEF ReadInv

LEMMA WriteMoves ==
    ASSUME ReadInv, NEW c \in Conns, NEW item, Write(c, item)
    PROVE  \E q \in Peers : PeerMoves(peer[c], q) /\ peer' = [peer EXCEPT ![c] = q]
<1>1. peer \in [Conns -> Peers]
  BY DEF ReadInv, ReadTypes
<1>2. peer = [peer EXCEPT ![c] = peer[c]]
  BY <1>1
<1> QED
  BY <1>1, <1>2 DEF Write, PeerMoves, Peers

LEMMA SendStep ==
    ASSUME IInv, ReadInv, NEW c \in Conns, SendLength(c) \/ SendBody(c)
    PROVE  ReadInv'
<1>1. PICK unit \in {"length", "body"} : inbox' = [inbox EXCEPT ![c] = Append(@, unit)]
  BY DEF SendLength, SendBody
<1>2. UNCHANGED <<peer, received, io, cur, batch, conns>>
  BY DEF SendLength, SendBody, loopVars
<1>3. /\ inbox' \in [Conns -> Seq({"length", "body"})]
      /\ Len(inbox'[c]) = Len(inbox[c]) + 1
      /\ \A d \in Conns \ {c} : inbox'[d] = inbox[d]
  <2>1. Append(inbox[c], unit) \in Seq({"length", "body"}) /\ Len(Append(inbox[c], unit)) = Len(inbox[c]) + 1
    BY ReadTyping, AppendProperties DEF ReadInv
  <2> QED
    BY <1>1, <2>1 DEF ReadInv, ReadTypes
<1>4. PICK n \in Nat, s \in Nat, r \in Nat :
        /\ n = Len(inbox[c]) /\ s = sent[c] /\ r = received[c]
        /\ peer[c] = "open" /\ At(c) \in Places
        /\ Counts(n, s, half[c], peer[c], r, At(c))
  <2>1. received[c] \in Nat /\ peer[c] = "open"
    BY DEF IInv, Types, SendLength, SendBody, CanSend
  <2> QED
    BY <2>1, ReadTyping DEF ReadInv, CountInv
<1>5. /\ sent' \in [Conns -> 0..MaxReqs] /\ half' \in [Conns -> BOOLEAN]
      /\ Counts(n + 1, sent'[c], half'[c], "open", r, At(c))
      /\ \A d \in Conns \ {c} : sent'[d] = sent[d] /\ half'[d] = half[d]
  <2>0. /\ sent \in [Conns -> 0..MaxReqs] /\ half \in [Conns -> BOOLEAN]
        /\ sent[c] \in 0..MaxReqs /\ MaxReqs \in Nat
    BY ServerAssumption DEF ReadInv, ReadTypes
  <2>1. CASE SendLength(c)
    <3>1. half' = [half EXCEPT ![c] = TRUE] /\ sent' = sent /\ half[c] = FALSE /\ sent[c] < MaxReqs
      BY <2>0, <2>1 DEF SendLength
    <3>2. Counts(n + 1, s, TRUE, "open", r, At(c))
      BY <1>4, <3>1, CountsSend
    <3> QED
      BY <1>4, <2>0, <3>1, <3>2
  <2>2. CASE SendBody(c)
    <3>1. half' = [half EXCEPT ![c] = FALSE] /\ sent' = [sent EXCEPT ![c] = @ + 1] /\ half[c] = TRUE
      BY <2>0, <2>2 DEF SendBody
    <3>2. sent[c] + 1 \in 0..MaxReqs
      BY <1>4, <2>0, <3>1 DEF Counts
    <3>3. Counts(n + 1, s + 1, FALSE, "open", r, At(c))
      BY <1>4, <3>1, CountsSend
    <3> QED
      BY <1>4, <2>0, <3>1, <3>2, <3>3
  <2> QED
    BY <2>1, <2>2
<1>6. ReadTypes'
  BY <1>2, <1>3, <1>5 DEF ReadInv, ReadTypes
<1>7. CountInv'
  <2>1. \A d \in Conns : At(d)' = At(d)
    BY <1>2 DEF At
  <2> QED
    BY <1>2, <1>3, <1>4, <1>5, <2>1, OneCounts DEF ReadInv
<1>8. BatchInv'
  <2>1. inbox'[c] # <<>>
    BY <1>1 DEF ReadInv, ReadTypes
  <2>2. ASSUME NEW fd \in batch' \cap Fds
        PROVE  inbox'[conns'[fd]] # <<>> \/ peer'[conns'[fd]] # "open"
    <3>1. fd \in batch \cap Fds /\ conns[fd] \in Conns /\ conns'[fd] = conns[fd]
      BY <1>2 DEF IInv, Types, EventFindsConnection
    <3> QED
      BY <1>2, <1>3, <2>1, <3>1 DEF ReadInv, BatchInv
  <2> QED
    BY <1>2, <2>2 DEF ReadInv, BatchInv
<1> QED
  BY <1>6, <1>7, <1>8 DEF ReadInv

LEMMA EpollStep == ASSUME IInv, ReadInv, EpollWait PROVE ReadInv'
<1>1. UNCHANGED countVars /\ UNCHANGED conns /\ batch' = Ready /\ io = "loop"
  BY DEF EpollWait, countVars, clientVars, kernelVars
<1>2. ReadTypes'
  BY <1>1 DEF ReadInv, ReadTypes, countVars
<1>3. CountInv'
  BY <1>1 DEF ReadInv, CountInv, At, countVars
<1>4. ASSUME NEW fd \in batch' \cap Fds
      PROVE  inbox[conns[fd]] # <<>> \/ peer[conns[fd]] # "open"
  <2>1. fd \in interest /\ Readable(fd)
    BY <1>1, ServerAssumption DEF Ready, Fds
  <2>2. PICK c \in Conns : fdOf[c] = fd /\ (inbox[c] # <<>> \/ AtEnd(c))
    BY <2>1 DEF Readable
  <2>3. conns[fd] \in Conns /\ fdOf[conns[fd]] = fd /\ fd # NoFd
    <3>1. conns[fd] # NoConn
      BY <2>1 DEF IInv, DescriptorsOwned
    <3>2. fd \in Fds /\ fd # NoFd
      BY <1>4 DEF Fds, NoFd
    <3>3. conns[fd] \in Conns
      BY <3>1, <3>2 DEF IInv, Types
    <3> QED
      BY <3>1, <3>2, <3>3 DEF IInv, DescriptorsOwned
  <2>4. conns[fd] = c
    BY <2>2, <2>3 DEF IInv, DescriptorsOwned
  <2> QED
    BY <2>2, <2>4 DEF AtEnd
<1>5. BatchInv'
  BY <1>1, <1>4 DEF BatchInv, countVars
<1> QED
  BY <1>2, <1>3, <1>5 DEF ReadInv

LEMMA NewConnectionRead == ASSUME IInv, ReadInv, HandleNewConnection PROVE ReadInv'
<1>1. PICK c \in Conns, fd \in Lowest :
        /\ conns' = [conns EXCEPT ![fd] = IF @ = NoConn THEN c ELSE @]
        /\ Write(c, Welcome)
  <2>1. backlog \in Seq(Conns) /\ backlog # <<>>
    BY DEF IInv, Types, BacklogInv, HandleNewConnection, Handle
  <2>2. Head(backlog) \in Conns
    BY <2>1, HeadTailProperties
  <2> QED
    BY <2>2 DEF HandleNewConnection
<1>2. conns[fd] = NoConn /\ fd \notin batch /\ fd \in Fds
  <2>1. fd \in Fds /\ \A d \in Conns : fdOf[d] # fd
    BY <1>1 DEF Lowest, FreeFds
  <2>2. conns[fd] = NoConn
    BY <2>1 DEF IInv, Types, DescriptorsOwned
  <2> QED
    BY <2>1, <2>2 DEF IInv, EventFindsConnection
<1>3. batch' \subseteq batch /\ UNCHANGED <<sent, half, inbox, received, io, cur>>
  BY DEF HandleNewConnection, Handle, clientVars
<1>4. \A f \in batch' \cap Fds : conns'[f] = conns[f]
  BY <1>1, <1>2, <1>3 DEF IInv, Types
<1> QED
  BY <1>1, <1>3, <1>4, WriteMoves, PeerStep

LEMMA CallRead ==
    ASSUME IInv, ReadInv, RequestTypes, HistoryTypes, CallFunctor \/ CallDanglingFunctor
    PROVE  ReadInv'
<1>1. /\ UNCHANGED <<sent, half, inbox, received, io, cur, conns>> /\ batch' = batch
      /\ tmp # <<>>
  BY DEF CallFunctor, CallDanglingFunctor, clientVars
<1>2. CASE UNCHANGED peer
  BY <1>1, <1>2, QuietStep DEF countVars
<1>3. CASE \E c \in Conns : \E item : Write(c, item)
  BY <1>1, <1>3, WriteMoves, PeerStep
<1>4. Head(tmp)[1] \in Conns
  BY <1>1, HeadTailProperties DEF RequestTypes, Requests
<1>5. \A c \in Conns : heirs[c] \subseteq Conns
  BY DEF HistoryTypes
<1> QED
  BY <1>2, <1>3, <1>4, <1>5 DEF CallFunctor, CallDanglingFunctor

(* A message that becomes readable to the IO thread is not one of another  *)
(* event: no two descriptors have the same connection.                     *)
LEMMA OneEvent ==
    ASSUME IInv, NEW fd \in Fds, conns[fd] # NoConn, NEW f \in batch \cap Fds, f # fd
    PROVE  conns[f] \in Conns /\ conns[f] # conns[fd]
<1>1. conns[f] # NoConn /\ f \in Fds
  BY DEF IInv, EventFindsConnection
<1> QED
  BY <1>1 DEF IInv, Types, DescriptorsOwned

LEMMA MessageRead ==
    ASSUME IInv, ReadInv, NEW fd \in Fds, HandleMessage(fd)
    PROVE  ReadInv'
<1>1. PICK c \in Conns :
        /\ c = conns[fd] /\ c # NoConn /\ ~(AtEnd(c) /\ peer[c] # "rst")
        /\ peer' = AfterRead(c) /\ cur' = c /\ received' = [received EXCEPT ![c] = @ + 1]
  BY DEF IInv, Types, HandleMessage
<1>2. /\ UNCHANGED <<sent, half, inbox, conns>> /\ batch' = batch \ {fd} /\ fd \in batch
      /\ io = "loop" /\ io' = "receive"
  BY DEF HandleMessage, Handle, clientVars
<1>3. PICK n \in Nat, p \in Peers, r \in Nat :
        /\ n = Len(inbox[c]) /\ p = peer[c] /\ r = received[c] /\ (n = 0 <=> inbox[c] = <<>>)
        /\ Counts(n, sent[c], half[c], p, r, "loop")
  <2>1. received[c] \in Nat /\ At(c) = "loop"
    BY <1>2 DEF IInv, Types, At
  <2> QED
    BY <2>1, ReadTyping DEF ReadInv, CountInv
<1>4. PICK q \in Peers :
        /\ q = (IF n = 0 THEN "gone" ELSE p) /\ peer' = [peer EXCEPT ![c] = q]
        /\ n > 0 \/ p = "rst"
  <2>1. inbox[c] # <<>> \/ p # "open"
    BY <1>1, <1>2, <1>3 DEF ReadInv, BatchInv
  <2>2. AtEnd(c) <=> n = 0 /\ p # "open"
    BY <1>3 DEF AtEnd
  <2>3. n = 0 => p = "rst"
    BY <1>1, <1>3, <2>1, <2>2
  <2>4. peer' = [peer EXCEPT ![c] = IF n = 0 THEN "gone" ELSE p]
    BY <1>1, <1>3, <2>2, <2>3 DEF AfterRead
  <2>5. (IF n = 0 THEN "gone" ELSE p) \in Peers /\ (n > 0 \/ p = "rst")
    BY <2>3 DEF Peers
  <2> QED
    BY <2>4, <2>5
<1>5. ReadTypes'
  BY <1>2, <1>4 DEF ReadInv, ReadTypes, Places
<1>6. CountInv'
  <2>1. \A d \in Conns \ {c} : At(d)' = At(d)
    BY <1>1, <1>2 DEF At
  <2>2. At(c)' = "receive"
    BY <1>1, <1>2 DEF At
  <2>3. Counts(n, sent[c], half[c], q, r + 1, "receive")
    BY <1>3, <1>4, ReadTyping, CountsMessage DEF ReadInv
  <2>4. /\ peer'[c] = q /\ received'[c] = r + 1
        /\ \A d \in Conns \ {c} : peer'[d] = peer[d] /\ received'[d] = received[d]
    <3>1. peer \in [Conns -> Peers] /\ received \in [Conns -> Nat]
      BY DEF IInv, Types, ReadInv, ReadTypes
    <3> QED
      BY <1>1, <1>3, <1>4, <3>1
  <2>5. Counts(Len(inbox'[c]), sent'[c], half'[c], peer'[c], received'[c], At(c)')
    BY <1>2, <1>3, <2>2, <2>3, <2>4
  <2> QED
    BY <1>2, <2>1, <2>4, <2>5, OneCounts DEF ReadInv
<1>7. BatchInv'
  <2>1. ASSUME NEW f \in batch' \cap Fds
        PROVE  conns[f] # c /\ (inbox[conns[f]] # <<>> \/ peer'[conns[f]] # "open")
    <3>1. conns[f] \in Conns /\ conns[f] # c
      BY <1>1, <1>2, OneEvent
    <3>2. inbox[conns[f]] # <<>> \/ peer[conns[f]] # "open"
      BY <1>2 DEF ReadInv, BatchInv
    <3> QED
      BY <1>4, <3>1, <3>2 DEF ReadInv, ReadTypes
  <2> QED
    BY <1>1, <1>2, <2>1 DEF BatchInv
<1> QED
  BY <1>5, <1>6, <1>7 DEF ReadInv

(* The reading of a message: its length, its body, or the end of the       *)
(* stream instead.                                                         *)
LEMMA ReceiveRead ==
    ASSUME IInv, ReadInv,
           ReceiveLength \/ ReceiveNoLength \/ ReceiveBody \/ ReceiveCutBody
    PROVE  ReadInv'
<1>1. PICK c \in Conns : c = cur /\ io # "loop"
  BY DEF IInv, CurInv, ReceiveLength, ReceiveNoLength, ReceiveBody, ReceiveCutBody
<1>2. UNCHANGED <<sent, half, received, cur, conns, batch>>
  BY DEF ReceiveLength, ReceiveNoLength, ReceiveBody, ReceiveCutBody, clientVars
<1>3. PICK n \in Nat, p \in Peers, r \in Nat :
        /\ n = Len(inbox[c]) /\ p = peer[c] /\ r = received[c] /\ (n = 0 <=> inbox[c] = <<>>)
        /\ Counts(n, sent[c], half[c], p, r, io)
  <2>1. received[c] \in Nat /\ At(c) = io
    BY <1>1 DEF IInv, Types, At
  <2> QED
    BY <2>1, ReadTyping DEF ReadInv, CountInv
<1>4. /\ sent[c] \in Nat /\ half[c] \in BOOLEAN /\ io \in Places
      /\ inbox[c] \in Seq({"length", "body"})
  BY ReadTyping DEF ReadInv, ReadTypes
<1>5. /\ inbox' \in [Conns -> Seq({"length", "body"})] /\ peer' \in [Conns -> Peers]
      /\ \A d \in Conns \ {c} : inbox'[d] = inbox[d] /\ peer'[d] = peer[d]
      /\ io' \in {"receive_body", "add_task"}
      /\ Counts(Len(inbox'[c]), sent[c], half[c], peer'[c], r, io')
  <2>1. CASE ReceiveLength \/ ReceiveBody
    <3>1. inbox[c] # <<>> /\ inbox' = [inbox EXCEPT ![c] = Tail(@)] /\ peer' = peer
      BY <1>1, <2>1 DEF ReceiveLength, ReceiveBody
    <3>2. Tail(inbox[c]) \in Seq({"length", "body"}) /\ Len(Tail(inbox[c])) = n - 1 /\ n > 0
      <4>1. Tail(inbox[c]) \in Seq({"length", "body"}) /\ Len(Tail(inbox[c])) = Len(inbox[c]) - 1
        BY <1>4, <3>1, HeadTailProperties
      <4> QED
        BY <1>3, <3>1, <4>1
    <3>3. Counts(n - 1, sent[c], half[c], p, r, io') /\ io' \in {"receive_body", "add_task"}
      <4>1. CASE ReceiveLength
        BY <1>3, <1>4, <3>2, <4>1, CountsRead DEF ReceiveLength
      <4>2. CASE ReceiveBody
        BY <1>3, <1>4, <3>2, <4>2, CountsRead DEF ReceiveBody
      <4> QED
        BY <2>1, <4>1, <4>2
    <3>4. inbox'[c] = Tail(inbox[c]) /\ peer'[c] = p
      BY <1>3, <3>1 DEF ReadInv, ReadTypes
    <3>5. /\ inbox' \in [Conns -> Seq({"length", "body"})] /\ peer' \in [Conns -> Peers]
          /\ \A d \in Conns \ {c} : inbox'[d] = inbox[d] /\ peer'[d] = peer[d]
      BY <3>1, <3>2 DEF ReadInv, ReadTypes
    <3> QED
      BY <3>2, <3>3, <3>4, <3>5
  <2>2. CASE ReceiveNoLength \/ ReceiveCutBody
    <3>1. /\ AtEnd(c) /\ peer' = AfterRead(c) /\ inbox' = inbox /\ io' = "add_task"
          /\ io \in {"receive", "receive_body"}
      BY <1>1, <2>2 DEF ReceiveNoLength, ReceiveCutBody
    <3>2. n = 0 /\ p # "open" /\ peer' = [peer EXCEPT ![c] = IF p = "rst" THEN "gone" ELSE p]
      BY <1>3, <3>1 DEF AtEnd, AfterRead
    <3>3. Counts(0, sent[c], half[c], IF p = "rst" THEN "gone" ELSE p, r, "add_task")
      BY <1>3, <1>4, <3>1, <3>2, CountsEnd
    <3>4. (IF p = "rst" THEN "gone" ELSE p) \in Peers
      BY DEF Peers
    <3>5. /\ inbox' \in [Conns -> Seq({"length", "body"})] /\ peer' \in [Conns -> Peers]
          /\ \A d \in Conns \ {c} : inbox'[d] = inbox[d] /\ peer'[d] = peer[d]
          /\ Len(inbox'[c]) = 0 /\ peer'[c] = (IF p = "rst" THEN "gone" ELSE p)
      BY <1>3, <3>1, <3>2, <3>4 DEF ReadInv, ReadTypes
    <3> QED
      BY <3>1, <3>3, <3>5
  <2> QED
    BY <2>1, <2>2
<1>6. ReadTypes'
  BY <1>2, <1>5 DEF ReadInv, ReadTypes, Places
<1>7. CountInv'
  <2>1. At(c)' = io' /\ \A d \in Conns \ {c} : At(d)' = At(d)
    BY <1>1, <1>2 DEF At
  <2>2. Counts(Len(inbox'[c]), sent'[c], half'[c], peer'[c], received'[c], At(c)')
    BY <1>2, <1>3, <1>5, <2>1
  <2> QED
    BY <1>2, <1>5, <2>1, <2>2, OneCounts DEF ReadInv
<1>8. BatchInv'
  <2>1. ASSUME NEW f \in batch \cap Fds
        PROVE  conns[f] # c /\ (inbox'[conns[f]] # <<>> \/ peer'[conns[f]] # "open")
    <3>1. conns[f] \in Conns
      BY DEF IInv, Types, EventFindsConnection
    <3>2. conns[f] # c /\ (inbox[conns[f]] # <<>> \/ peer[conns[f]] # "open")
      BY <1>1 DEF ReadInv, BatchInv
    <3> QED
      BY <1>5, <3>1, <3>2
  <2> QED
    BY <1>1, <1>2, <2>1 DEF BatchInv
<1> QED
  BY <1>6, <1>7, <1>8 DEF ReadInv

LEMMA AddTaskRead == ASSUME IInv, ReadInv, AddTask PROVE ReadInv'
<1>1. UNCHANGED <<sent, half, peer, inbox, received, conns, batch>> /\ io = "add_task" /\ io' = "loop"
  BY DEF AddTask, clientVars, kernelVars
<1>2. PICK c \in Conns : c = cur
  BY <1>1 DEF IInv, CurInv
<1>3. ReadTypes'
  BY <1>1 DEF ReadInv, ReadTypes, Places
<1>4. CountInv'
  <2>1. At(c) = "add_task" /\ \A d \in Conns : At(d)' = "loop" /\ (d # c => At(d) = "loop")
    BY <1>1, <1>2 DEF At
  <2>2. received[c] \in Nat
    BY DEF IInv, Types
  <2>3. Counts(Len(inbox[c]), sent[c], half[c], peer[c], received[c], "loop")
    BY <2>1, <2>2, ReadTyping, CountsRead DEF ReadInv, CountInv
  <2> QED
    BY <1>1, <2>1, <2>3, OneCounts DEF ReadInv
<1>5. BatchInv'
  BY <1>1 DEF ReadInv, BatchInv
<1> QED
  BY <1>3, <1>4, <1>5 DEF ReadInv

LEMMA CloseRead == ASSUME IInv, ReadInv, NEW c \in Conns, Close(c) PROVE ReadInv'
<1>1. PICK q \in {"fin", "rst"} : peer' = [peer EXCEPT ![c] = q]
  BY DEF Close
<1>2. /\ UNCHANGED <<sent, half, inbox, received, io, cur, conns, batch>>
      /\ PeerMoves(peer[c], q) /\ q \in Peers
  BY DEF Close, CanSend, clientVars, loopVars, PeerMoves, Peers
<1> QED
  BY <1>1, <1>2, PeerStep

LEMMA HandleCloseRead == ASSUME IInv, ReadInv, NEW fd \in Fds, HandleClose(fd) PROVE ReadInv'
<1>1. /\ UNCHANGED countVars /\ batch' = batch \ {fd}
      /\ conns' = [conns EXCEPT ![fd] = NoConn]
  BY DEF HandleClose, Handle, clientVars, countVars
<1>2. \A f \in batch' \cap Fds : conns'[f] = conns[f]
  BY <1>1 DEF IInv, Types
<1> QED
  BY <1>1, <1>2, QuietStep

LEMMA InitRead == Init => ReadInv
<1> SUFFICES ASSUME Init PROVE ReadInv
  OBVIOUS
<1> USE ServerAssumption DEF Init
<1>1. ReadTypes
  BY EmptySeq DEF ReadTypes, Peers, Places
<1>2. CountInv
  <2>1. Counts(0, 0, FALSE, "open", 0, "loop")
    BY DEF Counts, Units, Spent, CutOff
  <2>2. ASSUME NEW c \in Conns PROVE Len(inbox[c]) = 0 /\ At(c) = "loop"
    BY EmptySeq DEF At
  <2> QED
    BY <2>1, <2>2 DEF CountInv
<1>3. BatchInv
  BY DEF BatchInv
<1> QED
  BY <1>1, <1>2, <1>3 DEF ReadInv

LEMMA NextRead ==
    ASSUME IInv, ReadInv, RequestTypes, HistoryTypes, [Next]_vars
    PROVE  ReadInv'
<1>1. ASSUME NEW c \in Conns, ClientStep(c) PROVE ReadInv'
  <2>1. CASE Connect(c)
    BY <2>1, QuietStep DEF Connect, countVars, clientVars, loopVars
  <2> QED
    BY <1>1, <2>1, SendStep, CloseRead DEF ClientStep
<1>2. CASE IOStep
  <2>1. CASE HandleNewConnectionFails
    BY <2>1, QuietStep DEF HandleNewConnectionFails, Handle, countVars, clientVars, kernelVars
  <2>2. CASE HandleWake
    BY <2>2, QuietStep DEF HandleWake, Handle, countVars, clientVars, kernelVars
  <2> QED
    BY <1>2, <2>1, <2>2, EpollStep, NewConnectionRead, CallRead, HandleCloseRead, MessageRead,
       ReceiveRead, AddTaskRead DEF IOStep
<1>3. ASSUME NEW w \in Workers, WorkerStep(w) PROVE ReadInv'
  <2>1. UNCHANGED countVars /\ UNCHANGED <<batch, conns>>
    BY <1>3 DEF WorkerStep, GetTask, SendInLoop, TaskDone, countVars, clientVars, kernelVars, loopVars
  <2> QED
    BY <2>1, QuietStep
<1>4. CASE UNCHANGED vars
  <2>1. UNCHANGED countVars /\ UNCHANGED <<batch, conns>>
    BY <1>4 DEF vars, countVars, clientVars, kernelVars, loopVars
  <2> QED
    BY <2>1, QuietStep
<1> QED
  BY <1>1, <1>2, <1>3, <1>4 DEF Next

-----------------------------------------------------------------------------
(* Every step keeps the rest of TypeOK.                                    *)

LEMMA ReceivedBound ==
    ASSUME IInv, ReadInv, NEW c \in Conns
    PROVE  received[c] \in 0..MaxReqs + 1
<1>1. received[c] \in Nat
  BY DEF IInv, Types
<1> QED
  BY <1>1, ReadTyping, CountsBound DEF ReadInv, CountInv

LEMMA CurIsRequest ==
    ASSUME IInv, ReadInv, io # "loop"
    PROVE  cur \in Conns /\ received[cur] > 0 /\ CurRequest \in Requests
<1>1. cur \in Conns
  BY DEF IInv, CurInv
<1>2. received[cur] \in 0..MaxReqs + 1
  BY <1>1, ReceivedBound
<1>3. received[cur] > 0
  BY <1>1 DEF ReadInv, CountInv, At, Counts
<1> QED
  BY <1>1, <1>2, <1>3, ServerAssumption DEF CurRequest, Requests

LEMMA WriteTypes ==
    ASSUME RequestTypes, NEW c \in Conns, NEW item \in {Welcome} \cup Requests, Write(c, item)
    PROVE  outbox' \in [Conns -> Seq({Welcome} \cup Requests)] /\ crashed' \in BOOLEAN
<1>1. outbox \in [Conns -> Seq({Welcome} \cup Requests)]
  BY DEF RequestTypes
<1>2. Append(outbox[c], item) \in Seq({Welcome} \cup Requests)
  BY <1>1, AppendProperties
<1> QED
  BY <1>1, <1>2 DEF Write

requestVars == <<outbox, functors, tmp, broken, poolVars>>
pastVars == <<ghost, cur, posted, heirs, crashed>>

LEMMA QuietRequests == ASSUME RequestTypes, UNCHANGED requestVars PROVE RequestTypes'
  BY DEF RequestTypes, Pool!TypeOK, requestVars, poolVars

LEMMA QuietPast == ASSUME HistoryTypes, UNCHANGED pastVars PROVE HistoryTypes'
  BY DEF HistoryTypes, pastVars

LEMMA NewConnectionTypes ==
    ASSUME IInv, ReadInv, RequestTypes, HistoryTypes, HandleNewConnection
    PROVE  RequestTypes' /\ HistoryTypes'
<1>1. PICK c \in Conns :
        /\ heirs' = [d \in Conns |-> IF phase[d] = "closed" THEN heirs[d] \cup {c} ELSE heirs[d]]
        /\ Write(c, Welcome)
  <2>1. backlog \in Seq(Conns) /\ backlog # <<>>
    BY DEF IInv, Types, BacklogInv, HandleNewConnection, Handle
  <2>2. Head(backlog) \in Conns
    BY <2>1, HeadTailProperties
  <2> QED
    BY <2>2 DEF HandleNewConnection
<1>2. UNCHANGED <<functors, tmp, broken, poolVars, ghost, cur, posted>>
  BY DEF HandleNewConnection
<1>3. outbox' \in [Conns -> Seq({Welcome} \cup Requests)] /\ crashed' \in BOOLEAN
  BY <1>1, WriteTypes
<1>4. heirs' \in [Conns -> SUBSET Conns]
  BY <1>1 DEF HistoryTypes
<1>5. RequestTypes'
  BY <1>2, <1>3 DEF RequestTypes, Pool!TypeOK, poolVars
<1> QED
  BY <1>2, <1>3, <1>4, <1>5 DEF HistoryTypes

LEMMA CallTypes ==
    ASSUME IInv, ReadInv, RequestTypes, HistoryTypes, CallFunctor \/ CallDanglingFunctor
    PROVE  RequestTypes' /\ HistoryTypes'
<1>1. UNCHANGED <<functors, broken, poolVars, ghost, cur, posted, heirs>> /\ tmp' = Tail(tmp) /\ tmp # <<>>
  BY DEF CallFunctor, CallDanglingFunctor
<1>2. Head(tmp) \in Requests /\ tmp' \in Seq(Requests)
  BY <1>1, HeadTailProperties DEF RequestTypes
<1>3. \A d \in heirs[Head(tmp)[1]] : d \in Conns
  BY <1>2 DEF Requests, HistoryTypes
<1>4. outbox' \in [Conns -> Seq({Welcome} \cup Requests)] /\ crashed' \in BOOLEAN
  <2>1. CASE UNCHANGED outbox /\ crashed' \in BOOLEAN
    BY <2>1 DEF RequestTypes
  <2>2. CASE \E d \in Conns : Write(d, Head(tmp))
    BY <1>2, <2>2, WriteTypes
  <2> QED
    BY <1>2, <1>3, <2>1, <2>2 DEF CallFunctor, CallDanglingFunctor, Requests
<1>5. RequestTypes'
  BY <1>1, <1>2, <1>4 DEF RequestTypes, Pool!TypeOK, poolVars
<1> QED
  BY <1>1, <1>4, <1>5 DEF HistoryTypes

LEMMA WakeTypes ==
    ASSUME RequestTypes, HistoryTypes, HandleWake PROVE RequestTypes' /\ HistoryTypes'
<1>1. UNCHANGED <<outbox, broken, poolVars, pastVars>> /\ tmp' = functors /\ functors' = <<>>
  BY DEF HandleWake, kernelVars, pastVars, historyVars
<1>2. RequestTypes'
  BY <1>1, EmptySeq DEF RequestTypes, Pool!TypeOK, poolVars
<1> QED
  BY <1>1, <1>2, QuietPast

LEMMA ReceiveTypes ==
    ASSUME IInv, ReadInv, RequestTypes, HistoryTypes,
           ReceiveLength \/ ReceiveNoLength \/ ReceiveBody \/ ReceiveCutBody
    PROVE  RequestTypes' /\ HistoryTypes'
<1>1. /\ UNCHANGED <<outbox, functors, tmp, poolVars, ghost, cur, posted, heirs>> /\ io # "loop"
      /\ broken' = broken \/ broken' = broken \cup {CurRequest}
      /\ crashed' = crashed \/ crashed' \in BOOLEAN
  BY DEF ReceiveLength, ReceiveNoLength, ReceiveBody, ReceiveCutBody, historyVars
<1>2. RequestTypes'
  BY <1>1, CurIsRequest DEF RequestTypes, Pool!TypeOK, poolVars
<1> QED
  BY <1>1, <1>2 DEF HistoryTypes

LEMMA AddTaskTypes ==
    ASSUME IInv, ReadInv, RequestTypes, HistoryTypes, AddTask
    PROVE  RequestTypes' /\ HistoryTypes'
<1>1. /\ UNCHANGED <<outbox, functors, tmp, broken, ghost, posted, heirs, crashed, busy, finished>>
      /\ buffer' = Append(buffer, CurRequest) /\ submitted' = submitted \cup {CurRequest}
      /\ cur' = NoConn /\ io # "loop"
  BY DEF AddTask, kernelVars, historyVars, Pool!Submit
<1>2. CurRequest \in Requests
  BY <1>1, CurIsRequest
<1>3. buffer' \in Seq(Requests)
  BY <1>1, <1>2, AppendProperties DEF RequestTypes, Pool!TypeOK
<1>4. RequestTypes'
  BY <1>1, <1>2, <1>3 DEF RequestTypes, Pool!TypeOK
<1> QED
  BY <1>1, <1>4 DEF HistoryTypes

LEMMA WorkerTypes ==
    ASSUME RequestTypes, HistoryTypes, NEW w \in Workers, WorkerStep(w)
    PROVE  RequestTypes' /\ HistoryTypes'
<1>1. CASE GetTask(w)
  <2>1. /\ UNCHANGED <<outbox, functors, tmp, broken, submitted, finished, pastVars>> /\ buffer # <<>>
        /\ busy' = [busy EXCEPT ![w] = Head(buffer)] /\ buffer' = Tail(buffer)
    BY <1>1 DEF GetTask, Pool!Take, kernelVars, loopVars, historyVars, pastVars
  <2>2. Head(buffer) \in Requests /\ Tail(buffer) \in Seq(Requests)
    BY <2>1, HeadTailProperties DEF RequestTypes, Pool!TypeOK
  <2>3. RequestTypes'
    BY <2>1, <2>2 DEF RequestTypes, Pool!TypeOK
  <2> QED
    BY <2>1, <2>3, QuietPast
<1>2. CASE SendInLoop(w)
  <2>1. /\ UNCHANGED <<outbox, tmp, broken, poolVars, ghost, cur, heirs, crashed>> /\ busy[w] # NoTask
        /\ functors' = Append(functors, busy[w]) /\ posted' = [posted EXCEPT ![w] = TRUE]
    BY <1>2 DEF SendInLoop, kernelVars, historyVars
  <2>2. busy[w] \in Requests
    BY <2>1 DEF RequestTypes, Pool!TypeOK
  <2>3. functors' \in Seq(Requests)
    BY <2>1, <2>2, AppendProperties DEF RequestTypes
  <2>4. RequestTypes'
    BY <2>1, <2>3 DEF RequestTypes, Pool!TypeOK, poolVars
  <2> QED
    BY <2>1, <2>4 DEF HistoryTypes
<1>3. CASE TaskDone(w)
  <2>1. /\ UNCHANGED <<outbox, functors, tmp, broken, buffer, submitted, ghost, cur, heirs, crashed>>
        /\ busy[w] # NoTask /\ finished' = finished \cup {busy[w]}
        /\ busy' = [busy EXCEPT ![w] = NoTask] /\ posted' = [posted EXCEPT ![w] = FALSE]
    BY <1>3 DEF TaskDone, Pool!Finish, loopVars, historyVars
  <2>2. RequestTypes'
    BY <2>1 DEF RequestTypes, Pool!TypeOK
  <2> QED
    BY <2>1, <2>2 DEF HistoryTypes
<1> QED
  BY <1>1, <1>2, <1>3 DEF WorkerStep

LEMMA NextTypes ==
    ASSUME IInv, ReadInv, RequestTypes, HistoryTypes, [Next]_vars
    PROVE  RequestTypes' /\ HistoryTypes'
<1>1. ASSUME NEW c \in Conns, ClientStep(c) PROVE RequestTypes' /\ HistoryTypes'
  <2>1. UNCHANGED requestVars /\ UNCHANGED pastVars
    BY <1>1 DEF ClientStep, Connect, SendLength, SendBody, Close, requestVars, pastVars, loopVars, historyVars
  <2> QED
    BY <2>1, QuietRequests, QuietPast
<1>2. CASE IOStep
  <2>1. CASE EpollWait \/ HandleNewConnectionFails
    <3>1. UNCHANGED requestVars /\ UNCHANGED <<cur, posted, heirs, crashed>> /\ ghost' \in {ghost, TRUE}
      BY <2>1 DEF EpollWait, HandleNewConnectionFails, requestVars, kernelVars, historyVars
    <3> QED
      BY <3>1, QuietRequests DEF HistoryTypes
  <2>2. ASSUME NEW fd \in Fds, HandleClose(fd) \/ HandleMessage(fd)
        PROVE  RequestTypes' /\ HistoryTypes'
    <3>1. UNCHANGED requestVars /\ UNCHANGED <<ghost, posted, heirs, crashed>> /\ cur' \in {cur, conns[fd]}
      BY <2>2 DEF HandleClose, HandleMessage, requestVars, historyVars
    <3> QED
      BY <3>1, QuietRequests DEF HistoryTypes, IInv, Types
  <2> QED
    BY <1>2, <2>1, <2>2, NewConnectionTypes, CallTypes, WakeTypes, ReceiveTypes, AddTaskTypes DEF IOStep
<1>3. CASE UNCHANGED vars
  BY <1>3, QuietRequests, QuietPast DEF vars, requestVars, pastVars, kernelVars, loopVars, historyVars
<1> QED
  BY <1>1, <1>2, <1>3, WorkerTypes DEF Next

LEMMA InitTypes == Init => RequestTypes /\ HistoryTypes
<1> SUFFICES ASSUME Init PROVE RequestTypes /\ HistoryTypes
  OBVIOUS
<1>1. RequestTypes
  BY EmptySeq DEF Init, RequestTypes, Pool!Init, Pool!TypeOK
<1>2. HistoryTypes
  BY DEF Init, HistoryTypes
<1> QED
  BY <1>1, <1>2

LEMMA AnswerInvariant == Spec => [](IInv /\ AnswerInv)
<1>1. Init => IInv /\ AnswerInv
  BY InitIInv, InitRead, InitTypes DEF AnswerInv
<1>2. IInv /\ AnswerInv /\ [Next]_vars => (IInv /\ AnswerInv)'
  BY NextIInv, NextRead, NextTypes DEF AnswerInv
<1> QED
  BY <1>1, <1>2, PTL DEF Spec

(* Server.TypeOK: in particular no more messages are received from a       *)
(* connection than its client has sent, and one that is broken, whatever   *)
(* becomes of the stream.                                                  *)
THEOREM TypeCorrect == Spec => []TypeOK
<1>1. IInv /\ AnswerInv => TypeOK
  <2> SUFFICES ASSUME IInv, AnswerInv PROVE TypeOK
    OBVIOUS
  <2>1. received \in [Conns -> 0..MaxReqs + 1]
    BY ReceivedBound DEF IInv, Types, AnswerInv
  <2> QED
    BY <2>1 DEF TypeOK, IInv, Types, AnswerInv, ReadInv, ReadTypes, RequestTypes, HistoryTypes, Peers, Places
<1> QED
  BY <1>1, AnswerInvariant, PTL

-----------------------------------------------------------------------------
(* The pool under the server.                                              *)

LEMMA PoolInit == Init => Pool!Init
  BY DEF Init

LEMMA PoolStep ==
    ASSUME IInv, AnswerInv, [Next]_vars
    PROVE  [Pool!Next]_(Pool!vars)
<1>1. UNCHANGED poolVars => UNCHANGED Pool!vars
  BY DEF poolVars, Pool!vars
<1>2. CASE AddTask
  BY <1>2, CurIsRequest DEF AddTask, AnswerInv, Pool!Next
<1>3. ASSUME NEW w \in Workers, WorkerStep(w) PROVE [Pool!Next]_(Pool!vars)
  BY <1>1, <1>3 DEF WorkerStep, GetTask, SendInLoop, TaskDone, Pool!Next
<1>4. ASSUME NEW c \in Conns, ClientStep(c) PROVE UNCHANGED poolVars
  BY <1>4 DEF ClientStep, Connect, SendLength, SendBody, Close
<1>5. CASE IOStep /\ ~AddTask
  <2>1. UNCHANGED poolVars
    BY <1>5 DEF IOStep, EpollWait, HandleNewConnection, HandleNewConnectionFails, HandleWake,
       CallFunctor, CallDanglingFunctor, HandleClose, HandleMessage, ReceiveLength,
       ReceiveNoLength, ReceiveBody, ReceiveCutBody
  <2> QED
    BY <1>1, <2>1
<1>6. CASE UNCHANGED vars
  BY <1>1, <1>6 DEF vars
<1> QED
  BY <1>1, <1>2, <1>3, <1>4, <1>5, <1>6 DEF Next

(* The server uses its pool as TaskPool promises: no message is handed to  *)
(* it twice, and each is one of those it may be given.                     *)
THEOREM ServerRunsItsPool == Spec => Pool!Spec
  BY PoolInit, PoolStep, AnswerInvariant, PTL DEF Spec, Pool!Spec

PoolTheorems == INSTANCE TaskPool_proofs WITH Tasks <- Requests

LEMMA PoolExactlyOnce == Spec => []Pool!ExactlyOnce
<1>1. NoTask \notin Requests
  BY ServerAssumption DEF Requests
<1>2. PoolTheorems!Spec => []PoolTheorems!ExactlyOnce
  BY <1>1, PoolTheorems!TasksExactlyOnce
<1>3. Pool!Init <=> PoolTheorems!Init
  BY DEF Pool!Init, PoolTheorems!Init
<1>4. [Pool!Next]_(Pool!vars) <=> [PoolTheorems!Next]_(PoolTheorems!vars)
  BY DEF Pool!Next, PoolTheorems!Next, Pool!vars, PoolTheorems!vars,
         Pool!Submit, PoolTheorems!Submit, Pool!Take, PoolTheorems!Take,
         Pool!Finish, PoolTheorems!Finish
<1>5. Pool!ExactlyOnce <=> PoolTheorems!ExactlyOnce
  BY DEF Pool!ExactlyOnce, PoolTheorems!ExactlyOnce,
         Pool!Accounted, PoolTheorems!Accounted,
         Pool!InOnePlace, PoolTheorems!InOnePlace,
         Pool!QueuedOnce, PoolTheorems!QueuedOnce,
         Pool!RunningOnce, PoolTheorems!RunningOnce,
         Pool!Queued, PoolTheorems!Queued, Pool!Running, PoolTheorems!Running
<1> QED
  BY <1>2, <1>3, <1>4, <1>5, ServerRunsItsPool, PTL DEF Pool!Spec, PoolTheorems!Spec

-----------------------------------------------------------------------------
(* The messages handed to the pool are those received.                     *)

(* The messages received from c that the IO thread is done with.           *)
Whole(c) == IF At(c) # "loop" THEN received[c] - 1 ELSE received[c]

SubmittedInv == submitted = {r \in Requests : r[2] \in 1..Whole(r[1])}

LEMMA NextSubmitted ==
    ASSUME IInv, AnswerInv, SubmittedInv, [Next]_vars
    PROVE  SubmittedInv'
<1>1. ASSUME UNCHANGED submitted, \A c \in Conns : Whole(c)' = Whole(c) PROVE SubmittedInv'
  BY <1>1 DEF SubmittedInv, Requests
<1>2. CASE AddTask
  <2>1. PICK c \in Conns, n \in Nat \ {0} :
          /\ c = cur /\ n = received[c] /\ UNCHANGED received /\ <<c, n>> \in Requests
          /\ submitted' = submitted \cup {<<c, n>>} /\ io = "add_task" /\ io' = "loop"
    <3>1. /\ UNCHANGED received /\ submitted' = submitted \cup {CurRequest}
          /\ io = "add_task" /\ io' = "loop"
      BY <1>2 DEF AddTask, Pool!Submit
    <3>2. cur \in Conns /\ received[cur] > 0 /\ CurRequest \in Requests
      BY <3>1, CurIsRequest DEF AnswerInv
    <3>3. received[cur] \in Nat \ {0}
      BY <3>2 DEF IInv, Types
    <3> QED
      BY <3>1, <3>2, <3>3 DEF CurRequest
  <2>2. /\ Whole(c) = n - 1 /\ Whole(c)' = n
        /\ \A d \in Conns \ {c} : Whole(d)' = Whole(d)
    BY <2>1 DEF Whole, At
  <2>3. ASSUME NEW r \in Requests
        PROVE  r \in submitted' <=> r[2] \in 1..Whole(r[1])'
    <3>1. PICK d \in Conns, m \in 1..MaxReqs + 1 : r = <<d, m>>
      BY DEF Requests
    <3>2. r \in submitted <=> m \in 1..Whole(d)
      BY <3>1 DEF SubmittedInv
    <3>3. r \in submitted' <=> r \in submitted \/ (d = c /\ m = n)
      BY <2>1, <3>1
    <3>4. m \in Nat /\ (m \in 1..n <=> m \in 1..(n - 1) \/ m = n)
      BY <2>1, ServerAssumption
    <3>5. CASE d = c
      BY <2>2, <3>1, <3>2, <3>3, <3>4, <3>5
    <3>6. CASE d # c
      BY <2>2, <3>1, <3>2, <3>3, <3>6
    <3> QED
      BY <3>5, <3>6
  <2>4. submitted' \subseteq Requests
    BY <2>1 DEF AnswerInv, RequestTypes, Pool!TypeOK
  <2> QED
    BY <2>3, <2>4 DEF SubmittedInv
<1>3. CASE \E fd \in Fds : HandleMessage(fd)
  <2>1. PICK c \in Conns :
          /\ cur' = c /\ received' = [received EXCEPT ![c] = @ + 1]
          /\ io = "loop" /\ io' = "receive" /\ UNCHANGED submitted
    BY <1>3 DEF IInv, Types, HandleMessage, Handle, poolVars
  <2>2. ASSUME NEW d \in Conns PROVE Whole(d)' = Whole(d)
    BY <2>1 DEF Whole, At, IInv, Types
  <2> QED
    BY <1>1, <2>1, <2>2
<1>4. CASE UNCHANGED <<submitted, received, cur>> /\ (io = "loop" <=> io' = "loop")
  BY <1>1, <1>4 DEF Whole, At
<1>5. ASSUME NEW c \in Conns, ClientStep(c) PROVE UNCHANGED <<submitted, received, cur, io>>
  BY <1>5 DEF ClientStep, Connect, SendLength, SendBody, Close, poolVars, loopVars
<1>6. ASSUME NEW w \in Workers, WorkerStep(w) PROVE UNCHANGED <<submitted, received, cur, io>>
  BY <1>6 DEF WorkerStep, GetTask, SendInLoop, TaskDone, Pool!Take, Pool!Finish, poolVars, loopVars
<1>7. CASE UNCHANGED vars
  BY <1>4, <1>7 DEF vars, poolVars, loopVars
<1>8. CASE IOStep /\ ~AddTask /\ ~\E fd \in Fds : HandleMessage(fd)
  <2>1. UNCHANGED <<submitted, received, cur>> /\ (io = "loop" <=> io' = "loop")
    BY <1>8 DEF IOStep, EpollWait, HandleNewConnection, HandleNewConnectionFails, HandleWake,
       CallFunctor, CallDanglingFunctor, HandleClose, Handle, ReceiveLength,
       ReceiveNoLength, ReceiveBody, ReceiveCutBody, poolVars
  <2> QED
    BY <1>4, <2>1
<1> QED
  BY <1>2, <1>3, <1>4, <1>5, <1>6, <1>7, <1>8 DEF Next

LEMMA SubmittedInvariant == Spec => []SubmittedInv
<1>1. Init => SubmittedInv
  BY DEF Init, SubmittedInv, Whole, At, Pool!Init, Requests
<1> QED
  BY <1>1, NextSubmitted, AnswerInvariant, PTL DEF Spec

(* add_task is only called with a message the pool has not seen: the guard *)
(* of Pool!Submit never holds the IO thread back.                          *)
THEOREM EachMessageIsNew == Spec => [](io = "add_task" => CurRequest \notin submitted)
<1>1. IInv /\ AnswerInv /\ SubmittedInv => (io = "add_task" => CurRequest \notin submitted)
  <2> SUFFICES ASSUME IInv, AnswerInv, SubmittedInv, io = "add_task"
               PROVE  CurRequest \notin submitted
    OBVIOUS
  <2>1. /\ cur \in Conns /\ received[cur] \in Nat /\ CurRequest = <<cur, received[cur]>>
        /\ Whole(cur) = received[cur] - 1
    BY CurIsRequest DEF AnswerInv, IInv, Types, CurRequest, Whole, At
  <2> QED
    BY <2>1 DEF SubmittedInv
<1> QED
  BY <1>1, AnswerInvariant, SubmittedInvariant, PTL

-----------------------------------------------------------------------------
(* The loop's queue of functors.                                           *)

(* A task that calls send_in_loop has not called it before.                *)
LEMMA NewlyPosted ==
    ASSUME AnswerInv, Pool!ExactlyOnce, NEW w \in Workers, SendInLoop(w)
    PROVE  busy[w] \in Requests /\ busy[w] \notin Posted /\ Posted' = Posted \cup {busy[w]}
<1>1. /\ busy[w] # NoTask /\ ~posted[w] /\ busy' = busy /\ finished' = finished
      /\ posted' = [posted EXCEPT ![w] = TRUE]
  BY DEF SendInLoop, poolVars
<1>2. PICK r \in Requests : r = busy[w]
  BY <1>1 DEF AnswerInv, RequestTypes, Pool!TypeOK
<1>3. r \notin finished
  BY <1>1, <1>2 DEF Pool!ExactlyOnce, Pool!InOnePlace, Pool!Running
<1>4. \A v \in Workers : posted[v] => busy[v] # r
  BY <1>1, <1>2 DEF Pool!ExactlyOnce, Pool!RunningOnce
<1>5. posted \in [Workers -> BOOLEAN]
  BY DEF AnswerInv, HistoryTypes
<1>6. {v \in Workers : posted'[v]} = {v \in Workers : posted[v]} \cup {w}
  BY <1>1, <1>5
<1> QED
  BY <1>1, <1>2, <1>3, <1>4, <1>6 DEF Posted

(* Taking a task and ending it leave what has been posted as it is.        *)
LEMMA PostedStays ==
    ASSUME AnswerInv, \A v \in Workers : posted[v] => busy[v] # NoTask,
           NEW w \in Workers, GetTask(w) \/ TaskDone(w)
    PROVE  Posted' = Posted /\ \A v \in Workers : posted'[v] => busy'[v] # NoTask
<1>1. posted \in [Workers -> BOOLEAN] /\ busy \in [Workers -> Requests \cup {NoTask}]
  BY DEF AnswerInv, HistoryTypes, RequestTypes, Pool!TypeOK
<1>2. CASE GetTask(w)
  <2>1. /\ busy[w] = NoTask /\ posted' = posted /\ finished' = finished
        /\ \A v \in Workers \ {w} : busy'[v] = busy[v]
    BY <1>1, <1>2 DEF GetTask, Pool!Take
  <2>2. ~posted[w]
    BY <2>1
  <2> QED
    BY <1>1, <2>1, <2>2 DEF Posted
<1>3. CASE TaskDone(w)
  <2>1. /\ finished' = finished \cup {busy[w]} /\ ~posted'[w] /\ posted[w]
        /\ \A v \in Workers \ {w} : busy'[v] = busy[v] /\ posted'[v] = posted[v]
    BY <1>1, <1>3 DEF TaskDone, Pool!Finish
  <2> QED
    BY <1>1, <2>1 DEF Posted
<1> QED
  BY <1>2, <1>3

(* What waits has been posted, and waits once.                             *)
LoopInv ==
    /\ \A w \in Workers : posted[w] => busy[w] # NoTask
    /\ Waiting \subseteq Posted
    /\ Distinct(tmp \o functors)

handVars == <<busy, posted, finished, functors, tmp>>

LEMMA LoopFrame ==
    ASSUME LoopInv, UNCHANGED handVars
    PROVE  LoopInv' /\ [Loop!Next]_(Loop!vars)
  BY DEF LoopInv, Waiting, Posted, handVars, Loop!vars

LEMMA LoopTypes ==
    ASSUME AnswerInv
    PROVE  /\ functors \in Seq(Requests) /\ tmp \in Seq(Requests) /\ tmp \o functors \in Seq(Requests)
           /\ Elements(tmp \o functors) = Waiting
<1>1. functors \in Seq(Requests) /\ tmp \in Seq(Requests)
  BY DEF AnswerInv, RequestTypes
<1> QED
  BY <1>1, ConcatProperties, ElementsConcat DEF Waiting

LEMMA LoopPost ==
    ASSUME AnswerInv, Pool!ExactlyOnce, LoopInv, NEW w \in Workers, SendInLoop(w)
    PROVE  LoopInv' /\ Loop!Next
<1>1. UNCHANGED <<busy, tmp>> /\ posted' = [posted EXCEPT ![w] = TRUE] /\ busy[w] # NoTask
  BY DEF SendInLoop, poolVars
<1>2. PICK r \in Requests :
        /\ r = busy[w] /\ r \notin Posted /\ Posted' = Posted \cup {r}
        /\ functors' = Append(functors, r)
  BY NewlyPosted DEF SendInLoop
<1>3. tmp' \o functors' = Append(tmp \o functors, r)
  <2>1. tmp \o Append(functors, r) = Append(tmp \o functors, r)
    BY <1>2, LoopTypes, AppendConcat
  <2> QED
    BY <1>1, <1>2, <2>1
<1>4. r \notin Waiting /\ r \notin Elements(tmp \o functors)
  BY <1>2, LoopTypes DEF LoopInv
<1>5. Waiting' = Waiting \cup {r}
  <2>1. Elements(Append(functors, r)) = Elements(functors) \cup {r}
    BY <1>2, LoopTypes, ElementsAppend
  <2> QED
    BY <1>1, <1>2, <2>1 DEF Waiting
<1>6. Distinct(tmp \o functors)'
  <2>1. Distinct(Append(tmp \o functors, r))
    BY <1>2, <1>4, LoopTypes, DistinctAppend DEF LoopInv
  <2> QED
    BY <1>3, <2>1 DEF Distinct
<1>7. LoopInv'
  <2>1. posted \in [Workers -> BOOLEAN]
    BY DEF AnswerInv, HistoryTypes
  <2> QED
    BY <1>1, <1>2, <1>5, <1>6, <2>1 DEF LoopInv
<1>8. r \notin Posted \ Waiting /\ Posted' \ Waiting' = Posted \ Waiting
  BY <1>2, <1>5
<1>9. Loop!Post(r)
  BY <1>3, <1>4, <1>8 DEF Loop!Post, Loop!Waiting, Elements
<1> QED
  BY <1>2, <1>7, <1>9 DEF Loop!Next

LEMMA LoopCall ==
    ASSUME AnswerInv, AnswerInv', LoopInv, CallFunctor \/ CallDanglingFunctor
    PROVE  LoopInv' /\ Loop!Next
<1> DEFINE q == tmp \o functors
<1>1. tmp # <<>> /\ tmp' = Tail(tmp) /\ UNCHANGED <<functors, busy, posted, finished>>
  BY DEF CallFunctor, CallDanglingFunctor, poolVars
<1>2. q \in Seq(Requests) /\ q # <<>> /\ Tail(q) = tmp' \o functors'
  <2>1. tmp \o functors # <<>> /\ Tail(tmp \o functors) = Tail(tmp) \o functors
    BY <1>1, LoopTypes, TailConcat
  <2>2. Tail(tmp) \o functors = tmp' \o functors'
    BY <1>1
  <2> QED
    BY <2>1, <2>2, LoopTypes
<1>3. /\ Distinct(Tail(q)) /\ Head(q) \notin Elements(Tail(q))
      /\ Elements(q) = {Head(q)} \cup Elements(Tail(q))
  <2>1. Distinct(q)
    BY DEF LoopInv
  <2> HIDE DEF q
  <2> QED
    BY <1>2, <2>1, DistinctTail, ElementsHeadTail
<1>4. Elements(q) = Waiting /\ Elements(Tail(q)) = Waiting'
  <2>1. tmp' \in Seq(Requests) /\ functors' \in Seq(Requests)
    BY DEF AnswerInv, RequestTypes
  <2>2. Elements(tmp' \o functors') = Waiting'
    BY <2>1, ElementsConcat DEF Waiting
  <2> QED
    BY <1>2, <2>2, LoopTypes
<1>5. Posted' = Posted
  BY <1>1 DEF Posted
<1>6. Distinct(tmp \o functors)'
  BY <1>2, <1>3 DEF Distinct
<1>7. LoopInv'
  BY <1>1, <1>3, <1>4, <1>5, <1>6 DEF LoopInv
<1>8. (Posted \ Waiting)' = (Posted \ Waiting) \cup {Head(q)}
  BY <1>3, <1>4, <1>5 DEF LoopInv
<1> HIDE DEF q
<1>9. Loop!Call
  BY <1>2, <1>8 DEF q, Loop!Call
<1> QED
  BY <1>7, <1>9 DEF Loop!Next

LEMMA LoopWorker ==
    ASSUME AnswerInv, LoopInv, NEW w \in Workers, GetTask(w) \/ TaskDone(w)
    PROVE  LoopInv' /\ [Loop!Next]_(Loop!vars)
<1>1. UNCHANGED <<functors, tmp>>
  BY DEF GetTask, TaskDone, loopVars
<1>2. Posted' = Posted /\ \A v \in Workers : posted'[v] => busy'[v] # NoTask
  BY PostedStays DEF LoopInv
<1> QED
  BY <1>1, <1>2 DEF LoopInv, Waiting, Loop!vars

LEMMA LoopWake ==
    ASSUME AnswerInv, LoopInv, HandleWake
    PROVE  LoopInv' /\ UNCHANGED Loop!vars
<1>1. /\ tmp = <<>> /\ tmp' = functors /\ functors' = <<>>
      /\ UNCHANGED <<busy, posted, finished>>
  BY DEF HandleWake, Handle, poolVars
<1>2. tmp' \o functors' = tmp \o functors
  BY <1>1, LoopTypes, ConcatEmptySeq
<1>3. Waiting' = Waiting /\ Posted' = Posted
  BY <1>1 DEF Waiting, Posted, Elements
<1> QED
  BY <1>1, <1>2, <1>3 DEF LoopInv, Distinct, Loop!vars

LEMMA LoopStep ==
    ASSUME AnswerInv, AnswerInv', Pool!ExactlyOnce, LoopInv, [Next]_vars
    PROVE  LoopInv' /\ [Loop!Next]_(Loop!vars)
<1> DEFINE Goal == LoopInv' /\ [Loop!Next]_(Loop!vars)
<1>1. ASSUME NEW c \in Conns, ClientStep(c) PROVE UNCHANGED handVars
  BY <1>1 DEF ClientStep, Connect, SendLength, SendBody, Close, handVars, loopVars, poolVars
<1>2. ASSUME NEW w \in Workers, WorkerStep(w) PROVE Goal
  BY <1>2, LoopPost, LoopWorker DEF WorkerStep
<1>3. CASE HandleWake \/ CallFunctor \/ CallDanglingFunctor
  BY <1>3, LoopWake, LoopCall
<1>4. CASE IOStep /\ ~(HandleWake \/ CallFunctor \/ CallDanglingFunctor)
  <2>1. UNCHANGED handVars
    BY <1>4 DEF IOStep, EpollWait, HandleNewConnection, HandleNewConnectionFails,
       HandleClose, HandleMessage, ReceiveLength, ReceiveNoLength, ReceiveBody, ReceiveCutBody,
       AddTask, Pool!Submit, handVars, poolVars
  <2> QED
    BY <2>1, LoopFrame
<1>5. CASE UNCHANGED vars
  BY <1>5, LoopFrame DEF vars, handVars, loopVars, poolVars
<1> QED
  BY <1>1, <1>2, <1>3, <1>4, <1>5, LoopFrame DEF Next

LEMMA LoopInit == Init => LoopInv /\ Loop!Init
<1> SUFFICES ASSUME Init PROVE LoopInv /\ Loop!Init
  OBVIOUS
<1>1. tmp \o functors = <<>> /\ Elements(functors) = {} /\ Elements(tmp) = {}
  BY ConcatEmptySeq, EmptySeq DEF Init, Elements
<1>2. Posted = {}
  BY DEF Init, Pool!Init, Posted
<1>3. Distinct(tmp \o functors)
  BY <1>1, EmptySeq DEF Distinct
<1> QED
  BY <1>1, <1>2, <1>3 DEF Init, LoopInv, Waiting, Loop!Init

(* TcpConnection.cc:79-83, EventLoop.cc:158-168: what workers and IO       *)
(* thread do with the answers is what FunctorQueue allows: each answer is  *)
(* stored once and called once, in order, for whatever clients.            *)
THEOREM ServerRunsItsLoop == Spec => RunsItsLoop
<1>1. Spec => []LoopInv
  BY LoopInit, LoopStep, AnswerInvariant, PoolExactlyOnce, PTL DEF Spec
<1> QED
  BY <1>1, LoopInit, LoopStep, AnswerInvariant, PoolExactlyOnce, PTL DEF Spec, RunsItsLoop, Loop!Spec

-----------------------------------------------------------------------------
(* The answers that fill the stream to a client.                           *)

LEMMA DistinctCardinality ==
    ASSUME NEW S, NEW s \in Seq(S), Distinct(s)
    PROVE  IsFiniteSet(Elements(s)) /\ Cardinality(Elements(s)) = Len(s)
<1>1. Len(s) \in Nat
  BY LenProperties
<1>2. s \in Bijection(1..Len(s), Elements(s))
  <2>1. s \in [1..Len(s) -> Elements(s)]
    BY LenProperties DEF Elements
  <2>2. \A i, j \in 1..Len(s) : s[i] = s[j] => i = j
    BY DEF Distinct
  <2>3. \A e \in Elements(s) : \E i \in 1..Len(s) : s[i] = e
    BY DEF Elements
  <2>4. s \in Injection(1..Len(s), Elements(s)) /\ s \in Surjection(1..Len(s), Elements(s))
    BY <2>1, <2>2, <2>3 DEF Injection, Surjection, IsInjective
  <2> QED
    BY <2>4 DEF Bijection
<1>3. IsFiniteSet(1..Len(s)) /\ Cardinality(1..Len(s)) = Len(s)
  BY <1>1, FS_Interval, SMTT(60)
<1> QED
  BY <1>2, <1>3, FS_Bijection DEF ExistsBijection

(* One who has been sent 1 + n different items, which are the welcome and  *)
(* answers to the first n requests, has been sent all n answers.           *)
LEMMA AllAnswered ==
    ASSUME NEW c \in Conns, NEW n \in Nat, NEW s \in Seq({Welcome} \cup Requests),
           Distinct(s), Len(s) = 1 + n,
           Elements(s) \ {Welcome} \subseteq {c} \X (1..n)
    PROVE  {c} \X (1..n) \subseteq Elements(s)
<1> DEFINE all == {Welcome} \cup ({c} \X (1..n))
<1>1. IsFiniteSet({c} \X (1..n)) /\ Cardinality({c} \X (1..n)) = n
  <2>1. IsFiniteSet(1..n) /\ Cardinality(1..n) = n
    BY FS_Interval
  <2>2. IsFiniteSet({c}) /\ Cardinality({c}) = 1
    BY FS_Singleton
  <2>3. /\ IsFiniteSet({c} \X (1..n))
        /\ Cardinality({c} \X (1..n)) = Cardinality({c}) * Cardinality(1..n)
    BY <2>1, <2>2, FS_Product
  <2> QED
    BY <2>1, <2>2, <2>3
<1>2. IsFiniteSet(all) /\ Cardinality(all) = n + 1
  <2>1. Welcome \notin {c} \X (1..n)
    BY ServerAssumption
  <2>2. all = ({c} \X (1..n)) \cup {Welcome}
    OBVIOUS
  <2>3. /\ IsFiniteSet(({c} \X (1..n)) \cup {Welcome})
        /\ Cardinality(({c} \X (1..n)) \cup {Welcome}) = Cardinality({c} \X (1..n)) + 1
    <3> DEFINE answers == {c} \X (1..n)
    <3>1. IsFiniteSet(answers) /\ Welcome \notin answers
      BY <1>1, <2>1
    <3> HIDE DEF answers
    <3>2. IsFiniteSet(answers \cup {Welcome}) /\ Cardinality(answers \cup {Welcome}) = Cardinality(answers) + 1
      BY <3>1, FS_AddElement
    <3> QED
      BY <3>2 DEF answers
  <2> QED
    BY <1>1, <2>2, <2>3
<1>3. Elements(s) \in SUBSET all
  OBVIOUS
<1>4. Cardinality(Elements(s)) = n + 1
  BY DistinctCardinality
<1>5. Elements(s) = all
  <2> HIDE DEF all
  <2> QED
    BY <1>2, <1>3, <1>4, FS_Subset
<1> QED
  BY <1>5

-----------------------------------------------------------------------------
(* Clients that wait for their answers.                                    *)

(* The answer to a message is in one place: with its task, among the       *)
(* functors, or with the client, who finds it there once.                  *)
PlacesInv ==
    /\ \A w \in Workers : posted[w] => busy[w] # NoTask
    /\ Posted = Waiting \cup UNION {Answered(c) : c \in Conns}
    /\ Elements(functors) \cap Elements(tmp) = {}
    /\ \A c \in Conns : Answered(c) \cap Waiting = {}
    /\ Distinct(functors) /\ Distinct(tmp)
    /\ \A c \in Conns : Distinct(outbox[c]) /\ Answered(c) \subseteq {c} \X Nat

(* A client greets no server: the first thing it reads is the welcome.  It *)
(* is in _conns when a message has come from it, until it closes, and then *)
(* it has been sent as many answers as it has sent requests.               *)
ClientInv ==
    \A c \in Conns :
        /\ peer[c] \in {"open", "fin"}
        /\ phase[c] \in {"new", "queued"} => outbox[c] = <<>> /\ received[c] = 0
        /\ phase[c] \notin {"new", "queued"} => outbox[c] # <<>> /\ outbox[c][1] = Welcome
        /\ peer[c] = "fin" => ~half[c] /\ Len(outbox[c]) = 1 + sent[c]
        /\ received[c] > 0 /\ peer[c] = "open" => \E fd \in Fds : conns[fd] = c

PatientInv == ~crashed /\ PlacesInv /\ ClientInv

(* What has been proved of all clients.                                    *)
BaseInv == IInv /\ AnswerInv /\ SubmittedInv /\ Pool!ExactlyOnce

LEMMA CountsWhole ==
    ASSUME NEW n \in Nat, NEW s \in Nat, NEW h \in BOOLEAN, NEW p \in {"open", "fin"},
           NEW r \in Nat, NEW at \in Places, Counts(n, s, h, p, r, at), p = "fin" => ~h
    PROVE  (IF at # "loop" THEN r - 1 ELSE r) <= s
  BY DEF Counts, Units, Spent, CutOff, Places

LEMMA WholeIsSent ==
    ASSUME BaseInv, ClientInv, NEW c \in Conns
    PROVE  Whole(c) \in Int /\ Whole(c) <= sent[c] /\ Whole(c) <= received[c]
<1>1. /\ received[c] \in Nat /\ peer[c] \in {"open", "fin"} /\ (peer[c] = "fin" => ~half[c])
  BY DEF BaseInv, IInv, Types, ClientInv
<1>2. /\ Counts(Len(inbox[c]), sent[c], half[c], peer[c], received[c], At(c))
      /\ Len(inbox[c]) \in Nat /\ sent[c] \in Nat /\ half[c] \in BOOLEAN /\ At(c) \in Places
  BY ReadTyping DEF BaseInv, AnswerInv, ReadInv, CountInv
<1>3. (IF At(c) # "loop" THEN received[c] - 1 ELSE received[c]) <= sent[c]
  BY <1>1, <1>2, CountsWhole
<1> QED
  BY <1>1, <1>2, <1>3 DEF Whole

(* An answer posted is to a request its client has sent.                   *)
LEMMA PostedIsSent ==
    ASSUME BaseInv, ClientInv, NEW r \in Posted, r # NoTask
    PROVE  \E c \in Conns : \E n \in 1..sent[c] : r = <<c, n>> /\ received[c] > 0
<1>1. r \in submitted
  BY DEF Posted, BaseInv, Pool!ExactlyOnce, Pool!Accounted, Pool!Running
<1>2. PICK c \in Conns, n \in 1..MaxReqs + 1 : r = <<c, n>>
  BY <1>1 DEF SubmittedInv, BaseInv, Requests
<1>3. n \in 1..Whole(c)
  BY <1>1, <1>2 DEF SubmittedInv, BaseInv
<1>4. Whole(c) \in Int /\ Whole(c) <= sent[c] /\ Whole(c) <= received[c]
  BY WholeIsSent
<1>5. sent[c] \in Nat /\ received[c] \in Nat
  BY ReadTyping DEF BaseInv, AnswerInv, ReadInv, IInv, Types
<1>6. n \in 1..sent[c] /\ received[c] > 0
  BY <1>3, <1>4, <1>5
<1> QED
  BY <1>2, <1>6

LEMMA AnsweredIsSent ==
    ASSUME BaseInv, PatientInv, NEW c \in Conns
    PROVE  Answered(c) \subseteq {c} \X (1..sent[c])
<1> SUFFICES ASSUME NEW r \in Answered(c) PROVE r \in {c} \X (1..sent[c])
  OBVIOUS
<1>1. r \in Posted /\ r \in {c} \X Nat
  BY DEF PatientInv, PlacesInv
<1>2. r # NoTask
  BY <1>1, ServerAssumption
<1> QED
  BY <1>1, <1>2, PostedIsSent DEF PatientInv

(* A client that has closed waits for no answer: it is among those whose   *)
(* messages are answered to the last one.                                  *)
LEMMA WaitingIsOpen ==
    ASSUME BaseInv, PatientInv, NEW r \in Waiting
    PROVE  /\ r[1] \in Conns /\ r \in Requests /\ peer[r[1]] = "open"
           /\ received[r[1]] > 0 /\ Alive(r[1])
<1>1. r \in Requests
  <2>1. functors \in Seq(Requests) /\ tmp \in Seq(Requests)
    BY DEF BaseInv, AnswerInv, RequestTypes
  <2> QED
    BY <2>1, ElementOfSeq DEF Waiting, Elements
<1>2. r \in Posted /\ r # NoTask
  BY <1>1, ServerAssumption DEF PatientInv, PlacesInv, Requests
<1>3. PICK c \in Conns, n \in Nat : r = <<c, n>> /\ n \in 1..sent[c] /\ received[c] > 0
  BY <1>2, PostedIsSent DEF PatientInv
<1>4. peer[c] = "open"
  <2>1. SUFFICES ASSUME peer[c] = "fin" PROVE FALSE
    BY DEF PatientInv, ClientInv
  <2>2. outbox[c] \in Seq({Welcome} \cup Requests) /\ sent[c] \in Nat
    BY ReadTyping DEF BaseInv, AnswerInv, ReadInv, RequestTypes
  <2>3. Distinct(outbox[c]) /\ Len(outbox[c]) = 1 + sent[c]
    BY <2>1 DEF PatientInv, ClientInv, PlacesInv
  <2>4. Elements(outbox[c]) \ {Welcome} \subseteq {c} \X (1..sent[c])
    BY AnsweredIsSent DEF Answered
  <2>5. r \in Elements(outbox[c])
    BY <1>3, <2>2, <2>3, <2>4, AllAnswered
  <2>6. r \in Answered(c)
    BY <1>1, <2>5, ServerAssumption DEF Answered, Requests
  <2> QED
    BY <2>6 DEF PatientInv, PlacesInv
<1>5. Alive(c)
  BY <1>3, <1>4 DEF PatientInv, ClientInv, Alive, Held
<1> QED
  BY <1>1, <1>3, <1>4, <1>5

placeVars == <<busy, posted, finished, functors, tmp, outbox>>
customerVars == <<peer, phase, outbox, received, half, sent, conns>>

LEMMA PlacesFrame == ASSUME PlacesInv, UNCHANGED placeVars PROVE PlacesInv'
  BY DEF PlacesInv, Posted, Waiting, Answered, placeVars

LEMMA ClientFrame == ASSUME ClientInv, UNCHANGED customerVars PROVE ClientInv'
  BY DEF ClientInv, customerVars

LEMMA ClientPatient ==
    ASSUME Patient, BaseInv, PatientInv, NEW c \in Conns, ClientStep(c)
    PROVE  PatientInv'
<1>1. PlacesInv' /\ ~crashed'
  <2>1. UNCHANGED placeVars /\ crashed' = crashed
    BY DEF ClientStep, Connect, SendLength, SendBody, Close, placeVars, poolVars, loopVars, historyVars
  <2> QED
    BY <2>1, PlacesFrame DEF PatientInv
<1>2. CASE Connect(c)
  <2>1. /\ UNCHANGED <<peer, outbox, received, half, sent, conns>>
        /\ phase[c] = "new" /\ phase' = [phase EXCEPT ![c] = "queued"]
    BY <1>2 DEF Connect, clientVars, loopVars
  <2>2. ClientInv'
    BY <2>1 DEF PatientInv, ClientInv, BaseInv, IInv, Types
  <2> QED
    BY <1>1, <2>2 DEF PatientInv
<1>3. CASE SendLength(c) \/ SendBody(c)
  <2>1. /\ UNCHANGED <<peer, phase, outbox, received, conns>> /\ peer[c] = "open"
        /\ half' = [half EXCEPT ![c] = half'[c]] /\ sent' = [sent EXCEPT ![c] = sent'[c]]
    <3>1. /\ UNCHANGED <<peer, phase, outbox, received, conns>> /\ peer[c] = "open"
          /\ \/ half' = [half EXCEPT ![c] = TRUE] /\ sent' = sent
             \/ half' = [half EXCEPT ![c] = FALSE] /\ sent' = [sent EXCEPT ![c] = @ + 1]
      BY <1>3 DEF SendLength, SendBody, CanSend, loopVars
    <3>2. half \in [Conns -> BOOLEAN] /\ sent \in [Conns -> 0..MaxReqs]
      BY DEF BaseInv, AnswerInv, ReadInv, ReadTypes
    <3> QED
      BY <3>1, <3>2
  <2>2. half \in [Conns -> BOOLEAN] /\ sent \in [Conns -> 0..MaxReqs]
    BY DEF BaseInv, AnswerInv, ReadInv, ReadTypes
  <2>3. \A d \in Conns \ {c} : half'[d] = half[d] /\ sent'[d] = sent[d]
    BY <2>1, <2>2
  <2>4. ClientInv'
    BY <2>1, <2>3 DEF PatientInv, ClientInv
  <2> QED
    BY <1>1, <2>4 DEF PatientInv
<1>4. CASE Close(c)
  <2>1. /\ UNCHANGED <<phase, outbox, received, half, sent, conns>>
        /\ peer' = [peer EXCEPT ![c] = "fin"] /\ ~half[c] /\ Len(outbox[c]) = 1 + sent[c]
    BY <1>4 DEF Close, clientVars, loopVars
  <2>2. peer \in [Conns -> Peers]
    BY DEF BaseInv, AnswerInv, ReadInv, ReadTypes
  <2>3. ClientInv'
    BY <2>1, <2>2 DEF PatientInv, ClientInv
  <2> QED
    BY <1>1, <2>3 DEF PatientInv
<1> QED
  BY <1>2, <1>3, <1>4 DEF ClientStep

(* A connection with a descriptor has been accepted, and greeted.          *)
LEMMA OwnerAccepted ==
    ASSUME IInv, NEW c \in Conns, Alive(c)
    PROVE  phase[c] \notin {"new", "queued"} /\ fdOf[c] # NoFd
  BY DEF IInv, DescriptorsOwned, BacklogInv

(* What ~TcpConnection does to phase.                                      *)
LEMMA DropPhase ==
    ASSUME IInv, NEW c \in Conns, Alive(c), NEW held, Drop(c, held)
    PROVE  \A d \in Conns : phase'[d] \in {"new", "queued"} <=> phase[d] \in {"new", "queued"}
  BY OwnerAccepted DEF IInv, Types, Drop

(* One answer or the welcome goes to an open connection.                   *)
LEMMA WriteOpen ==
    ASSUME BaseInv, PatientInv, NEW c \in Conns, NEW item \in {Welcome} \cup Requests,
           peer[c] = "open", item \notin Elements(outbox[c]), Write(c, item)
    PROVE  /\ ~crashed' /\ peer' = peer
           /\ \A d \in Conns \ {c} : outbox'[d] = outbox[d]
           /\ Distinct(outbox'[c]) /\ Elements(outbox'[c]) = Elements(outbox[c]) \cup {item}
           /\ outbox'[c] # <<>>
           /\ outbox'[c][1] = IF outbox[c] = <<>> THEN item ELSE outbox[c][1]
<1>1. outbox \in [Conns -> Seq({Welcome} \cup Requests)]
  BY DEF BaseInv, AnswerInv, RequestTypes
<1>2. /\ ~crashed' /\ peer' = peer
      /\ \A d \in Conns \ {c} : outbox'[d] = outbox[d]
      /\ outbox'[c] = Append(outbox[c], item)
  BY <1>1 DEF Write
<1>3. Distinct(outbox[c])
  BY DEF PatientInv, PlacesInv
<1>4. Distinct(Append(outbox[c], item)) /\ Elements(Append(outbox[c], item)) = Elements(outbox[c]) \cup {item}
  BY <1>1, <1>3, DistinctAppend, ElementsAppend
<1>5. /\ Append(outbox[c], item) # <<>>
      /\ Append(outbox[c], item)[1] = IF outbox[c] = <<>> THEN item ELSE outbox[c][1]
  <2>1. /\ Append(outbox[c], item) # <<>> /\ Len(outbox[c]) \in Nat
        /\ Append(outbox[c], item)[Len(outbox[c]) + 1] = item
        /\ \A i \in 1..Len(outbox[c]) : Append(outbox[c], item)[i] = outbox[c][i]
        /\ outbox[c] = <<>> <=> Len(outbox[c]) = 0
    BY <1>1, AppendProperties, EmptySeq, LenProperties
  <2> QED
    BY <2>1
<1> QED
  BY <1>2, <1>4, <1>5

LEMMA NewConnectionPatient ==
    ASSUME Patient, BaseInv, PatientInv, HandleNewConnection
    PROVE  PatientInv'
<1>1. PICK c \in Conns, fd \in Lowest :
        /\ c = Head(backlog) /\ phase' = [phase EXCEPT ![c] = "open"]
        /\ conns' = [conns EXCEPT ![fd] = IF @ = NoConn THEN c ELSE @]
        /\ Write(c, Welcome)
  <2>1. backlog \in Seq(Conns) /\ backlog # <<>>
    BY DEF BaseInv, IInv, Types, BacklogInv, HandleNewConnection, Handle
  <2>2. Head(backlog) \in Conns
    BY <2>1, HeadTailProperties
  <2> QED
    BY <2>2 DEF HandleNewConnection
<1>2. UNCHANGED <<busy, posted, finished, functors, tmp, received, half, sent>>
  BY DEF HandleNewConnection, poolVars, clientVars
<1>3. phase[c] = "queued"
  <2>1. backlog \in Seq(Conns) /\ backlog # <<>>
    BY DEF BaseInv, IInv, Types, BacklogInv, HandleNewConnection, Handle
  <2>2. c \in Elements(backlog)
    BY <1>1, <2>1, ElementsHeadTail
  <2> QED
    BY <2>2 DEF BaseInv, IInv, BacklogInv
<1>4. outbox[c] = <<>> /\ received[c] = 0 /\ peer[c] = "open"
  <2>1. outbox[c] = <<>> /\ received[c] = 0 /\ sent[c] \in Nat
    BY <1>3, ReadTyping DEF PatientInv, ClientInv, BaseInv, AnswerInv, ReadInv
  <2>2. Len(outbox[c]) # 1 + sent[c]
    BY <2>1, EmptySeq
  <2> QED
    BY <2>1, <2>2 DEF PatientInv, ClientInv
<1>5. Elements(outbox[c]) = {}
  BY <1>4 DEF Elements
<1>6. /\ ~crashed' /\ peer' = peer
      /\ \A d \in Conns \ {c} : outbox'[d] = outbox[d]
      /\ Distinct(outbox'[c]) /\ Elements(outbox'[c]) = {Welcome}
      /\ outbox'[c] # <<>> /\ outbox'[c][1] = Welcome
  BY <1>1, <1>4, <1>5, WriteOpen
<1>7. \A d \in Conns : Answered(d)' = Answered(d)
  BY <1>5, <1>6 DEF Answered
<1>8. PlacesInv'
  <2>1. Posted' = Posted /\ Waiting' = Waiting
    BY <1>2 DEF Posted, Waiting
  <2>2. \A d \in Conns : Distinct(outbox'[d])
    BY <1>6 DEF PatientInv, PlacesInv
  <2>3. UNION {Answered(d)' : d \in Conns} = UNION {Answered(d) : d \in Conns}
    BY <1>7
  <2> QED
    BY <1>2, <1>7, <2>1, <2>2, <2>3 DEF PatientInv, PlacesInv
<1>9. conns[fd] = NoConn /\ fd \in Fds
  <2>1. fd \in Fds /\ \A d \in Conns : fdOf[d] # fd
    BY <1>1 DEF Lowest, FreeFds
  <2> QED
    BY <2>1 DEF BaseInv, IInv, Types, DescriptorsOwned
<1>10. ClientInv'
  <2>1. ASSUME NEW d \in Conns \ {c}
        PROVE  phase'[d] = phase[d] /\ \A f \in Fds : conns[f] = d => conns'[f] = d
    BY <1>1, <1>9, ServerAssumption DEF BaseInv, IInv, Types
  <2>2. phase'[c] = "open"
    BY <1>1 DEF BaseInv, IInv, Types
  <2> QED
    BY <1>2, <1>4, <1>6, <2>1, <2>2 DEF PatientInv, ClientInv
<1> QED
  BY <1>6, <1>8, <1>10 DEF PatientInv

LEMMA WakePatient == ASSUME BaseInv, PatientInv, HandleWake PROVE PatientInv'
<1>1. /\ UNCHANGED customerVars /\ UNCHANGED <<busy, posted, finished, outbox, crashed>>
      /\ tmp = <<>> /\ tmp' = functors /\ functors' = <<>>
  BY DEF HandleWake, Handle, customerVars, clientVars, kernelVars, poolVars, historyVars
<1>2. Elements(<<>>) = {} /\ Distinct(<<>>)
  BY DEF Elements, Distinct
<1>3. PlacesInv'
  <2>1. Posted' = Posted /\ Waiting' = Waiting /\ \A c \in Conns : Answered(c)' = Answered(c)
    BY <1>1, <1>2 DEF Posted, Waiting, Answered
  <2>2. UNION {Answered(d)' : d \in Conns} = UNION {Answered(d) : d \in Conns}
    BY <2>1
  <2> QED
    BY <1>1, <1>2, <2>1, <2>2 DEF PatientInv, PlacesInv
<1> QED
  BY <1>1, <1>3, ClientFrame DEF PatientInv

LEMMA CallPatient ==
    ASSUME BaseInv, PatientInv, CallFunctor \/ CallDanglingFunctor
    PROVE  PatientInv'
<1>1. /\ tmp # <<>> /\ tmp' = Tail(tmp)
      /\ UNCHANGED <<busy, posted, finished, functors, phase, received, half, sent, conns>>
  BY DEF CallFunctor, CallDanglingFunctor, poolVars, clientVars
<1>2. tmp \in Seq(Requests) /\ Head(tmp) \in Requests
  BY <1>1, HeadTailProperties DEF BaseInv, AnswerInv, RequestTypes
<1>3. PICK r \in Requests : r = Head(tmp)
  BY <1>2
<1>4. /\ Elements(tmp) = {r} \cup Elements(tmp') /\ r \notin Elements(tmp')
      /\ Distinct(tmp')
  BY <1>1, <1>2, <1>3, ElementsHeadTail, DistinctTail DEF PatientInv, PlacesInv
<1>5. PICK c \in Conns : c = r[1] /\ peer[c] = "open" /\ received[c] > 0 /\ Alive(c)
  BY <1>4, WaitingIsOpen DEF Waiting
<1>6. Write(c, r)
  BY <1>3, <1>5 DEF CallFunctor, CallDanglingFunctor
<1>7. r \notin Elements(outbox[c])
  <2>1. r # Welcome
    BY ServerAssumption DEF Requests
  <2> QED
    BY <1>4, <2>1 DEF PatientInv, PlacesInv, Waiting, Answered
<1>8. /\ ~crashed' /\ peer' = peer
      /\ \A d \in Conns \ {c} : outbox'[d] = outbox[d]
      /\ Distinct(outbox'[c]) /\ Elements(outbox'[c]) = Elements(outbox[c]) \cup {r}
      /\ outbox'[c] # <<>>
      /\ outbox'[c][1] = IF outbox[c] = <<>> THEN r ELSE outbox[c][1]
  BY <1>5, <1>6, <1>7, WriteOpen
<1>9. PlacesInv'
  <2>1. /\ \A d \in Conns \ {c} : Answered(d)' = Answered(d)
        /\ Answered(c)' = Answered(c) \cup {r} /\ r \in {c} \X Nat
    BY <1>5, <1>8, ServerAssumption DEF Answered, Requests
  <2>2. Posted' = Posted /\ Waiting = Waiting' \cup {r} /\ r \notin Waiting'
    BY <1>1, <1>4 DEF Posted, Waiting, PatientInv, PlacesInv
  <2>3. UNION {Answered(d)' : d \in Conns} = {r} \cup UNION {Answered(d) : d \in Conns}
    BY <2>1
  <2>4. /\ \A w \in Workers : posted'[w] => busy'[w] # NoTask
        /\ Elements(functors') \cap Elements(tmp') = {} /\ Distinct(functors')
    BY <1>1, <1>4 DEF PatientInv, PlacesInv
  <2>5. Posted' = Waiting' \cup UNION {Answered(d)' : d \in Conns}
    BY <2>2, <2>3 DEF PatientInv, PlacesInv
  <2>6. \A d \in Conns : Answered(d)' \cap Waiting' = {}
    BY <2>1, <2>2 DEF PatientInv, PlacesInv
  <2>7. \A d \in Conns : Distinct(outbox'[d]) /\ Answered(d)' \subseteq {d} \X Nat
    BY <1>8, <2>1 DEF PatientInv, PlacesInv
  <2> QED
    BY <1>4, <2>4, <2>5, <2>6, <2>7 DEF PlacesInv
<1>10. ClientInv'
  <2>1. phase[c] \notin {"new", "queued"}
    BY <1>5, OwnerAccepted DEF BaseInv
  <2>2. outbox'[c][1] = Welcome
    BY <1>8, <2>1 DEF PatientInv, ClientInv
  <2> QED
    BY <1>1, <1>5, <1>8, <2>1, <2>2 DEF PatientInv, ClientInv
<1> QED
  BY <1>8, <1>9, <1>10 DEF PatientInv

LEMMA ClosePatient ==
    ASSUME BaseInv, PatientInv, NEW fd \in Fds, HandleClose(fd)
    PROVE  PatientInv'
<1>1. PICK c, held :
        /\ c \in Conns /\ c = conns[fd] /\ AtEnd(c)
        /\ conns' = [conns EXCEPT ![fd] = NoConn] /\ Drop(c, held)
  BY DEF HandleClose, BaseInv, IInv, Types
<1>2. UNCHANGED placeVars /\ UNCHANGED <<peer, outbox, received, half, sent, crashed>>
  BY DEF HandleClose, placeVars, poolVars, clientVars, historyVars
<1>3. \A d \in Conns : phase'[d] \in {"new", "queued"} <=> phase[d] \in {"new", "queued"}
  BY <1>1, DropPhase DEF BaseInv, Alive, Held
<1>4. peer[c] = "fin" /\ \A d \in Conns \ {c} : \A f \in Fds : conns[f] = d => conns'[f] = d
  BY <1>1 DEF AtEnd, PatientInv, ClientInv, BaseInv, IInv, Types
<1>5. ClientInv'
  BY <1>2, <1>3, <1>4 DEF PatientInv, ClientInv
<1> QED
  BY <1>2, <1>5, PlacesFrame DEF PatientInv

LEMMA MessagePatient ==
    ASSUME BaseInv, PatientInv, NEW fd \in Fds, HandleMessage(fd)
    PROVE  PatientInv'
<1>1. PICK c \in Conns :
        /\ c = conns[fd] /\ peer' = AfterRead(c) /\ received' = [received EXCEPT ![c] = @ + 1]
  BY DEF HandleMessage, BaseInv, IInv, Types
<1>2. UNCHANGED placeVars /\ UNCHANGED <<phase, outbox, half, sent, conns, crashed>>
  BY DEF HandleMessage, placeVars, poolVars, clientVars, historyVars
<1>3. peer' = peer
  <2>1. peer \in [Conns -> Peers] /\ peer[c] # "rst"
    BY DEF PatientInv, ClientInv, BaseInv, AnswerInv, ReadInv, ReadTypes
  <2> QED
    BY <1>1, <2>1 DEF AfterRead
<1>4. phase[c] \notin {"new", "queued"}
  BY <1>1, OwnerAccepted DEF BaseInv, Alive, Held
<1>5. \A d \in Conns \ {c} : received'[d] = received[d]
  BY <1>1 DEF BaseInv, IInv, Types
<1>6. ClientInv'
  BY <1>1, <1>2, <1>3, <1>4, <1>5 DEF PatientInv, ClientInv
<1> QED
  BY <1>2, <1>6, PlacesFrame DEF PatientInv

LEMMA CountsNoEnd ==
    ASSUME NEW s \in Nat, NEW h \in BOOLEAN, NEW r \in Nat
    PROVE  ~Counts(0, s, h, "fin", r, "receive")
  BY DEF Counts, Units, Spent, CutOff

(* A client that has closed has not left a message without its length.     *)
LEMMA ReceivePatient ==
    ASSUME BaseInv, PatientInv,
           ReceiveLength \/ ReceiveNoLength \/ ReceiveBody \/ ReceiveCutBody
    PROVE  PatientInv'
<1>1. PICK c \in Conns : c = cur
  BY DEF BaseInv, IInv, CurInv, ReceiveLength, ReceiveNoLength, ReceiveBody, ReceiveCutBody
<1>2. ~ReceiveNoLength
  <2>1. SUFFICES ASSUME io = "receive", AtEnd(c) PROVE FALSE
    BY <1>1 DEF ReceiveNoLength
  <2>2. peer[c] = "fin" /\ Len(inbox[c]) = 0 /\ At(c) = "receive"
    BY <1>1, <2>1, EmptySeq DEF AtEnd, PatientInv, ClientInv, At
  <2>3. sent[c] \in Nat /\ half[c] \in BOOLEAN /\ received[c] \in Nat
    BY ReadTyping DEF BaseInv, AnswerInv, ReadInv, IInv, Types
  <2>4. Counts(0, sent[c], half[c], "fin", received[c], "receive")
    BY <2>2 DEF BaseInv, AnswerInv, ReadInv, CountInv
  <2> QED
    BY <2>3, <2>4, CountsNoEnd
<1>3. /\ UNCHANGED placeVars /\ UNCHANGED <<phase, outbox, received, half, sent, conns, crashed>>
      /\ peer' = peer \/ peer' = AfterRead(c)
  BY <1>1, <1>2 DEF ReceiveLength, ReceiveBody, ReceiveCutBody, placeVars, poolVars, clientVars, historyVars
<1>4. peer' = peer
  <2>1. peer \in [Conns -> Peers] /\ peer[c] # "rst"
    BY DEF PatientInv, ClientInv, BaseInv, AnswerInv, ReadInv, ReadTypes
  <2> QED
    BY <1>3, <2>1 DEF AfterRead
<1> QED
  BY <1>3, <1>4, PlacesFrame, ClientFrame DEF PatientInv, customerVars

LEMMA SendInLoopPatient ==
    ASSUME BaseInv, PatientInv, NEW w \in Workers, SendInLoop(w)
    PROVE  PatientInv'
<1>1. /\ UNCHANGED customerVars /\ UNCHANGED <<busy, finished, tmp, outbox, crashed>>
      /\ busy[w] # NoTask /\ ~posted[w] /\ functors' = Append(functors, busy[w])
      /\ posted' = [posted EXCEPT ![w] = TRUE]
  BY DEF SendInLoop, customerVars, clientVars, kernelVars, poolVars, historyVars
<1>2. PICK r \in Requests : r = busy[w]
  BY <1>1 DEF BaseInv, AnswerInv, RequestTypes, Pool!TypeOK
<1>3. Posted' = Posted \cup {r} /\ r \notin Posted
  BY <1>2, NewlyPosted DEF BaseInv
<1>4. r \notin Waiting /\ \A c \in Conns : r \notin Answered(c)
  BY <1>3 DEF PatientInv, PlacesInv
<1>5. Elements(functors') = Elements(functors) \cup {r} /\ Distinct(functors')
  <2>1. functors \in Seq(Requests) /\ functors' = Append(functors, r)
    BY <1>1, <1>2 DEF BaseInv, AnswerInv, RequestTypes
  <2> QED
    BY <1>4, <2>1, ElementsAppend, DistinctAppend DEF PatientInv, PlacesInv, Waiting
<1>6. PlacesInv'
  <2>1. Waiting' = Waiting \cup {r} /\ \A c \in Conns : Answered(c)' = Answered(c)
    BY <1>1, <1>5 DEF Waiting, Answered
  <2>2. \A v \in Workers : posted'[v] => busy'[v] # NoTask
    BY <1>1 DEF PatientInv, PlacesInv, BaseInv, AnswerInv, HistoryTypes
  <2>3. UNION {Answered(c)' : c \in Conns} = UNION {Answered(c) : c \in Conns}
    BY <2>1
  <2>4. Elements(functors') \cap Elements(tmp') = {}
    BY <1>1, <1>4, <1>5 DEF PatientInv, PlacesInv, Waiting
  <2>5. \A c \in Conns : Answered(c)' \cap Waiting' = {}
    BY <1>4, <2>1 DEF PatientInv, PlacesInv
  <2> QED
    BY <1>1, <1>3, <1>5, <2>1, <2>2, <2>3, <2>4, <2>5 DEF PatientInv, PlacesInv
<1> QED
  BY <1>1, <1>6, ClientFrame DEF PatientInv

LEMMA TaskPatient ==
    ASSUME BaseInv, PatientInv, NEW w \in Workers, GetTask(w) \/ TaskDone(w)
    PROVE  PatientInv'
<1>1. /\ UNCHANGED <<functors, tmp, outbox, peer, received, half, sent, conns, crashed>>
  BY DEF GetTask, TaskDone, kernelVars, loopVars, clientVars, historyVars
<1>2. /\ posted \in [Workers -> BOOLEAN]
      /\ busy \in [Workers -> Requests \cup {NoTask}]
      /\ \A v \in Workers : posted[v] => busy[v] # NoTask
  BY DEF PatientInv, PlacesInv, BaseInv, AnswerInv, HistoryTypes, RequestTypes, Pool!TypeOK
<1>3. Posted' = Posted /\ \A v \in Workers : posted'[v] => busy'[v] # NoTask
  BY <1>2, PostedStays DEF BaseInv
<1>4. PlacesInv'
  BY <1>1, <1>3 DEF PatientInv, PlacesInv, Waiting, Answered
<1>5. \A d \in Conns : phase'[d] \in {"new", "queued"} <=> phase[d] \in {"new", "queued"}
  <2>1. CASE GetTask(w)
    BY <2>1 DEF GetTask, kernelVars
  <2>2. CASE TaskDone(w)
    <3>1. PICK c, held :
            c \in Conns /\ c = busy[w][1] /\ busy[w] # NoTask /\ Drop(c, held)
      BY <1>2, <2>2 DEF TaskDone, Pool!Finish, Requests
    <3>2. Alive(c)
      BY <3>1 DEF Alive, Held, TasksOf
    <3> QED
      BY <3>1, <3>2, DropPhase DEF BaseInv
  <2> QED
    BY <2>1, <2>2
<1>6. ClientInv'
  BY <1>1, <1>5 DEF PatientInv, ClientInv
<1> QED
  BY <1>1, <1>4, <1>6 DEF PatientInv

LEMMA NextPatient ==
    ASSUME Patient, BaseInv, PatientInv, [Next]_vars
    PROVE  PatientInv'
<1>1. CASE UNCHANGED <<placeVars, customerVars, crashed>>
  BY <1>1, PlacesFrame, ClientFrame DEF PatientInv
<1>2. CASE IOStep
  <2>1. CASE EpollWait \/ HandleNewConnectionFails \/ AddTask
    BY <1>1, <2>1 DEF EpollWait, HandleNewConnectionFails, AddTask, Pool!Submit, placeVars,
       customerVars, poolVars, clientVars, kernelVars, historyVars
  <2> QED
    BY <1>2, <2>1, NewConnectionPatient, WakePatient, CallPatient, ClosePatient, MessagePatient,
       ReceivePatient DEF IOStep
<1>3. CASE UNCHANGED vars
  BY <1>1, <1>3 DEF vars, placeVars, customerVars, poolVars, clientVars, kernelVars, loopVars, historyVars
<1> QED
  BY <1>2, <1>3, ClientPatient, SendInLoopPatient, TaskPatient DEF Next, WorkerStep

LEMMA InitPatient == Init => PatientInv
<1> SUFFICES ASSUME Init PROVE PatientInv
  OBVIOUS
<1>1. Elements(<<>>) = {} /\ Distinct(<<>>)
  BY DEF Elements, Distinct
<1>2. PlacesInv
  BY <1>1 DEF Init, PlacesInv, Posted, Waiting, Answered, Pool!Init
<1>3. ClientInv
  BY DEF Init, ClientInv
<1> QED
  BY <1>2, <1>3 DEF Init, PatientInv

LEMMA PatientInvariant == ASSUME Patient PROVE Spec => [](BaseInv /\ PatientInv)
<1>1. Spec => []BaseInv
  BY AnswerInvariant, SubmittedInvariant, PoolExactlyOnce, PTL DEF BaseInv
<1>2. BaseInv /\ PatientInv /\ [Next]_vars => PatientInv'
  BY NextPatient
<1> QED
  BY <1>1, <1>2, InitPatient, PTL DEF Spec

(* IcerServo.cc:37-56, TestTcpServer.cc:46-52: when clients wait for their *)
(* answers, each reads the welcome and then answers to requests of its own,*)
(* each once, however many connections, workers and descriptors there are. *)
THEOREM AnswersCorrect == ASSUME Patient PROVE Spec => []OwnAnswersOnce
<1>1. BaseInv /\ PatientInv => OwnAnswersOnce
  <2> SUFFICES ASSUME BaseInv, PatientInv, NEW c \in Conns
               PROVE  /\ Answered(c) \subseteq {c} \X (1..sent[c])
                      /\ Cardinality(Elements(outbox[c])) = Len(outbox[c])
                      /\ outbox[c] # <<>> => outbox[c][1] = Welcome
    BY DEF OwnAnswersOnce
  <2>1. Cardinality(Elements(outbox[c])) = Len(outbox[c])
    <3>1. outbox[c] \in Seq({Welcome} \cup Requests) /\ Distinct(outbox[c])
      BY DEF BaseInv, AnswerInv, RequestTypes, PatientInv, PlacesInv
    <3> QED
      BY <3>1, DistinctCardinality
  <2> QED
    BY <2>1, AnsweredIsSent DEF PatientInv, ClientInv
<1> QED
  BY <1>1, PatientInvariant, PTL

(* WorkTask.h:107, SocketIO.cc:50: with such clients no functor outlives   *)
(* its connection and no write meets a connection that has been reset.     *)
THEOREM NeverCrashed == ASSUME Patient PROVE Spec => []NotCrashed
<1>1. PatientInv => NotCrashed
  BY DEF PatientInv, NotCrashed
<1> QED
  BY <1>1, PatientInvariant, PTL
=============================================================================
