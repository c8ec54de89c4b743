-------------------------------- MODULE Server --------------------------------
(***************************************************************************)
(* The server of hpc_server: Acceptor, EventLoop, TcpConnection and the    *)
(* callbacks of IcerServo (TestTcpServer.cc has the same ones), running    *)
(* over the thread pool.                                                   *)
(*                                                                         *)
(* The pool is the one of TaskPool.tla, which Threadpool.tla implements.   *)
(* run_in_loop is one step that stores a functor and makes _eventfd        *)
(* readable, as FunctorQueue.tla has it, which EventLoop.tla implements    *)
(* and so does this module.  The clients and the kernel are the            *)
(* environment: the backlog, the two directions of each TCP connection,    *)
(* the table of file descriptors and the interest list of epoll.           *)
(*                                                                         *)
(* A connection is used once: a client that connects again is another one. *)
(* A request on the wire is two units, its length and its body, which the  *)
(* client sends one after the other.  <<c, n>> is the n-th message the     *)
(* server receives from c, and also the answer to it.                      *)
(***************************************************************************)
EXTENDS Integers, Sequences, FiniteSets

CONSTANTS Conns,    \* the connections clients may make
          NoConn,
          Workers,  \* the threads of the pool
          NoTask,
          QueSize,  \* the places in the pool's queue
          MaxFds,   \* descriptors left to connections: 1..MaxFds
          MaxReqs,  \* requests a client sends on a connection, at most
          Listen,   \* the event of _acceptor.fd()
          Wake,     \* the event of _eventfd
          Welcome,  \* the greeting of onConnection
          Patient   \* TRUE: clients close only when they have their answers

ASSUME ServerAssumption ==
    /\ NoConn \notin Conns
    /\ NoTask \notin Conns \X Nat
    /\ Welcome \notin Conns \X Nat
    /\ Listen # Wake /\ {Listen, Wake} \cap Nat = {}
    /\ QueSize \in Nat
    /\ MaxFds \in Nat
    /\ MaxReqs \in Nat
    /\ Patient \in BOOLEAN

Fds == 1..MaxFds
NoFd == 0

\* At most one message more than the client has sent is received: a broken one.
Requests == Conns \X (1..MaxReqs + 1)

VARIABLES
    \* clients
    sent,      \* sent[c]: the requests whose body the client has sent
    half,      \* half[c]: the client has sent a length and not the body
    \* kernel
    phase,     \* phase[c]: "new", "queued", "open" or "closed"
    backlog,   \* the connections listen() has queued for accept()
    fdOf,      \* fdOf[c]: the descriptor of the socket, NoFd when there is none
    peer,      \* peer[c]: "open", "fin": client closed, "rst": reset and the
               \* error not reported yet, "gone": reset and reported
    inbox,     \* inbox[c]: the units the server has not read
    outbox,    \* outbox[c]: what has been written to the client
    interest,  \* the connection descriptors registered with epoll
    \* EventLoop
    io,        \* where the IO thread is
    batch,     \* the events of the last epoll_wait still to be handled
    conns,     \* _conns
    ghost,     \* _conns has an entry for descriptor -1
    functors,  \* _pendingFunctors: the answers to be sent, by raw pointer
    tmp,       \* the functors do_pending_functors has still to call
    cur,       \* the connection whose message is being received
    received,  \* received[c]: the messages received from c
    broken,    \* the messages that were delivered without being whole
    \* Threadpool and its workers
    buffer, busy, submitted, finished,
    posted,    \* posted[w]: the task of w has called send_in_loop
    \* history
    heirs,     \* heirs[c]: connections made since the object of c was destroyed
    crashed    \* the process has been killed

clientVars == <<sent, half>>
kernelVars == <<phase, backlog, fdOf, peer, inbox, outbox, interest>>
loopVars == <<io, batch, conns, ghost, functors, tmp, cur, received, broken>>
poolVars == <<buffer, busy, submitted, finished>>
historyVars == <<heirs, crashed>>
vars == <<clientVars, kernelVars, loopVars, poolVars, posted, historyVars>>

Pool == INSTANCE TaskPool WITH Tasks <- Requests

Init ==
    /\ sent = [c \in Conns |-> 0]
    /\ half = [c \in Conns |-> FALSE]
    /\ phase = [c \in Conns |-> "new"]
    /\ backlog = <<>>
    /\ fdOf = [c \in Conns |-> NoFd]
    /\ peer = [c \in Conns |-> "open"]
    /\ inbox = [c \in Conns |-> <<>>]
    /\ outbox = [c \in Conns |-> <<>>]
    /\ interest = {}
    /\ io = "loop"
    /\ batch = {}
    /\ conns = [fd \in Fds |-> NoConn]
    /\ ghost = FALSE
    /\ functors = <<>>
    /\ tmp = <<>>
    /\ cur = NoConn
    /\ received = [c \in Conns |-> 0]
    /\ broken = {}
    /\ Pool!Init
    /\ posted = [w \in Workers |-> FALSE]
    /\ heirs = [c \in Conns |-> {}]
    /\ crashed = FALSE

-----------------------------------------------------------------------------
(* Helpers.                                                                *)

Elements(s) == {s[i] : i \in 1..Len(s)}
Answered(c) == Elements(outbox[c]) \ {Welcome}

FreeFds == {fd \in Fds : \A c \in Conns : fdOf[c] # fd}
Lowest == {fd \in FreeFds : \A other \in FreeFds : fd <= other}

(* What recv() on the socket of c says when there is no data: 0 or an      *)
(* error, which is reported once.                                          *)
AtEnd(c) == inbox[c] = <<>> /\ peer[c] # "open"
AfterRead(c) == [peer EXCEPT ![c] = IF AtEnd(c) /\ @ = "rst" THEN "gone" ELSE @]

(* The messages whose WorkTask holds a shared_ptr to their connection.     *)
TasksOf(buf, bsy) == Elements(buf) \cup ({bsy[w] : w \in Workers} \ {NoTask})

(* The TcpConnection of c exists while _conns or a WorkTask points to it.  *)
Held(c, map, buf, bsy) ==
    (\E fd \in Fds : map[fd] = c) \/ (\E t \in TasksOf(buf, bsy) : t[1] = c)
Alive(c) == Held(c, conns, buffer, busy)

\* mutation: the destructor does not close the descriptor
DropLeak(c, held) == UNCHANGED <<fdOf, phase>>

(* ~TcpConnection and ~Socket when the last pointer to c is dropped: the   *)
(* descriptor is closed, and may be given to the next connection.          *)
Drop(c, held) ==
    /\ fdOf' = IF held THEN fdOf ELSE [fdOf EXCEPT ![c] = NoFd]
    /\ phase' = IF held THEN phase ELSE [phase EXCEPT ![c] = "closed"]

(* SocketIO::writen to the socket of c.  A client that has closed answers  *)
(* with a reset, sooner or later; the first error is reported, after which *)
(* a write raises SIGPIPE, which nobody handles.                           *)
Write(c, item) ==
    /\ outbox' = IF peer[c] = "open" THEN [outbox EXCEPT ![c] = Append(@, item)]
                                     ELSE outbox
    /\ \/ peer[c] = "open" /\ peer' = peer
       \/ peer[c] = "fin" /\ \E p \in {"fin", "rst"} : peer' = [peer EXCEPT ![c] = p]
       \/ peer[c] \in {"rst", "gone"} /\ peer' = [peer EXCEPT ![c] = "gone"]
    /\ crashed' = (peer[c] = "gone")

-----------------------------------------------------------------------------
(* The clients.                                                            *)

Connect(c) ==
    /\ ~crashed
    /\ phase[c] = "new"
    /\ phase' = [phase EXCEPT ![c] = "queued"]
    /\ backlog' = Append(backlog, c)
    /\ UNCHANGED <<clientVars, fdOf, peer, inbox, outbox, interest, loopVars,
                   poolVars, posted, historyVars>>

CanSend(c) == phase[c] \in {"queued", "open"} /\ peer[c] = "open"

SendLength(c) ==
    /\ ~crashed
    /\ CanSend(c) /\ ~half[c] /\ sent[c] < MaxReqs
    /\ half' = [half EXCEPT ![c] = TRUE]
    /\ inbox' = [inbox EXCEPT ![c] = Append(@, "length")]
    /\ UNCHANGED <<sent, phase, backlog, fdOf, peer, outbox, interest, loopVars,
                   poolVars, posted, historyVars>>

SendBody(c) ==
    /\ ~crashed
    /\ CanSend(c) /\ half[c]
    /\ half' = [half EXCEPT ![c] = FALSE]
    /\ sent' = [sent EXCEPT ![c] = @ + 1]
    /\ inbox' = [inbox EXCEPT ![c] = Append(@, "body")]
    /\ UNCHANGED <<phase, backlog, fdOf, peer, outbox, interest, loopVars,
                   poolVars, posted, historyVars>>

(* A client in a hurry closes whatever it waits for, and what it has not   *)
(* read makes its kernel send a reset.                                     *)
Close(c) ==
    /\ ~crashed
    /\ CanSend(c)
    /\ Patient => ~half[c] /\ Len(outbox[c]) = 1 + sent[c]
    /\ \E p \in IF Patient THEN {"fin"} ELSE {"fin", "rst"} :
        peer' = [peer EXCEPT ![c] = p]
    /\ UNCHANGED <<clientVars, phase, backlog, fdOf, inbox, outbox, interest,
                   loopVars, poolVars, posted, historyVars>>

-----------------------------------------------------------------------------
(* The IO thread: EventLoop::wait_epollfd.                                 *)

(* epoll is level triggered, and closing a descriptor removes it.          *)
Readable(fd) == \E c \in Conns : fdOf[c] = fd /\ (inbox[c] # <<>> \/ AtEnd(c))

Ready ==
    (IF backlog # <<>> THEN {Listen} ELSE {})
        \cup (IF functors # <<>> THEN {Wake} ELSE {})
        \cup {fd \in interest : Readable(fd)}

(* The events come in any order: the IO thread takes one after the other   *)
(* out of the batch, and waits again when it has handled them all.         *)
EpollWait ==
    /\ ~crashed
    /\ io = "loop" /\ tmp = <<>> /\ batch = {}
    /\ Ready # {}
    /\ batch' = Ready
    /\ UNCHANGED <<clientVars, kernelVars, io, conns, ghost, functors, tmp, cur,
                   received, broken, poolVars, posted, historyVars>>

Handle(event) ==
    /\ ~crashed
    /\ io = "loop" /\ tmp = <<>>
    /\ event \in batch
    /\ batch' = batch \ {event}

(* EventLoop::handle_new_connection with onConnection.                     *)
HandleNewConnection ==
    /\ Handle(Listen)
    /\ LET c == Head(backlog)
       IN \E fd \in Lowest :
          /\ fdOf' = [fdOf EXCEPT ![c] = fd]
          /\ phase' = [phase EXCEPT ![c] = "open"]
          /\ interest' = interest \cup {fd}
          /\ conns' = [conns EXCEPT ![fd] = IF @ = NoConn THEN c ELSE @]
          /\ heirs' = [d \in Conns |->
                          IF phase[d] = "closed" THEN heirs[d] \cup {c} ELSE heirs[d]]
          /\ Write(c, Welcome)
    /\ backlog' = Tail(backlog)
    /\ UNCHANGED <<clientVars, inbox, io, ghost, functors, tmp, cur, received,
                   broken, poolVars, posted>>

(* accept() fails, out of descriptors: the connection stays in the backlog *)
(* and an entry for descriptor -1 goes into _conns, once.                  *)
HandleNewConnectionFails ==
    /\ Handle(Listen)
    /\ FreeFds = {}
    /\ ghost' = TRUE
    /\ UNCHANGED <<clientVars, kernelVars, io, conns, functors, tmp, cur,
                   received, broken, poolVars, posted, historyVars>>

\* mutation: the pending functors are copied and not taken
HandleWakeCopy ==
    /\ Handle(Wake)
    /\ tmp' = functors
    /\ UNCHANGED <<clientVars, kernelVars, io, conns, ghost, functors, cur,
                   received, broken, poolVars, posted, historyVars>>

(* EventLoop::hand_read and the swap of do_pending_functors.               *)
HandleWake ==
    /\ Handle(Wake)
    /\ tmp' = functors
    /\ functors' = <<>>
    /\ UNCHANGED <<clientVars, kernelVars, io, conns, ghost, cur, received, broken,
                   poolVars, posted, historyVars>>

(* TcpConnection::send on a connection that exists.                        *)
CallFunctor ==
    /\ ~crashed
    /\ tmp # <<>>
    /\ LET r == Head(tmp) IN Alive(r[1]) /\ Write(r[1], r)
    /\ tmp' = Tail(tmp)
    /\ UNCHANGED <<clientVars, phase, backlog, fdOf, inbox, interest, io, batch,
                   conns, ghost, functors, cur, received, broken, poolVars,
                   posted, heirs>>

(* The functor holds a raw pointer to a connection that has been           *)
(* destroyed: the process dies, nothing is written, or the memory or the   *)
(* descriptor belong to a later connection, which gets the answer.         *)
CallDanglingFunctor ==
    /\ ~crashed
    /\ tmp # <<>>
    /\ LET r == Head(tmp)
       IN /\ ~Alive(r[1])
          /\ \/ \E d \in heirs[r[1]] : fdOf[d] # NoFd /\ Write(d, r)
             \/ \E dies \in BOOLEAN : crashed' = dies /\ UNCHANGED <<outbox, peer>>
    /\ tmp' = Tail(tmp)
    /\ UNCHANGED <<clientVars, phase, backlog, fdOf, inbox, interest, io, batch,
                   conns, ghost, functors, cur, received, broken, poolVars,
                   posted, heirs>>

\* mutation: del_epollfd_read is forgotten
HandleCloseWatched(fd) ==
    /\ Handle(fd)
    /\ LET c == conns[fd]
       IN /\ c # NoConn
          /\ AtEnd(c) /\ peer[c] # "rst"
          /\ conns' = [conns EXCEPT ![fd] = NoConn]
          /\ LET held == Held(c, conns', buffer, busy)
             IN /\ interest' = IF held THEN interest ELSE interest \ {fd}
                /\ Drop(c, held)
    /\ UNCHANGED <<clientVars, backlog, peer, inbox, outbox, io, ghost, functors,
                   tmp, cur, received, broken, poolVars, posted, historyVars>>

\* mutation: the descriptor is closed although a task holds the connection
HandleCloseNow(fd) ==
    /\ Handle(fd)
    /\ LET c == conns[fd]
       IN /\ c # NoConn
          /\ AtEnd(c) /\ peer[c] # "rst"
          /\ conns' = [conns EXCEPT ![fd] = NoConn]
          /\ interest' = interest \ {fd}
          /\ Drop(c, FALSE)
    /\ UNCHANGED <<clientVars, backlog, peer, inbox, outbox, io, ghost, functors,
                   tmp, cur, received, broken, poolVars, posted, historyVars>>

(* EventLoop::handle_message with is_connection_closed and onClose: the    *)
(* connection is at its end.                                               *)
HandleClose(fd) ==
    /\ Handle(fd)
    /\ LET c == conns[fd]
       IN /\ c # NoConn
          /\ AtEnd(c) /\ peer[c] # "rst"
          /\ conns' = [conns EXCEPT ![fd] = NoConn]
          /\ interest' = interest \ {fd}
          /\ Drop(c, Held(c, conns', buffer, busy))
    /\ UNCHANGED <<clientVars, backlog, peer, inbox, outbox, io, ghost, functors,
                   tmp, cur, received, broken, poolVars, posted, historyVars>>

\* mutation: is_connection_closed is not asked
HandleMessageAlways(fd) ==
    /\ Handle(fd)
    /\ LET c == conns[fd]
       IN /\ c # NoConn
          /\ peer' = AfterRead(c)
          /\ cur' = c
          /\ received' = [received EXCEPT ![c] = @ + 1]
    /\ io' = "receive"
    /\ UNCHANGED <<clientVars, phase, backlog, fdOf, inbox, outbox, interest,
                   conns, ghost, functors, tmp, broken, poolVars, posted,
                   historyVars>>

(* EventLoop::handle_message with onMessage.  The error of a reset is      *)
(* taken by the peek of is_connection_closed, which does not call it a     *)
(* close.                                                                  *)
HandleMessage(fd) ==
    /\ Handle(fd)
    /\ LET c == conns[fd]
       IN /\ c # NoConn
          /\ ~(AtEnd(c) /\ peer[c] # "rst")
          /\ peer' = AfterRead(c)
          /\ cur' = c
          /\ received' = [received EXCEPT ![c] = @ + 1]
    /\ io' = "receive"
    /\ UNCHANGED <<clientVars, phase, backlog, fdOf, inbox, outbox, interest,
                   conns, ghost, functors, tmp, broken, poolVars, posted,
                   historyVars>>

CurRequest == <<cur, received[cur]>>

(* TcpConnection::receive reads the length, then the body; readn blocks    *)
(* the IO thread until it has them or the connection ends.                 *)
ReceiveLength ==
    /\ ~crashed
    /\ io = "receive" /\ inbox[cur] # <<>>
    /\ io' = "receive_body"
    /\ inbox' = [inbox EXCEPT ![cur] = Tail(@)]
    /\ UNCHANGED <<clientVars, phase, backlog, fdOf, peer, outbox, interest,
                   batch, conns, ghost, functors, tmp, cur, received, broken,
                   poolVars, posted, historyVars>>

(* The length is never set: the message is what the stack holds, and the   *)
(* copy may run off the buffer.                                            *)
ReceiveNoLength ==
    /\ ~crashed
    /\ io = "receive" /\ AtEnd(cur)
    /\ io' = "add_task"
    /\ broken' = broken \cup {CurRequest}
    /\ peer' = AfterRead(cur)
    /\ crashed' \in BOOLEAN
    /\ UNCHANGED <<clientVars, phase, backlog, fdOf, inbox, outbox, interest,
                   batch, conns, ghost, functors, tmp, cur, received, poolVars,
                   posted, heirs>>

ReceiveBody ==
    /\ ~crashed
    /\ io = "receive_body" /\ inbox[cur] # <<>>
    /\ io' = "add_task"
    /\ inbox' = [inbox EXCEPT ![cur] = Tail(@)]
    /\ UNCHANGED <<clientVars, phase, backlog, fdOf, peer, outbox, interest,
                   batch, conns, ghost, functors, tmp, cur, received, broken,
                   poolVars, posted, historyVars>>

(* The rest of the body is left zero, and nobody looks at what readn       *)
(* returned.                                                               *)
ReceiveCutBody ==
    /\ ~crashed
    /\ io = "receive_body" /\ AtEnd(cur)
    /\ io' = "add_task"
    /\ broken' = broken \cup {CurRequest}
    /\ peer' = AfterRead(cur)
    /\ UNCHANGED <<clientVars, phase, backlog, fdOf, inbox, outbox, interest,
                   batch, conns, ghost, functors, tmp, cur, received, poolVars,
                   posted, historyVars>>

\* mutation: a message that finds the queue full is dropped
AddTaskOrDrop ==
    /\ ~crashed
    /\ io = "add_task"
    /\ IF Len(buffer) < QueSize THEN Pool!Submit(CurRequest) ELSE UNCHANGED poolVars
    /\ io' = "loop"
    /\ cur' = NoConn
    /\ UNCHANGED <<clientVars, kernelVars, batch, conns, ghost, functors, tmp,
                   received, broken, posted, historyVars>>

(* IcerServo::onMessage hands the WorkTask to the pool, and waits while    *)
(* the queue is full.                                                      *)
AddTask ==
    /\ ~crashed
    /\ io = "add_task"
    /\ Pool!Submit(CurRequest)
    /\ io' = "loop"
    /\ cur' = NoConn
    /\ UNCHANGED <<clientVars, kernelVars, batch, conns, ghost, functors, tmp,
                   received, broken, posted, historyVars>>

-----------------------------------------------------------------------------
(* A worker: WorkTask::process.                                            *)

GetTask(w) ==
    /\ ~crashed
    /\ Pool!Take(w)
    /\ UNCHANGED <<clientVars, kernelVars, loopVars, posted, historyVars>>

(* TcpConnection::send_in_loop.                                            *)
SendInLoop(w) ==
    /\ ~crashed
    /\ busy[w] # NoTask /\ ~posted[w]
    /\ posted' = [posted EXCEPT ![w] = TRUE]
    /\ functors' = Append(functors, busy[w])
    /\ UNCHANGED <<clientVars, kernelVars, io, batch, conns, ghost, tmp, cur,
                   received, broken, poolVars, historyVars>>

(* The WorkTask is destroyed with the pointer it holds; if that was the    *)
(* last one this thread closes the connection.                             *)
TaskDone(w) ==
    /\ ~crashed
    /\ posted[w]
    /\ Pool!Finish(w)
    /\ posted' = [posted EXCEPT ![w] = FALSE]
    /\ LET c == busy[w][1] IN Drop(c, Held(c, conns, buffer, busy'))
    /\ UNCHANGED <<clientVars, backlog, peer, inbox, outbox, interest, loopVars,
                   historyVars>>

-----------------------------------------------------------------------------

ClientStep(c) == Connect(c) \/ SendLength(c) \/ SendBody(c) \/ Close(c)

IOStep ==
    \/ EpollWait
    \/ HandleNewConnection \/ HandleNewConnectionFails
    \/ HandleWake \/ CallFunctor \/ CallDanglingFunctor
    \/ \E fd \in Fds : HandleClose(fd) \/ HandleMessage(fd)
    \/ ReceiveLength \/ ReceiveNoLength \/ ReceiveBody \/ ReceiveCutBody
    \/ AddTask

WorkerStep(w) == GetTask(w) \/ SendInLoop(w) \/ TaskDone(w)

Next ==
    \/ \E c \in Conns : ClientStep(c)
    \/ IOStep
    \/ \E w \in Workers : WorkerStep(w)

Spec == Init /\ [][Next]_vars

(* The threads are scheduled, and a client that has sent a length sends    *)
(* the body or closes: a client that does neither keeps the IO thread, and *)
(* with it everybody else, in readn for ever.                              *)
Fairness ==
    /\ WF_vars(IOStep)
    /\ \A w \in Workers : WF_vars(WorkerStep(w))
    /\ \A c \in Conns : WF_vars(SendBody(c))

FairSpec == Spec /\ Fairness

(* Clients that also close in the end.                                     *)
FairClientSpec == FairSpec /\ \A c \in Conns : WF_vars(Close(c))

-----------------------------------------------------------------------------
(* Properties.                                                             *)

TypeOK ==
    /\ sent \in [Conns -> 0..MaxReqs]
    /\ half \in [Conns -> BOOLEAN]
    /\ phase \in [Conns -> {"new", "queued", "open", "closed"}]
    /\ backlog \in Seq(Conns)
    /\ fdOf \in [Conns -> Fds \cup {NoFd}]
    /\ peer \in [Conns -> {"open", "fin", "rst", "gone"}]
    /\ inbox \in [Conns -> Seq({"length", "body"})]
    /\ outbox \in [Conns -> Seq({Welcome} \cup Requests)]
    /\ interest \subseteq Fds
    /\ io \in {"loop", "receive", "receive_body", "add_task"}
    /\ batch \subseteq Fds \cup {Listen, Wake}
    /\ conns \in [Fds -> Conns \cup {NoConn}]
    /\ ghost \in BOOLEAN
    /\ functors \in Seq(Requests)
    /\ tmp \in Seq(Requests)
    /\ cur \in Conns \cup {NoConn}
    /\ received \in [Conns -> 0..MaxReqs + 1]
    /\ broken \subseteq Requests
    /\ Pool!TypeOK
    /\ posted \in [Workers -> BOOLEAN]
    /\ heirs \in [Conns -> SUBSET Conns]
    /\ crashed \in BOOLEAN

(* EventLoop.cc:122, the assertion: an event that is about to be handled   *)
(* finds its connection, whatever was closed, accepted and given the same  *)
(* descriptor since epoll_wait reported it.                                *)
EventFindsConnection == \A fd \in batch \cap Fds : conns[fd] # NoConn

(* EventLoop.cc:104-131, Socket.cc:33: a connection in _conns has the      *)
(* descriptor it is filed under, open and watched; a connection that only  *)
(* a task still holds is not watched; no two share a descriptor.           *)
DescriptorsOwned ==
    /\ \A fd \in Fds : conns[fd] # NoConn => fdOf[conns[fd]] = fd
    /\ interest = {fd \in Fds : conns[fd] # NoConn}
    /\ \A c, d \in Conns : fdOf[c] = fdOf[d] /\ fdOf[c] # NoFd => c = d
    /\ \A c \in Conns : Alive(c) <=> fdOf[c] # NoFd

(* TcpConnection.cc:79-83, EventLoop.cc:158-168: the answers go to the     *)
(* loop as functors, each once, and it calls them in the order in which    *)
(* they were stored, whatever becomes of their connections.                *)
Posted == finished \cup {busy[w] : w \in {v \in Workers : posted[v]}}
Waiting == Elements(functors) \cup Elements(tmp)
Loop == INSTANCE FunctorQueue WITH Functors <- Requests,
                                   waiting <- tmp \o functors,
                                   called <- Posted \ Waiting
RunsItsLoop == Loop!Spec

(* TestTcpServer.cc:46-52, IcerServo.cc:37-56: what a client reads is the  *)
(* welcome, then an answer to a request of its own, each once.             *)
OwnAnswersOnce ==
    \A c \in Conns :
        /\ Answered(c) \subseteq {c} \X (1..sent[c])
        /\ Cardinality(Elements(outbox[c])) = Len(outbox[c])
        /\ outbox[c] # <<>> => outbox[c][1] = Welcome

(* WorkTask.h:107, TestTcpServer.cc:46: an answer goes to the connection    *)
(* its message came from.                                                  *)
AnswerToItsConnection == \A c \in Conns : \A r \in Answered(c) : r[1] = c

(* No write raises SIGPIPE and no functor outlives its connection.         *)
NotCrashed == ~crashed

(* IcerServo.cc:43-56: every whole request is answered.                    *)
EveryRequestAnswered ==
    \A c \in Conns : \A n \in 1..MaxReqs : sent[c] >= n ~> <<c, n>> \in Answered(c)

(* EventLoop.cc:126-130: a connection whose client has closed is closed,   *)
(* its descriptor is free again and those in the backlog get their turn.   *)
EveryConnectionServed ==
    \A c \in Conns : phase[c] = "queued" ~> (phase[c] = "closed" \/ crashed)
=============================================================================
