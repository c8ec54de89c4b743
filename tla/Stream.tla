-------------------------------- MODULE Stream --------------------------------
(***************************************************************************)
(* One connection, byte by byte: TcpConnection::receive and send, and the  *)
(* loops of SocketIO::readn and writen, over the two directions of a TCP   *)
(* connection whose socket buffers hold PipeSize bytes each.  The client   *)
(* writes and reads in pieces of any size.                                 *)
(*                                                                         *)
(* A message goes over the wire as its length, an int of LenBytes bytes,   *)
(* and its bytes.  A byte the client sends is the number of its place in   *)
(* the client's stream; the length and the body that the server reads are  *)
(* then the places of the bytes they were put together from.               *)
(*                                                                         *)
(* readn and writen also go round their loops for EINTR, with nothing      *)
(* changed.  What becomes of answers whose client has closed is in         *)
(* Server.tla; here the kernel discards what is written to such a client.  *)
(***************************************************************************)
EXTENDS Integers, Sequences, FiniteSets

CONSTANTS LenBytes,  \* sizeof(int), the length in front of a message
          BufSize,   \* TcpConnection::receive, buff; train_t::Buf
          PipeSize,  \* what a socket buffer holds
          Sizes,     \* the sizes of the messages the client sends, in order
          WelcomeSize,
          Broken     \* what receive() returns of a message that was cut off

N == Len(Sizes)

ASSUME StreamAssumption ==
    /\ LenBytes \in Nat \ {0}
    /\ PipeSize \in Nat \ {0}
    /\ BufSize \in Nat
    /\ Sizes \in Seq(0..BufSize)
    /\ WelcomeSize \in 0..BufSize
    /\ Broken \notin Seq(Nat)

(* Offset[k]: the bytes of the first k messages with their lengths.        *)
Offset[k \in 0..N] ==
    IF k = 0 THEN 0 ELSE Offset[k - 1] + LenBytes + Sizes[k]

Payload(k) == [i \in 1..Sizes[k] |-> Offset[k - 1] + LenBytes + i]

VARIABLES
    wrote,     \* how many bytes the client has written
    closed,    \* the client has closed its socket
    reset,     \* it closed by a reset, which no call has returned yet
    got,       \* the bytes the client has read
    up, down,  \* the bytes on their way to the server, to the client
    io,        \* where the IO thread is
    hdr,       \* receive: the bytes of recvDatalen that readn has read
    body,      \* receive: the bytes of buff that readn has read
    out,       \* send: the bytes of train that writen has still to write
    work,      \* the messages in the pool, as indices into received
    functors,  \* the answers to be sent, as indices into received
    received,  \* history: what receive() returned
    cut,       \* history: the last of received is not whole
    answered   \* history: the answers whose sending has begun, in order

clientVars == <<wrote, closed, reset, got>>
ioVars == <<io, hdr, body, out>>
poolVars == <<work, functors>>
historyVars == <<received, cut, answered>>
vars == <<clientVars, up, down, ioVars, poolVars, historyVars>>

(* TcpConnection::send: train.DataLen and the bytes of the message.        *)
Train(msg) == [i \in 1..LenBytes |-> <<"length", Len(msg), i>>] \o msg
Welcome == [i \in 1..WelcomeSize |-> <<"welcome", i>>]

(* The task answers a message with its bytes.  What it answers to Broken   *)
(* matters to nobody: the client has closed.                               *)
Answer(msg) ==
    IF msg = Broken THEN <<>> ELSE [i \in 1..Len(msg) |-> <<"byte", msg[i]>>]

(* onConnection has just been called: the welcome is being written.        *)
Init ==
    /\ wrote = 0 /\ closed = FALSE /\ reset = FALSE /\ got = <<>>
    /\ up = <<>> /\ down = <<>>
    /\ io = "send" /\ hdr = <<>> /\ body = <<>> /\ out = Train(Welcome)
    /\ work = {} /\ functors = <<>>
    /\ received = <<>> /\ cut = FALSE /\ answered = <<>>

(* The kernel hands over the first j bytes of what waits in s, as many as  *)
(* it likes up to the number asked for.                                    *)
Pieces(s, most) == 1..(IF Len(s) < most THEN Len(s) ELSE most)
First(s, j) == SubSeq(s, 1, j)
Rest(s, j) == SubSeq(s, j + 1, Len(s))

-----------------------------------------------------------------------------
(* The client.                                                             *)

ClientWrite ==
    /\ ~closed
    /\ \E j \in 1..Offset[N] - wrote :
        /\ Len(up) + j <= PipeSize
        /\ up' = up \o [i \in 1..j |-> wrote + i]
        /\ wrote' = wrote + j
    /\ UNCHANGED <<closed, reset, got, down, ioVars, poolVars, historyVars>>

ClientRead ==
    /\ ~closed
    /\ \E j \in Pieces(down, PipeSize) :
        /\ got' = got \o First(down, j)
        /\ down' = Rest(down, j)
    /\ UNCHANGED <<wrote, closed, reset, up, ioVars, poolVars, historyVars>>

(* A client that closes with bytes it has not read sends a reset.          *)
ClientClose ==
    /\ ~closed
    /\ closed' = TRUE
    /\ reset' = (down # <<>>)
    /\ UNCHANGED <<wrote, got, up, down, ioVars, poolVars, historyVars>>

-----------------------------------------------------------------------------
(* The IO thread.                                                          *)

(* EventLoop::handle_message, is_connection_closed having peeked.  A peek  *)
(* that returns the reset returns -1, which is not taken for a close.      *)
HandleMessage ==
    /\ io = "loop"
    /\ up # <<>> \/ reset
    /\ reset' = (reset /\ up # <<>>)
    /\ io' = "header"
    /\ UNCHANGED <<wrote, closed, got, up, down, hdr, body, out, poolVars, historyVars>>

HandleClose ==
    /\ io = "loop"
    /\ up = <<>> /\ closed /\ ~reset
    /\ io' = "closed"
    /\ UNCHANGED <<clientVars, up, down, hdr, body, out, poolVars, historyVars>>

\* mutation: one read() for the length, however little it gives
ReadHeaderOnce ==
    /\ io = "header"
    /\ \E j \in Pieces(up, LenBytes) :
        /\ hdr' = First(up, j)
        /\ up' = Rest(up, j)
    /\ io' = "body"
    /\ UNCHANGED <<clientVars, down, body, out, poolVars, historyVars>>

\* mutation: each read() asks for the whole length again
ReadHeaderAgain ==
    /\ io = "header"
    /\ \E j \in Pieces(up, LenBytes) :
        /\ hdr' = hdr \o First(up, j)
        /\ up' = Rest(up, j)
    /\ io' = IF Len(hdr') >= LenBytes THEN "body" ELSE "header"
    /\ UNCHANGED <<clientVars, down, body, out, poolVars, historyVars>>

(* readn(&recvDatalen, 4).                                                 *)
ReadHeader ==
    /\ io = "header"
    /\ \E j \in Pieces(up, LenBytes - Len(hdr)) :
        /\ hdr' = hdr \o First(up, j)
        /\ up' = Rest(up, j)
    /\ io' = IF Len(hdr') = LenBytes THEN "body" ELSE "header"
    /\ UNCHANGED <<clientVars, down, body, out, poolVars, historyVars>>

(* recvDatalen: the size of the message whose length the bytes are, or     *)
(* anything when they are not the length of a message.                     *)
DataLen ==
    {n \in 0..BufSize :
        \A k \in 1..N : (hdr = [i \in 1..LenBytes |-> Offset[k - 1] + i]) => n = Sizes[k]}

\* mutation: one read() for the body, however little it gives
ReadBodyOnce ==
    /\ io = "body" /\ body = <<>>
    /\ \E n \in DataLen :
        /\ n > 0
        /\ \E j \in Pieces(up, n) :
            /\ body' = First(up, j)
            /\ up' = Rest(up, j)
    /\ io' = "add_task"
    /\ UNCHANGED <<clientVars, down, hdr, out, poolVars, historyVars>>

(* readn(buff, recvDatalen), which reads nothing when the length is 0.     *)
ReadBody ==
    /\ io = "body"
    /\ \E n \in DataLen :
        /\ Len(body) < n
        /\ \E j \in Pieces(up, n - Len(body)) :
            /\ body' = body \o First(up, j)
            /\ up' = Rest(up, j)
    /\ UNCHANGED <<clientVars, down, io, hdr, out, poolVars, historyVars>>

ReadReturns ==
    /\ io = "body"
    /\ Len(body) \in DataLen
    /\ io' = "add_task"
    /\ UNCHANGED <<clientVars, up, down, hdr, body, out, poolVars, historyVars>>

(* readn returns early at the end of the stream, and receive() goes on as  *)
(* if it had all been read.  When recvDatalen has not been read the copy   *)
(* from buff has any length, and may run off the stack.                    *)
ReadEnds ==
    /\ io \in {"header", "body"}
    /\ up = <<>> /\ closed
    /\ io = "body" => Len(body) \notin DataLen
    /\ reset' = FALSE
    /\ \/ io' = "add_task"
       \/ io = "header" /\ io' = "crashed"
    /\ cut' = TRUE
    /\ UNCHANGED <<wrote, closed, got, up, down, hdr, body, out, poolVars, received, answered>>

(* onMessage: what receive() returned goes to the pool.                    *)
AddTask ==
    /\ io = "add_task"
    /\ received' = Append(received, IF cut THEN Broken ELSE body)
    /\ work' = work \cup {Len(received')}
    /\ hdr' = <<>> /\ body' = <<>>
    /\ io' = "loop"
    /\ UNCHANGED <<clientVars, up, down, out, functors, cut, answered>>

(* A worker: send_in_loop.                                                 *)
SendInLoop ==
    /\ io # "crashed"
    /\ \E k \in work :
        /\ work' = work \ {k}
        /\ functors' = Append(functors, k)
    /\ UNCHANGED <<clientVars, up, down, ioVars, historyVars>>

(* The IO thread calls the functor, TcpConnection::send.                   *)
Send ==
    /\ io = "loop" /\ functors # <<>>
    /\ out' = Train(Answer(received[Head(functors)]))
    /\ answered' = Append(answered, Head(functors))
    /\ functors' = Tail(functors)
    /\ io' = "send"
    /\ UNCHANGED <<clientVars, up, down, hdr, body, work, received, cut>>

\* mutation: one write() for the train, however little it takes
WriteOnce ==
    /\ io = "send" /\ out # <<>> /\ ~closed
    /\ \E j \in Pieces(out, PipeSize - Len(down)) : down' = down \o First(out, j)
    /\ out' = <<>>
    /\ UNCHANGED <<clientVars, up, io, hdr, body, poolVars, historyVars>>

\* mutation: waits until all of the train fits
WriteWhole ==
    /\ io = "send" /\ out # <<>> /\ ~closed
    /\ Len(down) + Len(out) <= PipeSize
    /\ down' = down \o out
    /\ out' = <<>>
    /\ UNCHANGED <<clientVars, up, io, hdr, body, poolVars, historyVars>>

(* writen: the IO thread waits here while the client does not read.        *)
Write ==
    /\ io = "send" /\ out # <<>> /\ ~closed
    /\ \E j \in Pieces(out, PipeSize - Len(down)) :
        /\ down' = down \o First(out, j)
        /\ out' = Rest(out, j)
    /\ UNCHANGED <<clientVars, up, io, hdr, body, poolVars, historyVars>>

(* write() fails, which writen returns from, or takes it for nothing.      *)
WriteFails ==
    /\ io = "send" /\ out # <<>> /\ closed
    /\ reset' = FALSE
    /\ out' = <<>>
    /\ UNCHANGED <<wrote, closed, got, up, down, io, hdr, body, poolVars, historyVars>>

WriteReturns ==
    /\ io = "send" /\ out = <<>>
    /\ io' = "loop"
    /\ UNCHANGED <<clientVars, up, down, hdr, body, out, poolVars, historyVars>>

-----------------------------------------------------------------------------
Client == ClientWrite \/ ClientRead \/ ClientClose

Loop ==
    \/ HandleMessage \/ HandleClose
    \/ ReadHeader \/ ReadBody \/ ReadReturns \/ ReadEnds \/ AddTask
    \/ Send \/ Write \/ WriteFails \/ WriteReturns

Next == Client \/ Loop \/ SendInLoop

Spec == Init /\ [][Next]_vars

(* The client goes on with a message it has begun, and reads; it need not  *)
(* begin one, nor close.                                                   *)
MidMessage == wrote \notin {Offset[k] : k \in 0..N}

Fairness ==
    /\ WF_vars(Loop)
    /\ WF_vars(SendInLoop)
    /\ WF_vars(ClientRead)
    /\ WF_vars(MidMessage /\ ClientWrite)

FairSpec == Spec /\ Fairness

-----------------------------------------------------------------------------
(* Type invariant: each variable has its type, and the socket buffers and  *)
(* what receive() has read stay within their sizes.                        *)
TypeOK ==
    /\ wrote \in 0..Offset[N]
    /\ closed \in BOOLEAN /\ reset \in BOOLEAN /\ cut \in BOOLEAN
    /\ io \in {"loop", "header", "body", "add_task", "send", "closed", "crashed"}
    /\ up \in Seq(1..Offset[N]) /\ Len(up) <= PipeSize
    /\ hdr \in Seq(1..Offset[N]) /\ Len(hdr) <= LenBytes
    /\ body \in Seq(1..Offset[N]) /\ Len(body) <= BufSize
    /\ Len(down) <= PipeSize
    /\ \A k \in 1..Len(received) :
        received[k] = Broken \/ received[k] \in Seq(1..Offset[N])
    /\ work \subseteq 1..Len(received)
    /\ functors \in Seq(1..Len(received))
    /\ answered \in Seq(1..Len(received))

Channel == INSTANCE MessageChannel WITH
    Messages <- [k \in 1..N |-> Payload(k)],
    begun <- Cardinality({k \in 1..N : wrote > Offset[k - 1]})

(* However the bytes of the messages are split and joined on their way,    *)
(* onMessage is given the messages, whole, once and in order, until the    *)
(* end of the stream, where it may be given one thing that is no message.  *)
ImplementsChannel == Channel!Spec

(* What the client has read, what is on its way and what writen still has  *)
(* to write are always the welcome and the answers, each as one frame: no  *)
(* byte of a frame is lost, repeated or put into another frame.            *)
Frames(msgs) ==
    LET F[n \in 0..Len(msgs)] ==
            IF n = 0 THEN Train(Welcome) ELSE F[n - 1] \o Train(Answer(msgs[n]))
    IN F[Len(msgs)]

FramesOf(ks) == Frames([n \in 1..Len(ks) |-> received[ks[n]]])

AnswersAreFrames == ~closed => got \o down \o out = FramesOf(answered)

(* A client that has sent a whole message and reads what comes gets its    *)
(* answer whole, unless it closes, however little the socket buffers hold. *)
AnswersArrive ==
    \A k \in 1..N :
        wrote >= Offset[k] ~>
            \/ closed
            \/ \E n \in 1..Len(answered) :
                answered[n] = k /\ Len(FramesOf(SubSeq(answered, 1, n))) <= Len(got)
=============================================================================
