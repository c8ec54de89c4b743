# A verification of hpc_server

This directory holds TLA+ models of the server under `src/hpc_server`, the
TLC configurations that check them on small instances, and theorems about them
whose proofs TLAPS checks.  `src/hpc_server` is a TCP server in the style of
muduo: one IO thread in an epoll loop receives length-prefixed messages and
hands each to a pool of worker threads, and a worker gives the answer back to
the IO thread, which sends it.  The commands the messages were meant to carry
drive an FPGA through memory-mapped registers.  `src/src` and `src/inc` hold an
older server for the same device, built on `select()`.

## Inventory

| Part | Code | State | Operations |
|---|---|---|---|
| Task queue and locks | `TaskQueue`, `MutextLock`, `MutexLockGuard`, `Condition` | `_que`, `_que_size`, `flag`, the mutex with `_isLocking`, two condition variables | `push`, `pop`, `wake_up`, `empty`, `full` |
| Thread pool | `Threadpool`, `Thread` | `_isExit`, the threads with `_is_running` | `start`, `add_task`, `get_task`, `thread_func`, `stop`, `join`, destructor |
| Event loop, hand-over of functors | `EventLoop` | `_isLooping`, `_mutex`, `_pendingFunctors`, `_eventfd` | `run_in_loop`, `wakeup`, `hand_read`, `do_pending_functors`, `loop`, `unloop` |
| Event loop, connections | `EventLoop`, `Acceptor`, `Socket` | `_conns`, the epoll set, the events of one `epoll_wait` | `wait_epollfd`, `handle_new_connection`, `handle_message`, `is_connection_closed` |
| Connection | `TcpConnection`, `SocketIO` | the socket, shared by `_conns` and by every task of it | `receive`, `send`, `send_in_loop`, destructor, `readn`, `writen` |
| Servers | `TcpServer`, `IcerServo`, `TestTcpServer` | the pool, the loop | `onConnection`, `onMessage`, `onClose` |
| Work | `WorkTask` | the message and its connection | `process` (echo), and `cmd_process` with its replies, which nothing calls |
| Frames of the command protocol | `Message`, `Buffer` | the fields of a message | setters, `encode`, `decode` |
| Frames of the protobuf protocol | `codec.h` | none | `encode`, `decode` |
| Messages of the protobuf protocol | `hpc.msg.pb.cc`, `hpc.msg.pb.h` | the members of seven classes, unknown fields | constructors, setters, `Clear`, `CopyFrom`, `MergeFrom`, `Swap`, parsing, serialising, `ByteSizeLong` |
| Digest | `md5.cc` | `state`, `count`, `buffer`, `finished`, `digest` | constructor, `getDigest`, `toStr` |
| FPGA | `Uio`, `PsProcess` | descriptors, mappings, `fpga_lock` | `fpga_init`, `fpga_exit`, `cmd_test_reg`, register lookup |
| Older server | `src/src`, `src/inc` | list of clients with a receive state each | `select` loop, receive state machine, commands |

The parts meet as follows.  The IO thread calls `receive` and then `add_task`,
which blocks while the queue is full.  A worker runs `WorkTask::process`, which
calls `send_in_loop`; that stores a functor, bound to a *raw* pointer to the
connection, and writes to `_eventfd`.  The IO thread reads `_eventfd`, takes
all pending functors and calls them.  A connection is kept alive by the entry in
`_conns` and by the tasks that hold a `shared_ptr` to it, and its descriptor is
closed, and may be given out again, when the last of them goes, in whichever
thread that is.

What makes this hard:

- workers, the owner of the pool and `wake_up` interleave around one mutex and
  two condition variables, and some of the state (`flag`, `_isExit`, the size
  read by `stop`) is used without the mutex;
- the hand-over to the IO thread is a race between a write to `_eventfd`, its
  read, and a swap of the functors;
- the events of one `epoll_wait` are handled one after the other, and each may
  close, accept or reuse a descriptor the next one names;
- connections die while tasks and functors still refer to them;
- clients close, reset and stop in the middle of a message.

What makes each part correct: the pool runs each accepted task exactly once,
never pops an empty queue, never lets a task and all workers sleep together and
can be stopped; the loop calls each stored functor once, in order, and soon;
descriptors and connections agree at every step; each client is sent its own
answers, once; frames survive their way over the wire; a message object holds
what was put into it, whatever it held before; a digest is of the whole string.

## Modules

| Module | Models | Checked by | Proofs |
|---|---|---|---|
| `TaskPool` | what the pool promises (abstract) | `threadpool`, the `server_*` runs | `TaskPool_proofs` |
| `Threadpool` | `Threadpool`, `TaskQueue`, `Thread`, `MutextLock`, `Condition` | `threadpool`, `threadpool_lost_wakeup`, `threadpool_flag_unset` | `Threadpool_proofs` |
| `FunctorQueue` | what `run_in_loop` promises (abstract) | `event_loop`, `server_safety` | with `EventLoop` and `Server` |
| `EventLoop` | `run_in_loop` and the loop's side of it | `event_loop` | `EventLoop_proofs` |
| `Server` | `EventLoop`, `Acceptor`, `TcpConnection`, `IcerServo`, `WorkTask` over `TaskPool` | `server_safety`, `server_patient`, `server_liveness`, `server_misdelivery` | `Server_proofs` |
| `MessageChannel` | what `receive` promises to `onMessage` (abstract) | `stream` | with `Stream` |
| `Stream` | `TcpConnection::receive` and `send`, `SocketIO::readn` and `writen` | `stream` | `Stream_proofs` |
| `Powers` | the powers of 2 | `fpga`, `message_codec` | `Powers_proofs` |
| `Md5` | `MD5` | `message_codec` | `MessageCodec_proofs` |
| `MessageCodec` | `Message`, `Buffer`, `cmd_process` and its replies, with `Md5` | `message_codec` | `MessageCodec_proofs` |
| `HpcMessages` | the classes of `hpc.msg.pb.cc` and `hpc.msg.pb.h` | `protobuf_codec` | none: data |
| `ProtobufCodec` | `codec.h` and the life of a message, with `HpcMessages` | `protobuf_codec` | none: data |
| `Fpga` | `Uio`, register lookup of `PsProcess` | `fpga` | `Fpga_proofs` |

The `MC*` modules extend the module they are named after and define the values
that a `.cfg` cannot write down.

**Threadpool.** A step is what a thread does between two points where another
thread can tell the difference.  `pc[t]` is the place of thread `t`: the Owner
goes through `start`, `add_task` (`push_lock`, `push_test`, `push_wait`, ...),
`stop` (`stop_poll`, `stop_exit`, `wake_flag`, `wake_notify`, `join`) and the
destructor; a worker through `thread_func` (`loop`, `pop_lock`, `pop_test`,
`pop_wait`, `pop_take`, `pop_unlock`, `run`).  A condition variable is the set
of threads asleep on it; a thread that has been taken out of the set, by a
signal or spuriously, still has to take the mutex back.  What the code reads or
writes without the mutex (`flag` and `_isExit` by `stop` and the workers, the
emptiness that `stop` polls) is a step of its own.  `flag`, which no constructor
sets, begins with any value of `FlagInit`.

**EventLoop.** `PostLock`, `PostPush`, `PostUnlock`, `Wakeup` are the lines of
`run_in_loop`; `EpollEvent` or `EpollTimeout`, `HandRead`, `SwapLock`, `Swap`,
`SwapUnlock`, `CallFunctor` those of the IO thread.  A functor may itself call
`run_in_loop`, as the IO thread, and one may call `unloop`.  Others see one queue,
`tmp` followed by `pending`, and that is `FunctorQueue`: `Post` at its end, `Call` of its head.

**Server** puts the parts together.  The pool is `INSTANCE TaskPool`, whose
actions are conjuncts of `AddTask`, `GetTask` and `TaskDone`; `run_in_loop` is
the one step `SendInLoop`, which `FunctorQueue` justifies: `EventLoop` implements
it in many steps, `Server` in one, with the messages that tasks have posted and that no longer
wait for what has been called.  Each pass of
`wait_epollfd` takes a batch of events, whose elements are handled one after the
other in any order, and everything else goes on in between.  `fdOf`, `conns` and
`interest` are the descriptor of a socket, the map `_conns` and the epoll set;
`Held` says whether a `shared_ptr` to a connection is left, and `Drop` runs the
destructors when none is, in whichever thread that happens.  `functors` and
`tmp` hold connections by name, not by pointer: a functor whose connection is no
longer `Alive` is called by `CallDanglingFunctor`, which may kill the process,
do nothing, or write to any connection that was made since, because memory and
descriptors are reused.  A client's close is a FIN or a reset, and a write after
a reported reset raises SIGPIPE.

**Stream** is one connection of `Server` in more detail.  A byte the client
sends is the number of its place in the client's stream, so that a byte that is
lost, repeated or put elsewhere shows.  The kernel hands over pieces of every
size that fits; the client closes at any moment, with a reset when it has not
read everything.  When the connection ends in the middle of a message,
`receive` goes on with what it has: `ReadEnds` gives `Broken` to `onMessage`,
or the process dies, when not even the length has come.

**MessageCodec** computes on bytes what the bodies of the setters, `encode`,
`decode` and the replies compute.  Every caller of `encode`, `decode` and the
replies gets an rvalue reference to an object that is gone, and `process` has
the call of all this under `#if 0`; the module says what the frames would be,
not how a running server would fare.

**Md5** is the class of `md5.cc`: how `init` counts bits over two words, fills the
buffer and takes whole blocks from the input, how `getDigest` pads, and how
`toStr` writes the digest.  `BlockSize` and `WordBits` stand for 64 bytes and
32 bits; with blocks of 8 bytes and counters of 8 bits every frame needs
several blocks, and the number of its bits both words.  The carry from the low word to
the high one could only come with a second input before the digest is taken, which no
caller gives; the proof covers it, no run reaches it.  `transform`, 64 rounds of bit operations, is one
function in which every byte counts according to its place.  `getDigest` sets
`finished` and then calls `init`, which resets it, so that a second call would pad
what the first has left in the buffer; all callers ask a temporary object once.

**HpcMessages** is what protoc made of `hpc.msg`.  Each function of each class is
written out field by field in the code, and what can be wrong is that one of
them treats a field otherwise than the others do: so each function of each
class is a definition that says which fields it treats and how, read off its
body (`cmd_begin_reply_Clear`, `cmd_begin_reply_MergeFrom`, ...).  `Block` gives
the members between the two that a `memset`, `memcpy` or `memswap` names, in
the order of the class.  `Class` collects the tables, and the operators after it
(`Clear`, `MergeFrom`, `InternalParse`, ...) do what the bodies have in common.
`TableStruct_offsets`, `schemas` and `descriptor` are the tables by which the
library finds a member when it prints a message.  The wire format, which the
library knows, is modelled from how the classes use it: varints of up to ten
digits to the base 128, lengths, tags, and UTF-8, which writing only complains
of and reading demands.

**ProtobufCodec** has a client with two objects of a class, one of which it
sends; `held` and `otherHeld` record what the user of an object has put there.
`encode` and `decode` are those of `codec.h`, with the real adler32; messages are
damaged on their way.  The receiver is the one in `WorkTask::process` under
`#if 0`: it asserts that the length is right and that the message has the one
class that it casts to.

**Fpga** has one `Uio` per thread and one FPGA.  The test of a register is
split where another thread can interfere: `fpga_lock` is a static variable,
read at `TestCheck` and written at `TestLock`, four writes and sleeps later.
The devices are what `Uio` uses them as: an interrupt is enabled by a write and
reported once to each open file.  The lookup reads the width of an entry, the
number of registers and the number of words through a `char *`: `Char` makes them
negative from 128 on where the build's char is signed (`CharSigned`; it is on x86, and is
not on ARM, for which the Makefile has a compiler too).  `1 << n` is unchecked, and
undefined from the size of a word on; `Shift` takes n modulo that size, as the shift
instructions of both do.  `FpgaAssumption` lets the FPGA write any byte.

## Runs

| Run | Instance | What it shows |
|---|---|---|
| `threadpool` | 2 workers, 3 tasks, 2 places, flag TRUE | the pool is safe, implements `TaskPool` with its liveness, `add_task` returns, a queued task is run, `stop` returns if `wake_up` meets nobody between test and sleep |
| `threadpool_lost_wakeup` | 2 workers, 3 tasks, 1 place | violated: `stop` always returns |
| `threadpool_flag_unset` | the same, flag TRUE or FALSE | violated: a queued task is run |
| `event_loop` | 2 callers, 3 functors | functors are called once, in order, none is left behind; the loop implements `FunctorQueue`; `run_in_loop` returns; `unloop` ends the loop |
| `server_safety` | 2 clients in a hurry, 2 workers, 1 place, 2 descriptors, 1 request each | an event finds its connection (the assertion at `EventLoop.cc:122`), descriptors are owned and watched as `_conns` says; answers go through the loop as through a `FunctorQueue` |
| `server_patient` | the same, 2 requests each, clients wait for their answers | a client reads the welcome and then its own answers, each once; the process survives |
| `server_liveness` | 3 clients, 1 worker, 2 descriptors, 1 request each | every request is answered, every client of the backlog gets its turn |
| `server_misdelivery` | 2 clients in a hurry, 1 descriptor | violated: an answer goes to the connection its message came from |
| `stream` | messages of 1, 0 and 2 bytes, lengths of 2, buffers of 3 | the messages arrive whole, once, in order (`MessageChannel`), answers leave as whole frames, and arrive |
| `message_codec` | every command and an unknown one, payloads of up to 2 bytes, blocks of 8 bytes | frames are encoded and decoded at the right places; replies count, digest and answer what they should; a digest is of the whole string with its padding |
| `protobuf_codec` | all 7 classes, objects empty, with one field or full, one setter with the least and greatest numbers or a hard string, any clears, copies, merges and swaps; frames of up to 20 bytes with every one-byte change to 8 values, swap and cut | objects hold what was set; bytes one after the other merge; another class passes on what it does not know; what was sent is decoded unless a string is no UTF-8, what was damaged is not |
| `fpga` | 2 threads, words and chars of 3 bits, char signed, 6 headers, every index | lookups find the right register, the lock comes free, a test returns |

*Bounds.*  They are chosen so that what a property is about does happen.  Three
tasks for two places make the Owner wait in `push`, and two workers race for
the last task and can both sleep.  One place in the queue and two requests make
the IO thread wait in `add_task` while workers wait for it.  Three clients for
two descriptors make `accept` fail and a descriptor be used again.  A socket
buffer of three bytes is shorter than any frame with a body, so that every
frame is cut somewhere.  Words of three bits and entries of two make an entry
lie across two words; in chars of three bits, three registers are the most that can be
said and four are read as a negative number.  With unsigned chars the run passes too.  With blocks of 8 bytes a frame of 54 is the one whose
padding needs a block more.  One setter is enough for a message, because fields are
independent and the objects begin empty, with one field or full; the numbers
are 1 and the greatest of 32 and 64 bits, the strings one that is no UTF-8,
one with a 0 and one whose length has two digits; the length of what is damaged
is bounded because a frame of 20 bytes has every part that a longer one has.
What is bounded in a guard is named: `MaxReqs`,
`MaxFds`, `MaxPayload`, `MaxSets`, `MaxDamaged`, and the sets of functors and tasks, each used once.

*Symmetry* is used in `server_safety` and `server_patient` only, which check no
liveness.  *Deadlock* is checked in `fpga`; elsewhere the system may really
stop (a destroyed pool, an ended loop, clients that have closed, an exchange
that is over), which each `.cfg` says.

## Fairness

- `Threadpool`: weak fairness of each step of each thread, that is, threads are
  scheduled; strong fairness of taking the mutex, which Linux gives to a waiter
  in the end, and without which a waiter could be overtaken for ever.  No
  fairness for calls of `add_task` or `stop`, nor for spurious wake-ups.
- `EventLoop`: the same, for the steps of `run_in_loop` and of the loop.
- `Server`: the IO thread and each worker are scheduled.  A client that has sent
  a length sends the body: the code needs that, because `readn` blocks the IO
  thread for all clients.  `server_liveness` also lets clients close in the end,
  without which a descriptor need never come free.
- `Stream`: the IO thread, the worker and the client's reads go on, and the client
  finishes a message that it has begun.  It need not begin one, nor close.
- `Fpga`: a test that has begun goes on, a running FPGA ends and interrupts.

## Proofs

TLAPS proves the following for all values of the constants, from the named
assumption of each module (that model values differ, that sizes are natural
numbers).

- `TaskPool_proofs`: `TypeOK`, and `ExactlyOnce`: an accepted task is in exactly
  one place, once in the queue if it is there, and with one worker if it runs.
- `Threadpool_proofs`: `TypeOK`, `QueueBounded`, `PusherSleepsWhenFull`, `TakeFindsTask`, `QueuedTaskWakes`, `DestroyedClean`,
  `StopLosesNoTask`, and that every step is a step of `TaskPool` or a stutter.
  They follow from one inductive invariant, `IInv`.  None of the safety
  properties is inductive by itself: that `front()` finds a task needs to know
  that whoever is between test and take holds the mutex alone (`LockInv`), and
  what each place in `push` and `pop` knows of the queue (`PushInv`,
  `PopInv`); that no task sleeps needs who may be on a condition variable
  (`WaitInv`); that destruction is clean needs that `_isLocking` is set by
  nobody who is outside `push` and `pop` (`LockingInv`), and that the queue
  stays empty once `stop` has seen it empty (`StopInv`).  This covers every
  number of workers, tasks and places and both values of the unset flag, where
  the run covers one instance.
- `EventLoop_proofs`: `TypeOK`, `NoFunctorStranded`, `CalledInOrder`, and that
  `EventLoop` implements `FunctorQueue` (`ImplementsFunctorQueue`).  The
  invariant adds where `tmp` must be empty (`TmpInv`), so that a swap cannot
  lose what was not yet called, and that a caller between its steps has a
  functor (`ArgInv`); for the refinement, also that nobody else has it, now or before (`NewInv`).
- `Server_proofs`: `DescriptorsOwned` and `EventFindsConnection`, for any number
  of connections, descriptors, workers and requests, with clients that close
  whenever they like.  That `accept` files a connection under a descriptor that
  is free in `_conns` too needs that a connection in the backlog is there once
  and has no descriptor yet (`BacklogInv`); that a task never points to a
  connection that is gone needs that the connection being received stays in
  `_conns` until its task is queued (`CurInv`).
  Going on from there, `TypeOK`, that the server runs its pool as `TaskPool` says
  (`ServerRunsItsPool`) and hands its answers to the loop as `FunctorQueue` says
  (`RunsItsLoop`), for all clients; `OwnAnswersOnce` and `NotCrashed` for clients that close after their
  answers (`Patient`), as `server_patient` checks them.  The argument has four
  steps.
  1. *Counting.*  A message is two units of the stream, its length and its
     body.  For each connection, what is in the inbox is what was sent less what
     was read, by the place of the IO thread (`Counts`), until the connection has
     ended; so at most one message that nobody sent is received, and
     no more are received than there may be.  `TypeOK` rests on this.
  2. *New messages.*  What has been submitted to the pool are exactly the
     messages received that the IO thread is done with (`SubmittedInv`).  So
     every `add_task` is of a new one, every step of the server is a step of
     `TaskPool` or a stutter, and `TaskPool`'s own theorem `ExactlyOnce` holds of
     the server's pool.  That makes the functors of the tasks new ones too, as
     `FunctorQueue` wants them.
  3. *One place for an answer.*  It is with the task, among the functors, or
     sent, and there once (`PlacesInv`).
  4. *Who is waited for is there.*  A patient client that has closed was sent as
     many answers as it has sent requests.  They are all different, so they are
     all there are (`AllAnswered`, by cardinality), and no functor or task of it is
     left (`WaitingIsOpen`): a functor that is called finds its connection, and
     the client has not reset it.
- `Stream_proofs`: `TypeOK`, `AnswersAreFrames`, and that `Stream` implements
  `MessageChannel` (`ImplementsChannel`), for any messages and any sizes of
  lengths and buffers.  The invariant says that the bytes of the messages returned, of
  `hdr`, of `body` and in the kernel follow one another (`ReadInv`, `CutInv`), so that
  what is taken for a length is one (`DataLenIsSize`).  Offsets and frames are
  recursive functions; that they satisfy their equations, and what holds of them for each
  number, is proved from `SetInduction` of `Powers_proofs`.
- `Powers_proofs`: what the proofs about recursive functions and about shifted words
  share.  The induction theorems of the library take an operator as a parameter, so
  induction is stated with a set: one that has 0 and with each number the next has all
  numbers (`SetInduction`).  `Recursion` gives a function defined by a step its
  equations.  The rest is division with remainder, and `2^(m+n) = 2^m * 2^n`.
- `MessageCodec_proofs`: `DecodesWhatWasEncoded`, `ReplyCountsItsBytes`,
  `ReplyDigestCovers`, `AnswersItsRequest` and `DigestIsReference`, for payloads of any length, any
  values of the fields and any sizes of MD5.  `Encoding` says at which bytes `encode`
  has put each field, `Decoding` that `decode` takes it from there, `Reply` what a reply
  holds; `CodecInv` says of every later message and string how it was made from the
  request.  That needs that each field keeps its size under every setter
  (`Shape`): with a checksum of fewer than 32 bytes the end symbol would go astray.
  For `DigestIsReference`, `Has` says of an MD5 object at any point on its way what bytes it
  has taken in: its counters are their number, which wraps as the reference's length
  does (with the carry between the two words), its state is that of their whole blocks, and its
  buffer begins with the rest.  `init` keeps that for inputs of every length, whatever was
  buffered before; `getDigest` then adds what the reference pads with, in one block or two.
- `Fpga_proofs`: `TypeOK`; `LookupFindsRegister`, for words and chars of any size,
  signed or not, *as long as entries have fewer bits than a word*: a lookup is right for as many
  registers as a char can say (127 where it is signed, else 255), and 0 for every register
  when there are more.  Of entries of a word and more, and of widths that are read as
  negative, the property says nothing.  The argument: what the char says is then what the byte is,
  and so is the number of words, of which there are no more than entries (`WordsRead`); the index is one number, written in words to the base `2^IntSize`, and the entry that
  the code shifts and masks out of one word, or puts together from two, is the digit of that number
  to the base `2^bits`.  `LockFreeWhenIdle`, from: whenever `fpga_lock` is set, some
  thread is between setting it and resetting it (`LockHeld`).  That is so even
  when several threads have passed the test, which is what makes the property
  less than obvious.

Only model-checked:

- liveness, and that the pool implements the *fair* abstract pool,
  because the prover does not treat fairness;
- the messages of protobuf (`ProtobufCodec`).  `ObjectsHoldWhatWasSet` would be one case per
  class, function and field; the others, which parse and serialise varints of any number
  of digits and messages of any number of fields, need induction over both, and `DamageNoticed`
  depends on what adler32 makes of the particular bytes: it does not hold of any damage.

## Findings

1. `TaskQueue::wake_up` (`TaskQueue.cc:63`) clears `flag` and broadcasts without
   the mutex.  A worker that has found the queue empty and `flag` set, and does
   not sleep yet, misses the broadcast; `stop` then waits in `join` for ever.
   A comment in `Threadpool.cc:73` says that workers are asleep by then.
   (`threadpool_lost_wakeup`; `WakeReachesSleepers` shows that this is the only
   way.)
2. `TaskQueue::flag` is never initialised (`TaskQueue.h:40`).  When it happens to be
   FALSE, workers spin and run nothing.  (`threadpool_flag_unset`)
3. `TcpConnection::send_in_loop` binds a raw `this` (`TcpConnection.cc:82`).  A
   client that closes before its answer can have that answer sent to another
   client.  (`server_misdelivery`; `server_patient` shows that clients that wait
   are safe.)
4. `Buffer`'s `decode` (`Buffer.cc:179`) takes the `sizeof` of a `size_t`, 8, for the size of
   the checksum, and a position for a count: what it cuts out of the frame as the
   payload ("get payload", says `Buffer.cc:180`) runs on to the end, with the checksum and the end
   symbol in it.  `decode` in `MessageCodec` does the same.  No run has it as a
   violation: `DecodesWhatWasEncoded` asks for the fields, the checksum and the payload at
   their places, which `decode` finds, and not for where the payload ends, which it does not.

No text of the repository says otherwise, but a maintainer should know:

- with 128 registers or more, on a build whose char is signed, `get_reg_value` finds the index
  empty and returns 0 for each (`Uio.cc:76`, `PsProcess.cc:52`);
- entries of 32 bits make the mask 0 (`Uio.cc:95`): each entry reads as 0, so that register 0
  has the value of the first entry, and the others 0.  Without its condition on the width
  `LookupFindsRegister` fails in the run `fpga`;
- two threads may start the FPGA together (`Uio.cc:159`);
- a client that resets before it has read its answers, or that stops in the middle of a message, ends
  the server with SIGPIPE (`SocketIO.cc:88`) or makes all others wait (`SocketIO.cc:22`);
- answers to one client may come in another order than its requests.

## Not modelled

- *Older server* (`src/src`, `src/inc`).  `main.cc` includes an `Acceptor.h` that
  `src/inc` does not have.  Were it built: `FRAME_HEAD_LEN` is the size of a
  `pthread_key_t`, 4, where its comment says 16; `check_sum` returns 1, so that
  `freamehead_is_vaild` (`Frame_head.cc:101`) accepts no head; the `Frame_head`
  that asks it frees, in its destructor, a pointer into the client's buffer, which
  aborts the process; closing one client erases all clients while the list is
  being walked (`client.cc:74`, `client.cc:82`).  No command is ever processed:
  `Protocol`, `Reg` and `PS_process` have no behaviour that a run could reach.
- *The accessors of protobuf strings that hand out or take over the object*
  (`mutable_`, `release_`, `set_allocated_`), which nobody calls, and arenas.
- *The rounds of MD5's `transform`*, as bit operations.
- *InetAddress, utils*: values without behaviour.  *Socket options, bind,
  listen*: done once before the loop starts.
- *`pthread_create` that fails* (`Thread.cc:17`): the thread counts as running, and
  is joined with an identifier that was never set.  *A pool that is destroyed
  without having been started.*
- *`SocketIO::read_line`, `TcpConnection::shut_down`*: nobody calls them.
- *Register entries whose width is read as negative* (`Uio.cc:91`): the lookup then
  reads in front of the mapping.
- *Lengths beyond the buffer* (`TcpConnection.cc:51`): undefined from there on.
- *`Uio`'s descriptors and its copies*: `fpga_init` assigns `_memBaseAddr` from
  a pointer that stays null (`Uio.cc:246`), and every copy crashes;
  *`PsProcess::ps_status`* reads memory that nobody has written.

## Plan

1. `TaskPool` (abstract) and `Threadpool`, which implements it: the pool is the
   heart of the server, and all its bugs are interleavings.  Done, with proofs.
2. `FunctorQueue` (abstract) and `EventLoop`, which implements it: the hand-over of
   functors.  Done, with proofs.
3. `Server`: the composition, with `TaskPool` as its pool and `FunctorQueue` as
   its loop, as 1 and 2 allow.  Done, with proofs of its safety.
4. `Stream`, implementing `MessageChannel`: what `Server` takes for granted of a
   message.  Done, with proofs.
5. `MessageCodec`, `ProtobufCodec`, `Fpga`.  Done; `MessageCodec` and `Fpga` with proofs.
6. `Md5` and `HpcMessages`, on which the two codecs rest.  Done; `Md5` with a proof.
7. To do: the descriptors of an `fpga_init` that fails half-way.
