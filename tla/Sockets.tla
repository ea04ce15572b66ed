------------------------------ MODULE Sockets ------------------------------
(***************************************************************************)
(* From a request on a socket to its reply: the network thread (OnRead),   *)
(* the two bounded task queues, the worker threads, the DiskWriter's queue *)
(* of tasks that the storage thread serves, itself or with a thread that   *)
(* dumps the free space, and the main thread, which runs                   *)
(* ClientSocketHolder::Update every 500 ms.  What a handler does to the    *)
(* data is the business of Storage; here only matters which thread replies *)
(* to a request, with how much, or that none does.                         *)
(*                                                                         *)
(* Sizes are in units of one packet header.  Time is left out: a ping is   *)
(* due, or a pong overdue, whenever the main thread looks.  The socket     *)
(* library (the ring buffer, the thread that fills and drains it) is not   *)
(* part of the tree and is modelled from its use.                          *)
(***************************************************************************)
EXTENDS Integers, Sequences, FiniteSets

CONSTANTS
  Client,        \* sockets, by their m_socketID
  ReadWorker,    \* threads on the queue eTQT_Read
  WriteWorker,   \* threads on the queue eTQT_Write
  StorageThread, \* Storage::run, which calls ProcessTasks
  DumpThread,    \* threads for DumpFreeSpaceThread; bound: dumps at a time
  BufferSize,    \* g_cfg.SocketWriteBufferSize
  ReadSizes,     \* sizes of the replies to reads
  WriteSizes,    \* sizes of the replies to writes
  DumpSizes,     \* sizes of S_MSG_GET_FREESPACE
  DefragSize,    \* size of S_MSG_DEFRAGMENT_FREESPACE, a StackPacket
  ActivitySize,  \* size of the reply to C_MSG_GET_ACTIVITY_ID
  PingSize,      \* size of S_MSG_PING
  MaxTasks,      \* g_cfg.MaxTasksInQueue, g_cfg.MaxReadTasksInQueue
  MaxTries,      \* the 100 in "sendCounter > 100"
  MaxRequests,   \* bound: unanswered requests of one client
  None

TaskWorker == ReadWorker \cup WriteWorker
Worker == TaskWorker \cup {StorageThread} \cup DumpThread
TQT == {"Read", "Write"}
Queue == TQT \cup {"Disk"}
ReplySizes == [Read |-> ReadSizes, Write |-> WriteSizes]
HeaderSize == 1   \* sizeof(PackerHeader)

ASSUME SocketsAssumption ==
  /\ IsFiniteSet(Worker) /\ ReadWorker \cap WriteWorker = {}
  /\ StorageThread \notin TaskWorker \cup DumpThread /\ TaskWorker \cap DumpThread = {}
  /\ "main" \notin Worker /\ None \notin Worker \cup {"main"}
  /\ ReadSizes \cup WriteSizes \cup DumpSizes \subseteq Nat \ {0}
  /\ {ActivitySize, PingSize} \subseteq Nat \ {0} /\ DefragSize \in 1..BufferSize
  /\ BufferSize \in Nat \ {0, 1}
  /\ {MaxTasks, MaxTries, MaxRequests} \subseteq Nat \ {0}

VARIABLES
  pings,        \* does Update send pings? (PingSendInterval = -1: no)
  known,        \* the sockets accepted so far
  connected,    \* the sockets whose IsConnected() is true
  sockets,      \* m_clientSockets of the holder
  lock,         \* m_lock of the holder: its owner or None
  wbuf,         \* bytes in each socket's m_writeBuffer
  packetQueue,  \* m_packetQueue of each socket: the sizes of the packets
  tasks,        \* m_pTaskDataQueue, two queues of sockets, and m_rDiskWriteTasks
  net,          \* what the network thread is doing
  worker,       \* what each thread that replies is doing
  main,         \* where the main thread is in Update
  split,        \* history: who put a packet into a frame being streamed
  owed,         \* history: requests of each client without a whole reply
  dropped       \* history: those among them that nobody will answer any more

socketVars == <<known, connected, sockets>>
outVars == <<wbuf, packetQueue, split, owed, dropped>>
vars == <<pings, known, connected, sockets, lock, wbuf, packetQueue, tasks,
          net, worker, main, split, owed, dropped>>

Idle == [op |-> "idle"]

Init ==
  /\ pings \in BOOLEAN
  /\ known = {} /\ connected = {} /\ sockets = {}
  /\ lock = None
  /\ wbuf = [c \in Client |-> 0]
  /\ packetQueue = [c \in Client |-> <<>>]
  /\ tasks = [q \in Queue |-> <<>>]
  /\ net = Idle /\ worker = [w \in Worker |-> Idle] /\ main = Idle
  /\ split = [c \in Client |-> {}]
  /\ owed = [c \in Client |-> 0]
  /\ dropped = [c \in Client |-> 0]

(***************************************************************************)
(* Output of one socket.                                                   *)
(***************************************************************************)

\* _OutPacket and SendRawData send n bytes at once or not at all.
\* Mutant: the header is forgotten.
HasRoomForData(c, n) == c \in connected /\ BufferSize - wbuf[c] >= n - HeaderSize
HasRoom(c, n) == c \in connected /\ BufferSize - wbuf[c] >= n

\* Is a worker in the middle of a frame on c?
Streamed(c) == \E w \in Worker : worker[w].op = "stream" /\ worker[w].client = c

\* _OutPacket with room: header and data go into the write buffer.
Write(c, n, who) ==
  /\ wbuf' = [wbuf EXCEPT ![c] = @ + HeaderSize + n]
  /\ split' = [split EXCEPT ![c] = IF Streamed(c) THEN @ \cup {who} ELSE @]

\* ProcessQueue holds m_packetQueueLock from its first packet to its last.
QueueLocked(c) == main.op = "queue" /\ main.client = c

\* OutPacket: send; without room, queue; a closed socket loses the packet.
\* The reply is one the client waits for.
OutPacket(c, n, who) ==
  \/ /\ HasRoom(c, HeaderSize + n)
     /\ Write(c, n, who)
     /\ owed' = [owed EXCEPT ![c] = @ - 1]
     /\ UNCHANGED packetQueue
  \/ /\ c \in connected /\ ~HasRoom(c, HeaderSize + n) /\ ~QueueLocked(c)
     /\ packetQueue' = [packetQueue EXCEPT ![c] = Append(@, n)]
     /\ UNCHANGED <<wbuf, split, owed>>
  \/ /\ c \notin connected
     /\ UNCHANGED <<wbuf, split, owed, packetQueue>>

\* The reply to c goes nowhere: of a request of a client that is still there
\* nobody has it any more.
Drop(c) == dropped' = [dropped EXCEPT ![c] = IF c \in connected THEN @ + 1 ELSE @]

\* Disconnect: nothing goes out any more.  The history of c ends.
Close(c) ==
  /\ connected' = connected \ {c}
  /\ wbuf' = [wbuf EXCEPT ![c] = 0]
  /\ split' = [split EXCEPT ![c] = {}]
  /\ owed' = [owed EXCEPT ![c] = 0]
  /\ dropped' = [dropped EXCEPT ![c] = 0]

\* RemoveSocket, and the packets its destructor deletes later.
Remove(c) ==
  /\ sockets' = sockets \ {c}
  /\ packetQueue' = [packetQueue EXCEPT ![c] = <<>>]

(***************************************************************************)
(* The network thread.                                                     *)
(***************************************************************************)

OnConnect(c) ==
  /\ net = Idle /\ lock = None /\ c \notin known
  /\ known' = known \cup {c}
  /\ connected' = connected \cup {c}
  /\ sockets' = sockets \cup {c}
  /\ UNCHANGED <<pings, lock, outVars, tasks, net, worker, main>>

\* OnRead has a whole request and calls QueueWritePacket or QueueReadPacket.
OnRead(c, q) ==
  /\ net = Idle /\ c \in connected
  /\ owed[c] < MaxRequests
  /\ net' = [op |-> "put", client |-> c, queue |-> q]
  /\ owed' = [owed EXCEPT ![c] = @ + 1]
  /\ UNCHANGED <<pings, socketVars, lock, wbuf, packetQueue, tasks, worker, main, split, dropped>>

\* QueuePacket: put waits while the queue is full.
QueuePacket ==
  /\ net.op = "put" /\ Len(tasks[net.queue]) < MaxTasks
  /\ tasks' = [tasks EXCEPT ![net.queue] = Append(@, net.client)]
  /\ net' = Idle
  /\ UNCHANGED <<pings, socketVars, lock, outVars, worker, main>>

\* HandleGetActivityID answers on this thread, without the holder's lock.
HandleGetActivityID(c) ==
  /\ net = Idle /\ c \in connected
  /\ owed[c] < MaxRequests
  /\ \/ /\ HasRoom(c, HeaderSize + ActivitySize)
        /\ Write(c, ActivitySize, "net")
        /\ UNCHANGED <<packetQueue, owed>>
     \/ /\ ~HasRoom(c, HeaderSize + ActivitySize) /\ ~QueueLocked(c)
        /\ packetQueue' = [packetQueue EXCEPT ![c] = Append(@, ActivitySize)]
        /\ owed' = [owed EXCEPT ![c] = @ + 1]
        /\ UNCHANGED <<wbuf, split>>
  /\ UNCHANGED <<pings, socketVars, lock, tasks, net, worker, main, dropped>>

\* The client reads, if it does: bytes leave the write buffer.
Drain(c) ==
  /\ net = Idle /\ c \in connected
  /\ \E n \in 1..wbuf[c] : wbuf' = [wbuf EXCEPT ![c] = @ - n]
  /\ UNCHANGED <<pings, socketVars, lock, packetQueue, tasks, net, worker, main, split, owed, dropped>>

\* The client closes the connection; OnDisconnect then waits for the lock.
ConnectionLost(c) ==
  /\ net = Idle /\ c \in connected
  /\ Close(c)
  /\ net' = [op |-> "remove", client |-> c]
  /\ UNCHANGED <<pings, known, sockets, lock, packetQueue, tasks, worker, main>>

OnDisconnect ==
  /\ net.op = "remove" /\ lock = None
  /\ Remove(net.client)
  /\ net' = Idle
  /\ UNCHANGED <<pings, known, connected, lock, wbuf, tasks, worker, main, split, owed, dropped>>

(***************************************************************************)
(* The threads that serve requests and reply.                              *)
(***************************************************************************)

QueueOf(w) == IF w \in ReadWorker THEN "Read" ELSE "Write"

\* w takes the first request of a queue and has a reply to it.
Take(w, q, sizes) ==
  /\ worker[w] = Idle /\ tasks[q] # <<>>
  /\ tasks' = [tasks EXCEPT ![q] = Tail(@)]
  /\ \E n \in sizes :
       worker' = [worker EXCEPT ![w] = [op |-> "reply", client |-> Head(tasks[q]), size |-> n]]
  /\ UNCHANGED <<pings, socketVars, lock, outVars, net, main>>

\* run: the handler has its reply, of any size such a request may have.
GetTask(w) == w \in TaskWorker /\ Take(w, QueueOf(w), ReplySizes[QueueOf(w)])

\* HandleGetFreeSpace and HandleDefragmentFreeSpace leave the reply to the
\* storage thread.
QueueTask(w) ==
  LET q == QueueOf(w)
  IN  /\ w \in TaskWorker /\ worker[w] = Idle /\ tasks[q] # <<>>
      /\ tasks' = [tasks EXCEPT ![q] = Tail(@), !["Disk"] = Append(@, Head(tasks[q]))]
      /\ UNCHANGED <<pings, socketVars, lock, outVars, net, worker, main>>

\* HandleGetAllX is not implemented and does not reply.
HandleGetAllX(w) ==
  /\ w \in WriteWorker /\ worker[w] = Idle /\ tasks["Write"] # <<>>
  /\ tasks' = [tasks EXCEPT !["Write"] = Tail(@)]
  /\ Drop(Head(tasks["Write"]))
  /\ UNCHANGED <<pings, socketVars, lock, wbuf, packetQueue, split, owed, net, worker, main>>

\* ProcessTasks, one task after the other: a dump of the free space gets a
\* thread of its own, to a defragmentation the storage thread replies.
HandleFreeSpaceDump(d) == worker[StorageThread] = Idle /\ Take(d, "Disk", DumpSizes)
HandleDefragmentFreeSpace == Take(StorageThread, "Disk", {DefragSize})
ProcessTasks == HandleDefragmentFreeSpace \/ \E d \in DumpThread : HandleFreeSpaceDump(d)

\* The worker has done with its task.
Finish(w) == worker' = [worker EXCEPT ![w] = Idle]

\* SendPacket of a reply that is not bigger than the write buffer.
SendPacket(w) ==
  /\ worker[w].op = "reply" /\ worker[w].size <= BufferSize /\ lock = None
  /\ LET c == worker[w].client
     IN  \/ c \in sockets /\ OutPacket(c, worker[w].size, w)
         \/ c \notin sockets /\ UNCHANGED <<wbuf, split, owed, packetQueue>>
  /\ Finish(w)
  /\ UNCHANGED <<pings, socketVars, lock, tasks, net, main, dropped>>

\* The lock is kept from the header of a streamed reply to its last chunk.
\* Mutant: each chunk takes it anew.
HoldNot(w) == UNCHANGED lock
Hold(w) == lock' = w

\* SendPacket of a bigger one: the header first.  Without room for it the
\* reply is dropped.
SendHeader(w) ==
  /\ worker[w].op = "reply" /\ worker[w].size > BufferSize /\ lock = None
  /\ LET c == worker[w].client
     IN  \/ /\ c \in sockets /\ HasRoom(c, HeaderSize)
            /\ wbuf' = [wbuf EXCEPT ![c] = @ + HeaderSize]
            /\ worker' = [worker EXCEPT ![w] =
                 [op |-> "stream", client |-> c, left |-> worker[w].size, tries |-> 0]]
            /\ Hold(w)
            /\ UNCHANGED dropped
         \/ /\ c \notin sockets \/ ~HasRoom(c, HeaderSize)
            /\ Drop(c)
            /\ Finish(w)
            /\ UNCHANGED <<wbuf, lock>>
  /\ UNCHANGED <<pings, socketVars, packetQueue, tasks, net, main, split, owed>>

ChunkOf(w) == IF worker[w].left < BufferSize \div 2 THEN worker[w].left ELSE BufferSize \div 2

\* The end of SendPacket's loop: the lock guard goes out of scope.
EndStream(w) == Finish(w) /\ lock' = None

SendChunk(w) ==
  /\ worker[w].op = "stream" /\ HasRoom(worker[w].client, ChunkOf(w))
  /\ wbuf' = [wbuf EXCEPT ![worker[w].client] = @ + ChunkOf(w)]
  /\ IF worker[w].left = ChunkOf(w)
       THEN /\ owed' = [owed EXCEPT ![worker[w].client] = @ - 1]
            /\ EndStream(w)
       ELSE /\ worker' = [worker EXCEPT ![w].left = @ - ChunkOf(w)]
            /\ UNCHANGED <<lock, owed>>
  /\ UNCHANGED <<pings, socketVars, packetQueue, tasks, net, main, split, dropped>>

\* sendCounter: not reset by a chunk that got through.
\* Mutant: tries are not counted.
NotCounted(n) == n
Counted(n) == n + 1

\* trySendAgain: no room, so wait and count.
TrySendAgain(w) ==
  /\ worker[w].op = "stream" /\ worker[w].client \in connected
  /\ ~HasRoom(worker[w].client, ChunkOf(w))
  /\ worker[w].tries <= MaxTries
  /\ worker' = [worker EXCEPT ![w].tries = Counted(@)]
  /\ UNCHANGED <<pings, socketVars, lock, outVars, tasks, net, main>>

\* Too many tries, or the socket is closed: the rest of the frame is not sent.
GiveUp(w) ==
  /\ worker[w].op = "stream" /\ ~HasRoom(worker[w].client, ChunkOf(w))
  /\ worker[w].client \in connected => worker[w].tries > MaxTries
  /\ Drop(worker[w].client)
  /\ EndStream(w)
  /\ UNCHANGED <<pings, socketVars, wbuf, packetQueue, tasks, net, main, split, owed>>

(***************************************************************************)
(* The main thread: Update.                                                *)
(***************************************************************************)

Visiting(c) == main.op = "visit" /\ c \in main.todo

At(op, c) == [op |-> op, client |-> c, todo |-> main.todo \ {c}]

Update ==
  /\ main = Idle /\ lock = None
  /\ lock' = "main"
  /\ main' = [op |-> "visit", todo |-> sockets]
  /\ UNCHANGED <<pings, socketVars, outVars, tasks, net, worker>>

\* The pong is overdue.  Disconnect calls OnDisconnect: the lock is recursive.
DropSocket(c) ==
  /\ Visiting(c)
  /\ Close(c) /\ Remove(c)
  /\ main' = [op |-> "visit", todo |-> main.todo \ {c}]
  /\ UNCHANGED <<pings, known, lock, tasks, net, worker>>

VisitSocket(c) ==
  /\ Visiting(c)
  /\ \/ pings /\ main' = At("ping", c)
     \/ main' = At("queue", c)
  /\ UNCHANGED <<pings, socketVars, lock, outVars, tasks, net, worker>>

SendPing ==
  /\ main.op = "ping" /\ HasRoom(main.client, HeaderSize + PingSize)
  /\ Write(main.client, PingSize, "main")
  /\ main' = [main EXCEPT !.op = "queue"]
  /\ UNCHANGED <<pings, socketVars, lock, packetQueue, tasks, net, worker, owed, dropped>>

\* SendPing waits 100 ms and tries again.  Nothing increments its count, so
\* it never gets to 100 and changes nothing.
RetryPing ==
  /\ main.op = "ping" /\ ~HasRoom(main.client, HeaderSize + PingSize)
  /\ UNCHANGED vars

\* ProcessQueue, one packet at a time, while there is room.
ProcessPacket ==
  /\ main.op = "queue"
  /\ LET c == main.client
     IN  /\ packetQueue[c] # <<>> /\ HasRoom(c, HeaderSize + Head(packetQueue[c]))
         /\ Write(c, Head(packetQueue[c]), "main")
         /\ packetQueue' = [packetQueue EXCEPT ![c] = Tail(@)]
         /\ owed' = [owed EXCEPT ![c] = @ - 1]
  /\ UNCHANGED <<pings, socketVars, lock, tasks, net, worker, main, dropped>>

\* When ProcessQueue returns: nothing left, no room, or a closed socket.
Returns(c) == packetQueue[c] # <<>> => ~HasRoom(c, HeaderSize + Head(packetQueue[c]))

\* The packets it leaves: none on a closed socket.
\* Mutant: the packet is popped before it is sent.
LeftWithoutFirst(c) == IF packetQueue[c] # <<>> THEN Tail(packetQueue[c]) ELSE <<>>
Left(c) == IF c \in connected THEN packetQueue[c] ELSE <<>>

EndQueue ==
  /\ main.op = "queue"
  /\ LET c == main.client
     IN  Returns(c) /\ packetQueue' = [packetQueue EXCEPT ![c] = Left(c)]
  /\ main' = [op |-> "visit", todo |-> main.todo]
  /\ UNCHANGED <<pings, socketVars, lock, wbuf, tasks, net, worker, split, owed, dropped>>

EndUpdate ==
  /\ main.op = "visit" /\ main.todo = {}
  /\ main' = Idle
  /\ lock' = None
  /\ UNCHANGED <<pings, socketVars, outVars, tasks, net, worker>>

(***************************************************************************)
(* The specification.                                                      *)
(***************************************************************************)

NetNext ==
  \/ QueuePacket \/ OnDisconnect
  \/ \E c \in Client :
       \/ OnConnect(c) \/ HandleGetActivityID(c) \/ Drain(c) \/ ConnectionLost(c)
       \/ \E q \in TQT : OnRead(c, q)

WorkerNext(w) ==
  \/ GetTask(w) \/ QueueTask(w) \/ HandleGetAllX(w)
  \/ w = StorageThread /\ ProcessTasks
  \/ SendPacket(w) \/ SendHeader(w)
  \/ SendChunk(w) \/ TrySendAgain(w) \/ GiveUp(w)

MainNext ==
  \/ Update \/ SendPing \/ RetryPing \/ ProcessPacket \/ EndQueue \/ EndUpdate
  \/ \E c \in Client : DropSocket(c) \/ VisitSocket(c)

Next == NetNext \/ MainNext \/ \E w \in Worker : WorkerNext(w)

\* The threads run, and none waits for the lock for ever while others take
\* it and give it back.  Clients may do nothing at all: fairness asks nothing
\* of OnRead, Drain, ConnectionLost.
Fairness ==
  /\ SF_vars(QueuePacket) /\ SF_vars(OnDisconnect)
  /\ SF_vars(MainNext)
  /\ \A w \in Worker : SF_vars(WorkerNext(w))

Spec == Init /\ [][Next]_vars /\ Fairness

(***************************************************************************)
(* Properties.                                                             *)
(***************************************************************************)

\* What each thread may be doing, and with which sockets: none that was never
\* accepted.
NetState ==
  {Idle} \cup [op : {"put"}, client : known, queue : TQT]
         \cup [op : {"remove"}, client : known \ connected]
WorkerState ==
  {Idle} \cup [op : {"reply"}, client : known, size : Nat \ {0}]
         \cup [op : {"stream"}, client : known, left : Nat \ {0}, tries : Nat]
MainState ==
  {Idle} \cup [op : {"visit"}, todo : SUBSET known]
         \cup [op : {"ping", "queue"}, client : known, todo : SUBSET known]

\* Types, and what the lock's owner is doing.
TypeOK ==
  /\ pings \in BOOLEAN
  /\ known \subseteq Client /\ sockets \subseteq known /\ connected \subseteq sockets
  /\ wbuf \in [Client -> 0..BufferSize]
  /\ packetQueue \in [Client -> Seq(Nat)]
  /\ \A c \in Client \ known : packetQueue[c] = <<>>
  /\ tasks \in [Queue -> Seq(known)] /\ \A q \in TQT : Len(tasks[q]) <= MaxTasks
  /\ net \in NetState /\ worker \in [Worker -> WorkerState] /\ main \in MainState
  /\ split \in [Client -> SUBSET (Worker \cup {"net", "main"})]
  /\ owed \in [Client -> 0..MaxRequests]
  /\ dropped \in [Client -> Nat]
  /\ \A c \in Client \ connected : owed[c] = 0 /\ dropped[c] = 0
  /\ lock \in Worker \cup {"main", None}
  /\ lock = "main" <=> main # Idle
  /\ \A w \in Worker : lock = w <=> worker[w].op = "stream"

\* The frame of a streamed reply is not cut open by what another worker or
\* the main thread sends on the same socket.  (The network thread's own reply
\* to GetActivityID does cut it open: it does not take the holder's lock.)
FramesKeptByLock == \A c \in Client : split[c] \subseteq {"net"}

\* Where the requests of c are that can still be answered: with the network
\* thread, in one of the three task queues, with the thread that replies, in
\* the socket's own queue.
PutFor(c) == IF net.op = "put" /\ net.client = c THEN 1 ELSE 0
TasksOf(q, c) == {i \in 1..Len(tasks[q]) : tasks[q][i] = c}
WorkersFor(c) == {w \in Worker : worker[w] # Idle /\ worker[w].client = c}
InQueues(c) ==
  Cardinality(TasksOf("Read", c)) + Cardinality(TasksOf("Write", c)) + Cardinality(TasksOf("Disk", c))
Unanswered(c) ==
  PutFor(c) + InQueues(c) + Cardinality(WorkersFor(c)) + Len(packetQueue[c])

\* Of the requests of a connected client that have no whole reply yet, each is
\* at exactly one place, on whichever of the threads the reply is left to, or
\* was dropped for one of three reasons: it was C_MSG_GET_ALL_X, a streamed
\* reply found no room for its header, or a stream was given up.  So no reply
\* goes missing on its way in any other manner, and none is sent twice.
RepliesConserved == \A c \in connected : owed[c] = Unanswered(c) + dropped[c]

\* A client that does not read cannot hold a worker, and the holder's lock,
\* for ever: a streamed reply is sent or given up.
StreamEnds == \A w \in Worker : worker[w].op = "stream" ~> worker[w].op # "stream"

\* Without pings the network thread never waits for ever, neither for room in
\* a task queue nor for the holder's lock, whatever the clients do.
NetworkGetsOn == ~pings => (net # Idle ~> net = Idle)

\* "Unable to send S_MSG_PING.": after a hundred tries SendPing gives up.
PingEnds == main.op = "ping" ~> main.op # "ping"
=============================================================================
