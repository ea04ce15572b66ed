--------------------------- MODULE SocketsProofs ---------------------------
(***************************************************************************)
(* Proofs about Sockets, for any number of sockets and worker threads, any *)
(* sizes and any bounds: who may hold the holder's lock, that a frame kept *)
(* open under it is not cut, and that every request is accounted for until *)
(* it is answered.  Types need the count of the replies (a reply that is   *)
(* sent was owed), so the three are one inductive invariant.               *)
(***************************************************************************)
EXTENDS Sockets, FiniteSetTheorems, SequenceTheorems, TLAPS

IInv == TypeOK /\ FramesKeptByLock /\ RepliesConserved

(***************************************************************************)
(* What the threads may be doing.                                          *)
(***************************************************************************)

LEMMA NetShape ==
  ASSUME TypeOK
  PROVE  /\ net = Idle <=> net.op = "idle"
         /\ net.op \in {"idle", "put", "remove"}
         /\ net.op = "put" => net.client \in known /\ net.queue \in TQT
         /\ net.op = "remove" => net.client \in known \ connected
  BY DEF TypeOK, NetState, Idle

LEMMA WorkerShape ==
  ASSUME TypeOK, NEW w \in Worker
  PROVE  /\ worker[w] = Idle <=> worker[w].op = "idle"
         /\ worker[w].op \in {"idle", "reply", "stream"}
         /\ worker[w].op # "idle" => worker[w].client \in known
         /\ worker[w].op = "reply" => worker[w].size \in Nat \ {0}
         /\ worker[w].op = "stream" => worker[w].left \in Nat \ {0} /\ worker[w].tries \in Nat
<1>1. worker[w] \in WorkerState
  BY DEF TypeOK
<1> QED  BY <1>1 DEF WorkerState, Idle

LEMMA MainShape ==
  ASSUME TypeOK
  PROVE  /\ main = Idle <=> main.op = "idle"
         /\ main.op \in {"idle", "visit", "ping", "queue"}
         /\ main.op # "idle" => main.todo \subseteq known
         /\ main.op \in {"ping", "queue"} => main.client \in known
  BY DEF TypeOK, MainState, Idle

\* Only one thread at a time has the lock, so a frame under way is alone.
LEMMA LockIsExclusive ==
  ASSUME TypeOK
  PROVE  /\ \A c \in Client : lock = None => ~Streamed(c)
         /\ \A c \in Client : main # Idle => ~Streamed(c)
         /\ \A v, w \in Worker : worker[v].op = "stream" /\ worker[w].op = "stream" => v = w
  BY SocketsAssumption DEF TypeOK, Streamed

(***************************************************************************)
(* Counting replies.                                                       *)
(***************************************************************************)

Places(s, c) == {i \in 1..Len(s) : s[i] = c}

LEMMA PlacesFinite ==
  ASSUME NEW S, NEW s \in Seq(S), NEW c
  PROVE  IsFiniteSet(Places(s, c)) /\ Cardinality(Places(s, c)) \in Nat
<1>1. IsFiniteSet(1..Len(s))
  BY FS_Interval, LenProperties
<1>2. Places(s, c) \in SUBSET (1..Len(s))
  BY DEF Places
<1>3. IsFiniteSet(Places(s, c))
  BY <1>1, <1>2, FS_Subset
<1> QED  BY <1>3, FS_CardinalityType

LEMMA PlacesAppend ==
  ASSUME NEW S, NEW s \in Seq(S), NEW e \in S, NEW c
  PROVE  Cardinality(Places(Append(s, e), c))
           = Cardinality(Places(s, c)) + (IF e = c THEN 1 ELSE 0)
<1> DEFINE n == Len(s) + 1
<1>1. Len(s) \in Nat /\ Len(Append(s, e)) = n /\ Append(s, e)[n] = e
      /\ \A i \in 1..Len(s) : Append(s, e)[i] = s[i]
  BY AppendProperties, LenProperties
<1>2. IsFiniteSet(Places(s, c)) /\ Cardinality(Places(s, c)) \in Nat
  BY PlacesFinite
<1>3. n \notin Places(s, c)
  BY <1>1 DEF Places
<1>4. CASE e = c
  <2>1. Places(Append(s, e), c) = Places(s, c) \cup {n}
    BY <1>1, <1>4 DEF Places
  <2>2. Cardinality(Places(s, c) \cup {n}) = Cardinality(Places(s, c)) + 1
    BY <1>2, <1>3, FS_AddElement
  <2> QED  BY <1>4, <2>1, <2>2
<1>5. CASE e # c
  <2>1. Places(Append(s, e), c) = Places(s, c)
    BY <1>1, <1>5 DEF Places
  <2> QED  BY <1>5, <1>2, <2>1
<1> QED  BY <1>4, <1>5

LEMMA PlacesTail ==
  ASSUME NEW S, NEW s \in Seq(S), s # <<>>, NEW c
  PROVE  Cardinality(Places(Tail(s), c))
           = Cardinality(Places(s, c)) - (IF Head(s) = c THEN 1 ELSE 0)
<1> DEFINE Rest == Places(s, c) \ {1}
<1>1. /\ Len(s) \in Nat \ {0} /\ Len(Tail(s)) = Len(s) - 1
      /\ \A i \in 1..Len(Tail(s)) : Tail(s)[i] = s[i + 1]
      /\ Head(s) = s[1]
  BY HeadTailProperties, EmptySeq, LenProperties
<1>2. IsFiniteSet(Places(s, c)) /\ Cardinality(Places(s, c)) \in Nat
  BY PlacesFinite
<1>3. /\ IsFiniteSet(Rest)
      /\ Cardinality(Rest) = Cardinality(Places(s, c)) - (IF Head(s) = c THEN 1 ELSE 0)
  <2>1. 1 \in Places(s, c) <=> Head(s) = c
    BY <1>1 DEF Places
  <2>2. IsFiniteSet(Places(s, c) \ {1})
        /\ Cardinality(Places(s, c) \ {1})
             = IF 1 \in Places(s, c) THEN Cardinality(Places(s, c)) - 1 ELSE Cardinality(Places(s, c))
    BY <1>2, FS_RemoveElement
  <2> QED  BY <1>2, <2>1, <2>2
<1>4. ExistsBijection(Rest, Places(Tail(s), c))
  <2> DEFINE f == [i \in Rest |-> i - 1]
  <2>1. f \in [Rest -> Places(Tail(s), c)]
    BY <1>1 DEF Places
  <2>2. \A i, j \in Rest : f[i] = f[j] => i = j
    BY <1>1 DEF Places
  <2>3. \A k \in Places(Tail(s), c) : k + 1 \in Rest /\ f[k + 1] = k
    BY <1>1 DEF Places
  <2> HIDE DEF f
  <2>4. f \in Bijection(Rest, Places(Tail(s), c))
    BY <2>1, <2>2, <2>3 DEF Bijection, Injection, Surjection, IsInjective
  <2> QED  BY <2>4 DEF ExistsBijection
<1> HIDE DEF Rest
<1>5. Cardinality(Places(Tail(s), c)) = Cardinality(Rest)
  BY <1>3, <1>4, FS_Bijection
<1> QED  BY <1>3, <1>5

LEMMA TaskPlaces == \A q, c : TasksOf(q, c) = Places(tasks[q], c)
  BY DEF TasksOf, Places

LEMMA WorkersFinite ==
  ASSUME NEW c
  PROVE  IsFiniteSet(WorkersFor(c)) /\ Cardinality(WorkersFor(c)) \in Nat
<1>1. WorkersFor(c) \in SUBSET Worker /\ IsFiniteSet(Worker)
  BY SocketsAssumption DEF WorkersFor
<1>2. IsFiniteSet(WorkersFor(c))
  BY <1>1, FS_Subset
<1> QED  BY <1>2, FS_CardinalityType

LEMMA Counts ==
  ASSUME TypeOK, NEW c \in Client
  PROVE  /\ \A q \in Queue : Cardinality(TasksOf(q, c)) \in Nat
         /\ Cardinality(WorkersFor(c)) \in Nat
         /\ Len(packetQueue[c]) \in Nat
         /\ packetQueue[c] # <<>> => Len(packetQueue[c]) > 0
         /\ PutFor(c) \in {0, 1}
<1>1. \A q \in Queue : tasks[q] \in Seq(known)
  BY DEF TypeOK
<1>2. \A q \in Queue : Cardinality(Places(tasks[q], c)) \in Nat
  BY <1>1, PlacesFinite
<1>3. packetQueue[c] \in Seq(Nat)
  BY DEF TypeOK
<1>4. Len(packetQueue[c]) \in Nat /\ (packetQueue[c] # <<>> => Len(packetQueue[c]) > 0)
  BY <1>3, EmptySeq, LenProperties
<1> QED  BY <1>2, <1>4, TaskPlaces, WorkersFinite DEF PutFor

\* A worker takes a task, goes on with it, or is done with it.
LEMMA WorkerTakes ==
  ASSUME TypeOK, NEW w \in Worker, NEW v, NEW c, worker[w] = Idle, v # Idle,
         worker' = [worker EXCEPT ![w] = v]
  PROVE  Cardinality(WorkersFor(c)') = Cardinality(WorkersFor(c)) + (IF v.client = c THEN 1 ELSE 0)
<1>1. WorkersFor(c)' = IF v.client = c THEN WorkersFor(c) \cup {w} ELSE WorkersFor(c)
  BY DEF WorkersFor, TypeOK
<1>2. w \notin WorkersFor(c)
  BY DEF WorkersFor
<1>3. Cardinality(WorkersFor(c) \cup {w}) = Cardinality(WorkersFor(c)) + 1
  BY <1>2, WorkersFinite, FS_AddElement
<1> QED  BY <1>1, <1>3, WorkersFinite

LEMMA WorkerFinishes ==
  ASSUME TypeOK, NEW w \in Worker, NEW c, worker[w] # Idle, Finish(w)
  PROVE  Cardinality(WorkersFor(c)')
           = Cardinality(WorkersFor(c)) - (IF worker[w].client = c THEN 1 ELSE 0)
<1>1. WorkersFor(c)' = WorkersFor(c) \ {w}
  BY DEF WorkersFor, TypeOK, Finish
<1>2. w \in WorkersFor(c) <=> worker[w].client = c
  BY DEF WorkersFor
<1>3. Cardinality(WorkersFor(c) \ {w})
        = IF w \in WorkersFor(c) THEN Cardinality(WorkersFor(c)) - 1 ELSE Cardinality(WorkersFor(c))
  BY WorkersFinite, FS_RemoveElement
<1> QED  BY <1>1, <1>2, <1>3, WorkersFinite

LEMMA WorkerGoesOn ==
  ASSUME TypeOK, NEW w \in Worker, NEW v, NEW c, worker[w] # Idle, v # Idle,
         v.client = worker[w].client, worker' = [worker EXCEPT ![w] = v]
  PROVE  WorkersFor(c)' = WorkersFor(c)
  BY DEF WorkersFor, TypeOK

\* A reply that can be sent is one the client waits for.
LEMMA SentIsOwed ==
  ASSUME TypeOK, RepliesConserved, NEW c \in connected,
         \/ packetQueue[c] # <<>>
         \/ \E w \in Worker : worker[w] # Idle /\ worker[w].client = c
  PROVE  owed[c] \in 1..MaxRequests
<1> c \in Client
  BY DEF TypeOK
<1>1. owed[c] \in 0..MaxRequests
  BY DEF TypeOK
<1>2. owed[c] = PutFor(c) + InQueues(c) + Cardinality(WorkersFor(c)) + Len(packetQueue[c])
                + dropped[c]
  BY DEF RepliesConserved, Unanswered
<1>3. /\ PutFor(c) \in {0, 1} /\ dropped[c] \in Nat
      /\ Cardinality(WorkersFor(c)) \in Nat /\ Len(packetQueue[c]) \in Nat
  BY Counts DEF TypeOK
<1>4. Cardinality(WorkersFor(c)) > 0 \/ Len(packetQueue[c]) > 0
  <2>1. CASE packetQueue[c] # <<>>
    BY <2>1, Counts
  <2>2. CASE \E w \in Worker : worker[w] # Idle /\ worker[w].client = c
    <3>1. WorkersFor(c) # {}
      BY <2>2 DEF WorkersFor
    <3>2. Cardinality(WorkersFor(c)) # 0
      BY <3>1, WorkersFinite, FS_EmptySet
    <3> QED  BY <1>3, <3>2
  <2> QED  BY <2>1, <2>2
<1>5. MaxRequests \in Nat
  BY SocketsAssumption
<1>6. \A o, m, p, q, w, l, d \in Nat :
        o \in 0..m /\ o = p + q + w + l + d /\ (w > 0 \/ l > 0) => o \in 1..m
  OBVIOUS
<1>7. PutFor(c) \in Nat /\ owed[c] \in Nat /\ InQueues(c) \in Nat
  BY <1>1, <1>3, <1>5, Counts DEF InQueues, Queue, TQT
<1> QED  BY <1>1, <1>2, <1>3, <1>4, <1>5, <1>6, <1>7

(***************************************************************************)
(* Frames: every step keeps them whole.                                    *)
(***************************************************************************)

LEMMA NextFrames ==
  ASSUME TypeOK, FramesKeptByLock, [Next]_vars
  PROVE  FramesKeptByLock'
<1> USE DEF FramesKeptByLock
<1>1. ASSUME UNCHANGED split PROVE FramesKeptByLock'
  BY <1>1
<1>2. ASSUME NEW c \in Client, NEW n, NEW who, Write(c, n, who), who = "net" \/ ~Streamed(c)
      PROVE  FramesKeptByLock'
  BY <1>2 DEF Write, TypeOK
<1>3. ASSUME NEW c \in Client, Close(c) PROVE FramesKeptByLock'
  BY <1>3 DEF Close, TypeOK
<1>4. CASE NetNext
  <2>1. ASSUME NEW c \in Client, HandleGetActivityID(c) PROVE FramesKeptByLock'
    BY <1>1, <1>2, <2>1 DEF HandleGetActivityID
  <2>2. ASSUME NEW c \in Client, ConnectionLost(c) PROVE FramesKeptByLock'
    BY <1>3, <2>2 DEF ConnectionLost
  <2>3. ASSUME UNCHANGED outVars PROVE FramesKeptByLock'
    BY <1>1, <2>3 DEF outVars
  <2> QED
    BY <1>1, <1>4, <2>1, <2>2, <2>3
       DEF NetNext, QueuePacket, OnDisconnect, OnConnect, Drain, OnRead
<1>5. ASSUME NEW w \in Worker, WorkerNext(w) PROVE FramesKeptByLock'
  <2>1. CASE SendPacket(w)
    <3>1. worker[w].client \in Client
      BY <2>1, WorkerShape DEF SendPacket, TypeOK
    <3>2. ~Streamed(worker[w].client)
      BY <2>1, <3>1, LockIsExclusive DEF SendPacket
    <3> QED  BY <1>1, <1>2, <2>1, <3>1, <3>2 DEF SendPacket, OutPacket
  <2> QED
    BY <1>1, <1>5, <2>1
       DEF WorkerNext, GetTask, Take, QueueTask, HandleGetAllX, ProcessTasks,
           HandleDefragmentFreeSpace, HandleFreeSpaceDump,
           SendHeader, SendChunk, TrySendAgain, GiveUp, outVars
<1>6. CASE MainNext
  <2>1. ASSUME NEW c \in Client, DropSocket(c) PROVE FramesKeptByLock'
    BY <1>3, <2>1 DEF DropSocket
  <2>2. ASSUME SendPing \/ ProcessPacket PROVE FramesKeptByLock'
    <3>1. main.client \in Client /\ main # Idle
      BY <2>2, MainShape DEF SendPing, ProcessPacket, TypeOK
    <3>2. ~Streamed(main.client)
      BY <3>1, LockIsExclusive
    <3> QED  BY <1>2, <2>2, <3>1, <3>2 DEF SendPing, ProcessPacket
  <2> QED
    BY <1>1, <1>6, <2>1, <2>2
       DEF MainNext, Update, RetryPing, EndQueue, EndUpdate, VisitSocket, outVars, vars
<1>7. CASE UNCHANGED vars
  BY <1>1, <1>7 DEF vars
<1> QED  BY <1>4, <1>5, <1>6, <1>7 DEF Next

(***************************************************************************)
(* Replies: every step keeps the count.                                    *)
(***************************************************************************)

InTasks(q, c) == Cardinality(TasksOf(q, c))
WithWorkers(c) == Cardinality(WorkersFor(c))
Queued(c) == Len(packetQueue[c])

LEMMA UnansweredSum ==
  ASSUME TypeOK, NEW c \in Client
  PROVE  /\ PutFor(c) \in Int /\ InQueues(c) \in Int /\ WithWorkers(c) \in Int
         /\ Queued(c) \in Int /\ dropped[c] \in Int
         /\ Unanswered(c) = PutFor(c) + InQueues(c) + WithWorkers(c) + Queued(c)
         /\ Unanswered(c)' = PutFor(c)' + InQueues(c)' + WithWorkers(c)' + Queued(c)'
<1>1. PutFor(c) \in Int /\ WithWorkers(c) \in Int /\ Queued(c) \in Int
  BY Counts DEF WithWorkers, Queued
<1>2. InQueues(c) \in Int
  BY Counts DEF InQueues, Queue, TQT
<1>3. dropped[c] \in Int
  BY DEF TypeOK
<1>4. /\ Unanswered(c) = PutFor(c) + InQueues(c) + WithWorkers(c) + Queued(c)
      /\ Unanswered(c)' = PutFor(c)' + InQueues(c)' + WithWorkers(c)' + Queued(c)'
  BY DEF Unanswered, WithWorkers, Queued
<1> QED  BY <1>1, <1>2, <1>3, <1>4

\* What stays the same while a variable does.
LEMMA CountsKept ==
  ASSUME NEW c
  PROVE  /\ UNCHANGED net => PutFor(c)' = PutFor(c)
         /\ UNCHANGED tasks => InQueues(c)' = InQueues(c)
         /\ UNCHANGED worker => WithWorkers(c)' = WithWorkers(c)
         /\ packetQueue'[c] = packetQueue[c] => Queued(c)' = Queued(c)
         /\ UNCHANGED dropped => dropped'[c] = dropped[c]
  BY DEF PutFor, InQueues, TasksOf, WithWorkers, WorkersFor, Queued

\* A queue gets a task of d, or loses its first one.
LEMMA QueueGets ==
  ASSUME TypeOK, NEW q \in Queue, NEW d \in known, NEW c, tasks'[q] = Append(tasks[q], d)
  PROVE  InTasks(q, c)' = InTasks(q, c) + (IF d = c THEN 1 ELSE 0)
<1>1. tasks[q] \in Seq(known)
  BY DEF TypeOK
<1>2. InTasks(q, c)' = Cardinality(Places(Append(tasks[q], d), c))
  BY DEF InTasks, TasksOf, Places
<1>3. InTasks(q, c) = Cardinality(Places(tasks[q], c))
  BY DEF InTasks, TasksOf, Places
<1> QED  BY <1>1, <1>2, <1>3, PlacesAppend

LEMMA QueueLoses ==
  ASSUME TypeOK, NEW q \in Queue, NEW c, tasks[q] # <<>>, tasks'[q] = Tail(tasks[q])
  PROVE  InTasks(q, c)' = InTasks(q, c) - (IF Head(tasks[q]) = c THEN 1 ELSE 0)
<1>1. tasks[q] \in Seq(known)
  BY DEF TypeOK
<1>2. InTasks(q, c)' = Cardinality(Places(Tail(tasks[q]), c))
  BY DEF InTasks, TasksOf, Places
<1>3. InTasks(q, c) = Cardinality(Places(tasks[q], c))
  BY DEF InTasks, TasksOf, Places
<1> QED  BY <1>1, <1>2, <1>3, PlacesTail

\* When one queue changes by k, so do all of them together; a task that goes
\* from one queue to another changes nothing.
LEMMA OneQueueMoves ==
  ASSUME TypeOK, NEW q \in Queue, NEW c \in Client, NEW k \in Int,
         InTasks(q, c)' = InTasks(q, c) + k,
         \A o \in Queue : o # q => tasks'[o] = tasks[o]
  PROVE  InQueues(c)' = InQueues(c) + k
<1>1. \A o \in Queue : o # q => InTasks(o, c)' = InTasks(o, c)
  BY DEF InTasks, TasksOf
<1>2. \A o \in Queue : InTasks(o, c) \in Int
  BY Counts DEF InTasks
<1>3. /\ InQueues(c) = InTasks("Read", c) + InTasks("Write", c) + InTasks("Disk", c)
      /\ InQueues(c)' = InTasks("Read", c)' + InTasks("Write", c)' + InTasks("Disk", c)'
  BY DEF InQueues, InTasks
<1>4. CASE q = "Read"
  BY <1>1, <1>2, <1>3, <1>4 DEF Queue, TQT
<1>5. CASE q = "Write"
  BY <1>1, <1>2, <1>3, <1>5 DEF Queue, TQT
<1>6. CASE q = "Disk"
  BY <1>1, <1>2, <1>3, <1>6 DEF Queue, TQT
<1> QED  BY <1>4, <1>5, <1>6 DEF Queue, TQT

LEMMA TaskIsPassedOn ==
  ASSUME TypeOK, NEW q \in TQT, NEW c \in Client, tasks[q] # <<>>,
         tasks' = [tasks EXCEPT ![q] = Tail(@), !["Disk"] = Append(@, Head(tasks[q]))]
  PROVE  InQueues(c)' = InQueues(c)
<1> DEFINE one == IF Head(tasks[q]) = c THEN 1 ELSE 0
<1>1. /\ q \in Queue /\ "Disk" \in Queue /\ q # "Disk"
      /\ tasks'[q] = Tail(tasks[q]) /\ tasks'["Disk"] = Append(tasks["Disk"], Head(tasks[q]))
      /\ \A o \in TQT : o # q => tasks'[o] = tasks[o]
  BY DEF Queue, TQT, TypeOK
<1>2. InTasks(q, c)' = InTasks(q, c) - one
  BY <1>1, QueueLoses
<1>3. InTasks("Disk", c)' = InTasks("Disk", c) + one
  <2>1. PICK d \in known : d = Head(tasks[q])
    BY <1>1, HeadTailProperties DEF TypeOK
  <2>2. tasks'["Disk"] = Append(tasks["Disk"], d)
    BY <1>1, <2>1
  <2>3. InTasks("Disk", c)' = InTasks("Disk", c) + (IF d = c THEN 1 ELSE 0)
    BY <1>1, <2>2, QueueGets
  <2> QED  BY <2>1, <2>3
<1> HIDE DEF one
<1>4. one \in Int
  BY DEF one
<1>5. \A o \in TQT : o # q => InTasks(o, c)' = InTasks(o, c)
  BY <1>1 DEF InTasks, TasksOf
<1>6. \A o \in Queue : InTasks(o, c) \in Int
  BY Counts DEF InTasks
<1>7. /\ InQueues(c) = InTasks("Read", c) + InTasks("Write", c) + InTasks("Disk", c)
      /\ InQueues(c)' = InTasks("Read", c)' + InTasks("Write", c)' + InTasks("Disk", c)'
  BY DEF InQueues, InTasks
<1>8. CASE q = "Read"
  BY <1>2, <1>3, <1>4, <1>5, <1>6, <1>7, <1>8 DEF Queue, TQT
<1>9. CASE q = "Write"
  BY <1>2, <1>3, <1>4, <1>5, <1>6, <1>7, <1>9 DEF Queue, TQT
<1> QED  BY <1>8, <1>9 DEF TQT

LEMMA NothingMoves ==
  ASSUME TypeOK, RepliesConserved, UNCHANGED <<net, tasks, worker, packetQueue, owed, dropped>>,
         connected' \subseteq connected
  PROVE  RepliesConserved'
<1> SUFFICES ASSUME NEW c \in connected PROVE owed[c] = Unanswered(c)' + dropped[c]
  BY DEF RepliesConserved
<1> QED
  BY DEF RepliesConserved, Unanswered, InQueues, PutFor, TasksOf, WorkersFor

\* A socket nobody has accepted waits for nothing.
LEMMA StrangerWaitsForNothing ==
  ASSUME TypeOK, NEW c \in Client \ known
  PROVE  Unanswered(c) = 0
<1>1. PutFor(c) = 0
  BY NetShape DEF PutFor
<1>2. \A q \in Queue : TasksOf(q, c) = {}
  <2>1. ASSUME NEW q \in Queue, NEW i \in 1..Len(tasks[q]) PROVE tasks[q][i] \in known
    BY ElementOfSeq DEF TypeOK
  <2> QED  BY <2>1 DEF TasksOf
<1>3. WorkersFor(c) = {}
  BY WorkerShape DEF WorkersFor
<1>4. packetQueue[c] = <<>>
  BY DEF TypeOK
<1>5. InQueues(c) = 0 /\ WithWorkers(c) = 0 /\ Queued(c) = 0
  <2>1. Cardinality({}) = 0
    BY FS_EmptySet
  <2>2. TasksOf("Read", c) = {} /\ TasksOf("Write", c) = {} /\ TasksOf("Disk", c) = {}
    BY <1>2 DEF Queue, TQT
  <2>3. InQueues(c) = 0
    BY <2>1, <2>2 DEF InQueues
  <2>4. WithWorkers(c) = 0 /\ Queued(c) = 0
    BY <1>3, <1>4, <2>1, EmptySeq DEF WithWorkers, Queued
  <2> QED  BY <2>3, <2>4
<1> QED  BY <1>1, <1>5, UnansweredSum

LEMMA OnReadCount ==
  ASSUME TypeOK, RepliesConserved, NEW d \in Client, NEW q \in TQT, OnRead(d, q)
  PROVE  RepliesConserved'
<1> SUFFICES ASSUME NEW c \in connected PROVE owed'[c] = Unanswered(c)' + dropped'[c]
  BY DEF RepliesConserved, OnRead, socketVars
<1> DEFINE one == IF c = d THEN 1 ELSE 0
<1>1. c \in Client /\ owed[c] \in Int /\ owed[c] = Unanswered(c) + dropped[c]
  BY DEF TypeOK, RepliesConserved
<1>2. PutFor(c)' = PutFor(c) + one
  BY DEF OnRead, PutFor, Idle
<1>3. owed'[c] = owed[c] + one
  BY <1>1 DEF OnRead, TypeOK
<1>4. InQueues(c)' = InQueues(c) /\ dropped'[c] = dropped[c]
      /\ WithWorkers(c)' = WithWorkers(c) /\ Queued(c)' = Queued(c)
  BY CountsKept DEF OnRead
<1> HIDE DEF one
<1>5. one \in Int
  BY DEF one
<1> QED  BY <1>1, <1>2, <1>3, <1>4, <1>5, UnansweredSum

LEMMA QueuePacketCount ==
  ASSUME TypeOK, RepliesConserved, QueuePacket
  PROVE  RepliesConserved'
<1> SUFFICES ASSUME NEW c \in connected PROVE owed'[c] = Unanswered(c)' + dropped'[c]
  BY DEF RepliesConserved, QueuePacket, socketVars
<1>1. c \in Client /\ owed[c] = Unanswered(c) + dropped[c]
  BY DEF TypeOK, RepliesConserved
<1>2. PICK q \in TQT, d \in known : q = net.queue /\ d = net.client
  BY NetShape DEF QueuePacket
<1> DEFINE one == IF d = c THEN 1 ELSE 0
<1>3. PutFor(c)' = PutFor(c) - one
  BY <1>2 DEF QueuePacket, PutFor, Idle
<1>4. InQueues(c)' = InQueues(c) + one
  <2>1. /\ q \in Queue /\ tasks'[q] = Append(tasks[q], d)
        /\ \A o \in Queue : o # q => tasks'[o] = tasks[o]
    BY <1>2 DEF QueuePacket, TypeOK, Queue
  <2>2. InTasks(q, c)' = InTasks(q, c) + one
    BY <2>1, QueueGets
  <2>3. one \in Int
    OBVIOUS
  <2> HIDE DEF one
  <2> QED  BY <1>1, <2>1, <2>2, <2>3, OneQueueMoves
<1>5. /\ WithWorkers(c)' = WithWorkers(c) /\ Queued(c)' = Queued(c)
      /\ owed'[c] = owed[c] /\ dropped'[c] = dropped[c]
  BY CountsKept DEF QueuePacket, outVars
<1> HIDE DEF one
<1>6. one \in Int
  BY DEF one
<1> QED  BY <1>1, <1>3, <1>4, <1>5, <1>6, UnansweredSum

LEMMA OnConnectCount ==
  ASSUME TypeOK, RepliesConserved, NEW d \in Client, OnConnect(d)
  PROVE  RepliesConserved'
<1> SUFFICES ASSUME NEW c \in connected' PROVE owed'[c] = Unanswered(c)' + dropped'[c]
  BY DEF RepliesConserved
<1>1. Unanswered(c)' = Unanswered(c) /\ owed'[c] = owed[c] /\ dropped'[c] = dropped[c]
  BY DEF OnConnect, outVars, Unanswered, InQueues, PutFor, TasksOf, WorkersFor
<1>2. CASE c \in connected
  BY <1>1, <1>2 DEF RepliesConserved
<1>3. CASE c \notin connected
  <2>1. c = d /\ c \in Client \ known /\ c \notin connected
    BY <1>3 DEF OnConnect, TypeOK
  <2> QED  BY <1>1, <2>1, StrangerWaitsForNothing DEF TypeOK
<1> QED  BY <1>2, <1>3

LEMMA HandleGetActivityIDCount ==
  ASSUME TypeOK, RepliesConserved, NEW d \in Client, HandleGetActivityID(d)
  PROVE  RepliesConserved'
<1>1. CASE UNCHANGED <<packetQueue, owed>>
  BY <1>1, NothingMoves DEF HandleGetActivityID, socketVars
<1>2. CASE /\ packetQueue' = [packetQueue EXCEPT ![d] = Append(@, ActivitySize)]
           /\ owed' = [owed EXCEPT ![d] = @ + 1]
  <2> SUFFICES ASSUME NEW c \in connected PROVE owed'[c] = Unanswered(c)' + dropped'[c]
    BY DEF RepliesConserved, HandleGetActivityID, socketVars
  <2> DEFINE one == IF d = c THEN 1 ELSE 0
  <2>1. c \in Client /\ owed[c] = Unanswered(c) + dropped[c] /\ owed[c] \in Int
    BY DEF TypeOK, RepliesConserved
  <2>2. owed'[c] = owed[c] + one
    BY <1>2, <2>1 DEF TypeOK
  <2>3. Queued(c)' = Queued(c) + one
    <3>1. ActivitySize \in Nat /\ packetQueue[c] \in Seq(Nat)
      BY <2>1, SocketsAssumption DEF TypeOK
    <3>2. packetQueue'[c] = IF d = c THEN Append(packetQueue[c], ActivitySize) ELSE packetQueue[c]
      BY <1>2, <2>1 DEF TypeOK
    <3>3. Len(Append(packetQueue[c], ActivitySize)) = Len(packetQueue[c]) + 1
          /\ Len(packetQueue[c]) \in Nat
      BY <3>1, AppendProperties, LenProperties
    <3>4. CASE d = c
      BY <3>2, <3>3, <3>4 DEF Queued
    <3>5. CASE d # c
      BY <3>2, <3>3, <3>5 DEF Queued
    <3> QED  BY <3>4, <3>5
  <2>4. PutFor(c)' = PutFor(c) /\ WithWorkers(c)' = WithWorkers(c)
        /\ InQueues(c)' = InQueues(c) /\ dropped'[c] = dropped[c]
    BY CountsKept DEF HandleGetActivityID
  <2> HIDE DEF one
  <2>5. one \in Int
    BY DEF one
  <2> QED  BY <2>1, <2>2, <2>3, <2>4, <2>5, UnansweredSum
<1> QED  BY <1>1, <1>2 DEF HandleGetActivityID

\* When a socket closes, the others' counts stay what they are.
LEMMA CloseCount ==
  ASSUME TypeOK, RepliesConserved, NEW d \in Client, Close(d),
         UNCHANGED <<tasks, worker>>,
         \A c \in connected \ {d} : PutFor(c)' = PutFor(c) /\ packetQueue'[c] = packetQueue[c]
  PROVE  RepliesConserved'
<1> SUFFICES ASSUME NEW c \in connected \ {d} PROVE owed'[c] = Unanswered(c)' + dropped'[c]
  BY DEF RepliesConserved, Close
<1>1. c \in Client /\ owed[c] = Unanswered(c) + dropped[c]
  BY DEF TypeOK, RepliesConserved
<1>2. owed'[c] = owed[c] /\ dropped'[c] = dropped[c]
  BY <1>1 DEF Close, TypeOK
<1>3. WithWorkers(c)' = WithWorkers(c) /\ Queued(c)' = Queued(c) /\ PutFor(c)' = PutFor(c)
      /\ InQueues(c)' = InQueues(c)
  BY CountsKept
<1> QED  BY <1>1, <1>2, <1>3, UnansweredSum

LEMMA ConnectionLostCount ==
  ASSUME TypeOK, RepliesConserved, NEW d \in Client, ConnectionLost(d)
  PROVE  RepliesConserved'
<1>1. \A c \in Client : PutFor(c)' = PutFor(c)
  BY DEF ConnectionLost, PutFor, Idle
<1> QED  BY <1>1, CloseCount DEF ConnectionLost, TypeOK

LEMMA DropSocketCount ==
  ASSUME TypeOK, RepliesConserved, NEW d \in Client, DropSocket(d)
  PROVE  RepliesConserved'
<1>1. \A c \in Client \ {d} : PutFor(c)' = PutFor(c) /\ packetQueue'[c] = packetQueue[c]
  BY DEF DropSocket, PutFor, Remove, TypeOK
<1> QED  BY <1>1, CloseCount DEF DropSocket, TypeOK

LEMMA OnDisconnectCount ==
  ASSUME TypeOK, RepliesConserved, OnDisconnect
  PROVE  RepliesConserved'
<1> SUFFICES ASSUME NEW c \in connected PROVE owed'[c] = Unanswered(c)' + dropped'[c]
  BY DEF RepliesConserved, OnDisconnect
<1>1. c \in Client /\ owed[c] = Unanswered(c) + dropped[c] /\ c # net.client
  BY NetShape DEF TypeOK, RepliesConserved, OnDisconnect
<1>2. packetQueue'[c] = packetQueue[c]
  BY <1>1 DEF OnDisconnect, Remove, TypeOK
<1>3. PutFor(c)' = PutFor(c)
  BY DEF OnDisconnect, PutFor, Idle
<1>4. WithWorkers(c)' = WithWorkers(c) /\ Queued(c)' = Queued(c) /\ owed'[c] = owed[c]
      /\ InQueues(c)' = InQueues(c) /\ dropped'[c] = dropped[c]
  BY <1>2, CountsKept DEF OnDisconnect
<1> QED  BY <1>1, <1>3, <1>4, UnansweredSum

LEMMA TakeCount ==
  ASSUME TypeOK, RepliesConserved, NEW w \in Worker, NEW q \in Queue, NEW sizes, Take(w, q, sizes)
  PROVE  RepliesConserved'
<1> SUFFICES ASSUME NEW c \in connected PROVE owed'[c] = Unanswered(c)' + dropped'[c]
  BY DEF RepliesConserved, Take, socketVars
<1>1. c \in Client /\ owed[c] = Unanswered(c) + dropped[c]
  BY DEF TypeOK, RepliesConserved
<1> DEFINE one == IF Head(tasks[q]) = c THEN 1 ELSE 0
<1>2. InQueues(c)' = InQueues(c) - one
  <2>1. /\ tasks[q] # <<>> /\ tasks'[q] = Tail(tasks[q])
        /\ \A o \in Queue : o # q => tasks'[o] = tasks[o]
    BY DEF Take, TypeOK
  <2>2. InTasks(q, c)' = InTasks(q, c) - one
    BY <2>1, QueueLoses
  <2>3. one \in Int /\ InTasks(q, c) \in Int
    BY <1>1, Counts DEF InTasks
  <2> HIDE DEF one
  <2>4. InTasks(q, c)' = InTasks(q, c) + (-one) /\ -one \in Int
    BY <2>2, <2>3
  <2>5. InQueues(c)' = InQueues(c) + (-one)
    BY <1>1, <2>1, <2>4, OneQueueMoves
  <2> QED  BY <1>1, <2>3, <2>5, UnansweredSum
<1>3. WithWorkers(c)' = WithWorkers(c) + one
  <2>1. PICK n \in sizes :
          worker' = [worker EXCEPT ![w] = [op |-> "reply", client |-> Head(tasks[q]), size |-> n]]
    BY DEF Take
  <2> DEFINE v == [op |-> "reply", client |-> Head(tasks[q]), size |-> n]
  <2>2. v # Idle /\ v.client = Head(tasks[q]) /\ worker[w] = Idle
    BY DEF Take, Idle
  <2> HIDE DEF v
  <2>3. worker' = [worker EXCEPT ![w] = v]
    BY <2>1 DEF v
  <2> QED  BY <2>2, <2>3, WorkerTakes DEF WithWorkers
<1>4. /\ PutFor(c)' = PutFor(c) /\ Queued(c)' = Queued(c)
      /\ owed'[c] = owed[c] /\ dropped'[c] = dropped[c]
  BY CountsKept DEF Take, outVars
<1> HIDE DEF one
<1>5. one \in Int
  BY DEF one
<1> QED  BY <1>1, <1>2, <1>3, <1>4, <1>5, UnansweredSum

LEMMA GetTaskCount ==
  ASSUME TypeOK, RepliesConserved, NEW w \in Worker, GetTask(w) \/ ProcessTasks
  PROVE  RepliesConserved'
<1>1. QueueOf(w) \in Queue /\ "Disk" \in Queue
  BY DEF QueueOf, Queue, TQT
<1>2. StorageThread \in Worker /\ DumpThread \subseteq Worker
  BY DEF Worker
<1> QED
  BY <1>1, <1>2, TakeCount DEF GetTask, ProcessTasks, HandleDefragmentFreeSpace, HandleFreeSpaceDump

LEMMA QueueTaskCount ==
  ASSUME TypeOK, RepliesConserved, NEW w \in Worker, QueueTask(w)
  PROVE  RepliesConserved'
<1> SUFFICES ASSUME NEW c \in connected PROVE owed'[c] = Unanswered(c)' + dropped'[c]
  BY DEF RepliesConserved, QueueTask, socketVars
<1>1. c \in Client /\ owed[c] = Unanswered(c) + dropped[c]
  BY DEF TypeOK, RepliesConserved
<1>2. QueueOf(w) \in TQT
  BY DEF QueueOf, TQT
<1>3. InQueues(c)' = InQueues(c)
  BY <1>1, <1>2, TaskIsPassedOn DEF QueueTask
<1>4. /\ PutFor(c)' = PutFor(c) /\ WithWorkers(c)' = WithWorkers(c)
      /\ Queued(c)' = Queued(c) /\ owed'[c] = owed[c] /\ dropped'[c] = dropped[c]
  BY CountsKept DEF QueueTask, outVars
<1> QED  BY <1>1, <1>3, <1>4, UnansweredSum

\* The only task that is dropped at once.
LEMMA HandleGetAllXCount ==
  ASSUME TypeOK, RepliesConserved, NEW w \in Worker, HandleGetAllX(w)
  PROVE  RepliesConserved'
<1> SUFFICES ASSUME NEW c \in connected PROVE owed'[c] = Unanswered(c)' + dropped'[c]
  BY DEF RepliesConserved, HandleGetAllX, socketVars
<1>1. c \in Client /\ owed[c] = Unanswered(c) + dropped[c] /\ "Write" \in Queue
  BY DEF TypeOK, RepliesConserved, Queue, TQT
<1> DEFINE one == IF Head(tasks["Write"]) = c THEN 1 ELSE 0
<1>2. InQueues(c)' = InQueues(c) - one
  <2>1. /\ tasks["Write"] # <<>> /\ tasks'["Write"] = Tail(tasks["Write"])
        /\ \A o \in Queue : o # "Write" => tasks'[o] = tasks[o]
    BY <1>1 DEF HandleGetAllX, TypeOK
  <2>2. InTasks("Write", c)' = InTasks("Write", c) - one
    BY <1>1, <2>1, QueueLoses
  <2>3. one \in Int /\ InTasks("Write", c) \in Int
    BY <1>1, Counts DEF InTasks
  <2> HIDE DEF one
  <2>4. InTasks("Write", c)' = InTasks("Write", c) + (-one) /\ -one \in Int
    BY <2>2, <2>3
  <2>5. InQueues(c)' = InQueues(c) + (-one)
    BY <1>1, <2>1, <2>4, OneQueueMoves
  <2> QED  BY <1>1, <2>3, <2>5, UnansweredSum
<1>3. dropped'[c] = dropped[c] + one
  <2>1. PICK d : d = Head(tasks["Write"])
    OBVIOUS
  <2>2. dropped' = [dropped EXCEPT ![d] = IF d \in connected THEN @ + 1 ELSE @]
    BY <2>1 DEF HandleGetAllX, Drop
  <2>3. c \in DOMAIN dropped /\ c \in connected /\ dropped[c] \in Nat
    BY <1>1 DEF TypeOK
  <2>4. dropped'[c] = IF c = d THEN dropped[c] + 1 ELSE dropped[c]
    BY <2>2, <2>3
  <2> QED  BY <2>1, <2>3, <2>4
<1>4. /\ PutFor(c)' = PutFor(c) /\ WithWorkers(c)' = WithWorkers(c)
      /\ Queued(c)' = Queued(c) /\ owed'[c] = owed[c]
  BY CountsKept DEF HandleGetAllX
<1> HIDE DEF one
<1>5. one \in Int
  BY DEF one
<1> QED  BY <1>1, <1>2, <1>3, <1>4, <1>5, UnansweredSum

LEMMA SendPacketCount ==
  ASSUME TypeOK, RepliesConserved, NEW w \in Worker, SendPacket(w)
  PROVE  RepliesConserved'
<1> SUFFICES ASSUME NEW c \in connected PROVE owed'[c] = Unanswered(c)' + dropped'[c]
  BY DEF RepliesConserved, SendPacket, socketVars
<1>1. PICK d \in known, n \in Nat : d = worker[w].client /\ n = worker[w].size
  BY WorkerShape DEF SendPacket
<1>2. /\ c \in Client /\ c \in sockets /\ d \in Client
      /\ owed[c] = Unanswered(c) + dropped[c] /\ owed[c] \in Int
  BY DEF TypeOK, RepliesConserved
<1> DEFINE one == IF d = c THEN 1 ELSE 0
<1>3. WithWorkers(c)' = WithWorkers(c) - one
  <2>1. worker[w] # Idle /\ Finish(w)
    BY WorkerShape DEF SendPacket
  <2> QED  BY <1>1, <2>1, WorkerFinishes DEF WithWorkers
<1>4. PutFor(c)' = PutFor(c)
      /\ InQueues(c)' = InQueues(c) /\ dropped'[c] = dropped[c]
  BY CountsKept DEF SendPacket
<1>5. \/ owed'[c] = owed[c] - one /\ Queued(c)' = Queued(c)
      \/ owed'[c] = owed[c] /\ Queued(c)' = Queued(c) + one
  <2>1. CASE c # d
    <3>1. owed'[c] = owed[c] /\ packetQueue'[c] = packetQueue[c]
      BY <1>1, <1>2, <2>1 DEF SendPacket, OutPacket, Write, TypeOK
    <3> QED  BY <1>2, <2>1, <3>1, CountsKept
  <2>2. CASE c = d
    <3>1. OutPacket(d, n, w) /\ d \in connected
      BY <1>1, <1>2, <2>2 DEF SendPacket
    <3>2. CASE owed' = [owed EXCEPT ![d] = @ - 1] /\ UNCHANGED packetQueue
      <4>1. owed'[c] = owed[c] - 1 /\ Queued(c)' = Queued(c)
        BY <1>2, <2>2, <3>2, CountsKept DEF TypeOK
      <4> QED  BY <2>2, <4>1
    <3>3. CASE packetQueue' = [packetQueue EXCEPT ![d] = Append(@, n)] /\ UNCHANGED owed
      <4>1. packetQueue[c] \in Seq(Nat) /\ packetQueue'[c] = Append(packetQueue[c], n)
        BY <1>2, <2>2, <3>3 DEF TypeOK
      <4>2. Queued(c)' = Queued(c) + 1
        BY <4>1, AppendProperties DEF Queued
      <4> QED  BY <2>2, <3>3, <4>2
    <3> QED  BY <3>1, <3>2, <3>3 DEF OutPacket
  <2> QED  BY <2>1, <2>2
<1> HIDE DEF one
<1>6. one \in Int
  BY DEF one
<1> QED  BY <1>2, <1>3, <1>4, <1>5, <1>6, UnansweredSum

\* The last chunk of the reply is sent, and the client no longer waits for it,
\* or the reply is dropped: the thread is done with it.
LEMMA FinishCount ==
  ASSUME TypeOK, RepliesConserved, NEW w \in Worker, worker[w] # Idle, Finish(w),
         \/ /\ owed' = [owed EXCEPT ![worker[w].client] = @ - 1]
            /\ UNCHANGED dropped
         \/ Drop(worker[w].client) /\ UNCHANGED owed,
         UNCHANGED <<connected, net, tasks, packetQueue>>
  PROVE  RepliesConserved'
<1> SUFFICES ASSUME NEW c \in connected PROVE owed'[c] = Unanswered(c)' + dropped'[c]
  BY DEF RepliesConserved
<1>1. PICK d \in known : d = worker[w].client
  BY WorkerShape
<1>2. /\ c \in Client /\ d \in Client
      /\ owed[c] = Unanswered(c) + dropped[c] /\ owed[c] \in Int
  BY DEF TypeOK, RepliesConserved
<1> DEFINE one == IF d = c THEN 1 ELSE 0
<1>3. WithWorkers(c)' = WithWorkers(c) - one
  BY <1>1, WorkerFinishes DEF WithWorkers
<1>4. \/ owed'[c] = owed[c] - one /\ dropped'[c] = dropped[c]
      \/ owed'[c] = owed[c] /\ dropped'[c] = dropped[c] + one
  BY SMTT(40), <1>1, <1>2 DEF TypeOK, Drop
<1>5. PutFor(c)' = PutFor(c) /\ Queued(c)' = Queued(c) /\ InQueues(c)' = InQueues(c)
  BY CountsKept
<1> HIDE DEF one
<1>6. one \in Int
  BY DEF one
<1> QED  BY <1>2, <1>3, <1>4, <1>5, <1>6, UnansweredSum

\* The worker goes on with the same reply.
LEMMA GoesOnCount ==
  ASSUME TypeOK, RepliesConserved, NEW w \in Worker, NEW v, worker[w] # Idle, v # Idle,
         v.client = worker[w].client, worker' = [worker EXCEPT ![w] = v],
         UNCHANGED <<connected, owed, dropped, net, tasks, packetQueue>>
  PROVE  RepliesConserved'
<1>1. \A c : WorkersFor(c)' = WorkersFor(c)
  BY WorkerGoesOn
<1> QED  BY <1>1 DEF RepliesConserved, Unanswered, InQueues, PutFor, TasksOf

LEMMA SendHeaderCount ==
  ASSUME TypeOK, RepliesConserved, NEW w \in Worker, SendHeader(w)
  PROVE  RepliesConserved'
<1>1. worker[w] # Idle
  BY WorkerShape DEF SendHeader
<1> DEFINE v == [op |-> "stream", client |-> worker[w].client, left |-> worker[w].size, tries |-> 0]
<1>2. CASE worker' = [worker EXCEPT ![w] = v] /\ UNCHANGED dropped
  <2>1. v # Idle /\ v.client = worker[w].client
    BY DEF Idle
  <2> HIDE DEF v
  <2> QED  BY <1>1, <1>2, <2>1, GoesOnCount DEF SendHeader, socketVars
<1>3. CASE Drop(worker[w].client) /\ Finish(w)
  BY <1>1, <1>3, FinishCount DEF SendHeader, socketVars
<1> QED  BY <1>2, <1>3 DEF SendHeader

LEMMA SendChunkCount ==
  ASSUME TypeOK, RepliesConserved, NEW w \in Worker, SendChunk(w)
  PROVE  RepliesConserved'
<1>1. worker[w] # Idle
  BY WorkerShape DEF SendChunk
<1> DEFINE v == [worker[w] EXCEPT !.left = @ - ChunkOf(w)]
<1>2. CASE worker' = [worker EXCEPT ![w] = v] /\ UNCHANGED owed
  <2>1. v # Idle /\ v.client = worker[w].client
    BY DEF Idle, SendChunk, TypeOK, WorkerState
  <2> HIDE DEF v
  <2> QED  BY <1>1, <1>2, <2>1, GoesOnCount DEF SendChunk, socketVars
<1>3. CASE owed' = [owed EXCEPT ![worker[w].client] = @ - 1] /\ EndStream(w)
  BY <1>1, <1>3, FinishCount DEF SendChunk, EndStream, socketVars
<1> QED  BY <1>2, <1>3 DEF SendChunk

LEMMA TrySendAgainCount ==
  ASSUME TypeOK, RepliesConserved, NEW w \in Worker, TrySendAgain(w)
  PROVE  RepliesConserved'
<1>1. worker[w] # Idle
  BY WorkerShape DEF TrySendAgain
<1> DEFINE v == [worker[w] EXCEPT !.tries = Counted(@)]
<1>2. v # Idle /\ v.client = worker[w].client /\ worker' = [worker EXCEPT ![w] = v]
  BY DEF Idle, TrySendAgain, TypeOK, WorkerState
<1> HIDE DEF v
<1> QED  BY <1>1, <1>2, GoesOnCount DEF TrySendAgain, socketVars, outVars

LEMMA ProcessPacketCount ==
  ASSUME TypeOK, RepliesConserved, ProcessPacket
  PROVE  RepliesConserved'
<1> SUFFICES ASSUME NEW c \in connected PROVE owed'[c] = Unanswered(c)' + dropped'[c]
  BY DEF RepliesConserved, ProcessPacket, socketVars
<1>1. PICK d \in known : d = main.client
  BY MainShape DEF ProcessPacket
<1>2. /\ c \in Client /\ d \in Client
      /\ owed[c] = Unanswered(c) + dropped[c] /\ owed[c] \in Int
  BY DEF TypeOK, RepliesConserved
<1> DEFINE one == IF d = c THEN 1 ELSE 0
<1>3. owed'[c] = owed[c] - one
  BY <1>1, <1>2 DEF ProcessPacket, TypeOK
<1>4. Queued(c)' = Queued(c) - one
  <2>1. CASE c # d
    <3>1. packetQueue'[c] = packetQueue[c]
      BY <1>1, <1>2, <2>1 DEF ProcessPacket, TypeOK
    <3> QED  BY <1>2, <2>1, <3>1, CountsKept, UnansweredSum
  <2>2. CASE c = d
    <3>1. /\ packetQueue[c] \in Seq(Nat) /\ packetQueue[c] # <<>>
          /\ packetQueue'[c] = Tail(packetQueue[c])
      BY <1>1, <1>2, <2>2 DEF ProcessPacket, TypeOK
    <3> QED  BY <2>2, <3>1, HeadTailProperties DEF Queued
  <2> QED  BY <2>1, <2>2
<1>5. PutFor(c)' = PutFor(c) /\ WithWorkers(c)' = WithWorkers(c)
      /\ InQueues(c)' = InQueues(c) /\ dropped'[c] = dropped[c]
  BY CountsKept DEF ProcessPacket
<1> HIDE DEF one
<1>6. one \in Int
  BY DEF one
<1> QED  BY <1>2, <1>3, <1>4, <1>5, <1>6, UnansweredSum

LEMMA EndQueueCount ==
  ASSUME TypeOK, RepliesConserved, EndQueue
  PROVE  RepliesConserved'
<1> SUFFICES ASSUME NEW c \in connected PROVE owed'[c] = Unanswered(c)' + dropped'[c]
  BY DEF RepliesConserved, EndQueue, socketVars
<1>1. packetQueue'[c] = packetQueue[c]
  BY MainShape DEF EndQueue, Left, TypeOK
<1> QED
  BY <1>1 DEF EndQueue, RepliesConserved, Unanswered, InQueues, PutFor, TasksOf, WorkersFor

LEMMA NextCount ==
  ASSUME TypeOK, RepliesConserved, [Next]_vars
  PROVE  RepliesConserved'
<1>1. CASE NetNext
  <2>1. ASSUME NEW c \in Client, Drain(c) PROVE RepliesConserved'
    BY <2>1, NothingMoves DEF Drain, socketVars
  <2> QED
    BY <1>1, <2>1, OnConnectCount, OnReadCount, QueuePacketCount, HandleGetActivityIDCount,
       ConnectionLostCount, OnDisconnectCount DEF NetNext
<1>2. ASSUME NEW w \in Worker, WorkerNext(w) PROVE RepliesConserved'
  <2>1. CASE GiveUp(w)
    BY <2>1, FinishCount DEF GiveUp, EndStream, Idle, socketVars
  <2> QED
    BY <1>2, <2>1, GetTaskCount, QueueTaskCount, HandleGetAllXCount, SendPacketCount,
       SendHeaderCount, SendChunkCount, TrySendAgainCount DEF WorkerNext
<1>3. CASE MainNext
  <2>1. ASSUME Update \/ SendPing \/ EndUpdate PROVE RepliesConserved'
    BY <2>1, NothingMoves DEF Update, SendPing, EndUpdate, socketVars, outVars
  <2>2. ASSUME RetryPing PROVE RepliesConserved'
    BY <2>2, NothingMoves DEF RetryPing, vars
  <2>3. ASSUME NEW c \in Client, VisitSocket(c) PROVE RepliesConserved'
    BY <2>3, NothingMoves DEF VisitSocket, socketVars, outVars
  <2> QED
    BY <1>3, <2>1, <2>2, <2>3, DropSocketCount, ProcessPacketCount, EndQueueCount DEF MainNext
<1>4. CASE UNCHANGED vars
  BY <1>4, NothingMoves DEF vars
<1> QED  BY <1>1, <1>2, <1>3, <1>4 DEF Next

(***************************************************************************)
(* Types: every step keeps them.                                           *)
(***************************************************************************)

LEMMA Sizes ==
  /\ BufferSize \in Nat /\ BufferSize >= 2 /\ MaxRequests \in Nat /\ MaxTasks \in Nat
  /\ MaxTasks > 0 /\ ActivitySize \in Nat /\ PingSize \in Nat
  /\ \A q \in TQT : ReplySizes[q] \subseteq Nat \ {0}
  /\ DumpSizes \subseteq Nat \ {0} /\ {DefragSize} \subseteq Nat \ {0}
  /\ BufferSize \div 2 \in Nat \ {0}
  BY SocketsAssumption DEF TQT, ReplySizes

LEMMA OnConnectTypes ==
  ASSUME TypeOK, NEW d \in Client, OnConnect(d)
  PROVE  TypeOK'
<1>1. known \subseteq known' /\ known' \subseteq Client
  BY DEF OnConnect, TypeOK
<1>2. tasks' \in [Queue -> Seq(known')] /\ \A q \in TQT : Len(tasks'[q]) <= MaxTasks
  BY <1>1, SeqMonotonic DEF OnConnect, TypeOK
<1>3. net' \in NetState'
  BY DEF OnConnect, TypeOK, NetState
<1>4. main' \in MainState'
  BY <1>1, MainShape DEF OnConnect, TypeOK, MainState
<1>5. worker' \in [Worker -> WorkerState']
  <2>1. WorkerState \subseteq WorkerState'
    BY <1>1 DEF WorkerState
  <2> QED  BY <2>1 DEF OnConnect, TypeOK
<1> QED  BY <1>1, <1>2, <1>3, <1>4, <1>5 DEF OnConnect, TypeOK, outVars

LEMMA OnReadTypes ==
  ASSUME TypeOK, NEW d \in Client, NEW q \in TQT, OnRead(d, q)
  PROVE  TypeOK'
<1>1. net' \in NetState'
  BY DEF OnRead, TypeOK, NetState, socketVars
<1>2. owed' \in [Client -> 0..MaxRequests]
  BY Sizes DEF OnRead, TypeOK
<1> QED
  BY <1>1, <1>2 DEF OnRead, TypeOK, socketVars, WorkerState, MainState

LEMMA QueuePacketTypes ==
  ASSUME TypeOK, QueuePacket
  PROVE  TypeOK'
<1>1. PICK q \in TQT, d \in known : q = net.queue /\ d = net.client
  BY NetShape DEF QueuePacket
<1> q \in Queue
  BY DEF Queue
<1>2. /\ tasks[q] \in Seq(known) /\ Append(tasks[q], d) \in Seq(known)
      /\ Len(Append(tasks[q], d)) <= MaxTasks
  BY <1>1, AppendProperties, LenProperties, Sizes DEF QueuePacket, TypeOK
<1>3. tasks' \in [Queue -> Seq(known)] /\ \A o \in TQT : Len(tasks'[o]) <= MaxTasks
  BY <1>1, <1>2 DEF QueuePacket, TypeOK
<1>4. net' \in NetState'
  BY DEF QueuePacket, NetState
<1> QED
  BY <1>3, <1>4 DEF QueuePacket, TypeOK, socketVars, outVars, WorkerState, MainState

LEMMA SendTypes ==
  ASSUME TypeOK, NEW c \in Client, NEW n \in Nat, HasRoom(c, n),
         wbuf' = [wbuf EXCEPT ![c] = @ + n]
  PROVE  wbuf' \in [Client -> 0..BufferSize]
  BY Sizes DEF TypeOK, HasRoom

LEMMA WriteTypes ==
  ASSUME TypeOK, NEW c \in Client, NEW n \in Nat, NEW who \in Worker \cup {"net", "main"},
         HasRoom(c, HeaderSize + n), Write(c, n, who)
  PROVE  /\ wbuf' \in [Client -> 0..BufferSize]
         /\ split' \in [Client -> SUBSET (Worker \cup {"net", "main"})]
  BY Sizes DEF TypeOK, HasRoom, Write, HeaderSize

LEMMA HandleGetActivityIDTypes ==
  ASSUME TypeOK, NEW d \in Client, HandleGetActivityID(d)
  PROVE  TypeOK'
<1>1. /\ wbuf' \in [Client -> 0..BufferSize]
      /\ split' \in [Client -> SUBSET (Worker \cup {"net", "main"})]
  <2>1. CASE UNCHANGED <<wbuf, split>>
    BY <2>1 DEF TypeOK
  <2>2. CASE HasRoom(d, HeaderSize + ActivitySize) /\ Write(d, ActivitySize, "net")
    BY <2>2, Sizes, WriteTypes
  <2> QED  BY <2>1, <2>2 DEF HandleGetActivityID
<1>2. packetQueue' \in [Client -> Seq(Nat)] /\ \A c \in Client \ known : packetQueue'[c] = <<>>
  <2>1. packetQueue[d] \in Seq(Nat) /\ Append(packetQueue[d], ActivitySize) \in Seq(Nat)
    BY Sizes, AppendProperties DEF TypeOK
  <2>2. packetQueue' = packetQueue
        \/ packetQueue' = [packetQueue EXCEPT ![d] = Append(@, ActivitySize)]
    BY DEF HandleGetActivityID
  <2>3. d \in known
    BY DEF HandleGetActivityID, TypeOK
  <2> QED  BY ZenonT(40), <2>1, <2>2, <2>3 DEF TypeOK
<1>3. owed' \in [Client -> 0..MaxRequests] /\ \A c \in Client \ connected : owed'[c] = 0
  <2>1. d \in connected /\ owed[d] < MaxRequests /\ owed[d] \in 0..MaxRequests
    BY DEF HandleGetActivityID, TypeOK
  <2>2. owed' = owed \/ owed' = [owed EXCEPT ![d] = @ + 1]
    BY DEF HandleGetActivityID
  <2>3. owed[d] + 1 \in 0..MaxRequests
    BY <2>1, Sizes
  <2> QED  BY <2>1, <2>2, <2>3 DEF TypeOK
<1> QED
  BY <1>1, <1>2, <1>3
     DEF HandleGetActivityID, TypeOK, socketVars, NetState, WorkerState, MainState

LEMMA DrainTypes ==
  ASSUME TypeOK, NEW d \in Client, Drain(d)
  PROVE  TypeOK'
<1>1. wbuf' \in [Client -> 0..BufferSize]
  BY Sizes DEF Drain, TypeOK
<1> QED
  BY <1>1 DEF Drain, TypeOK, socketVars, NetState, WorkerState, MainState

LEMMA CloseTypes ==
  ASSUME TypeOK, NEW d \in Client, Close(d)
  PROVE  /\ wbuf' \in [Client -> 0..BufferSize]
         /\ split' \in [Client -> SUBSET (Worker \cup {"net", "main"})]
         /\ owed' \in [Client -> 0..MaxRequests] /\ dropped' \in [Client -> Nat]
         /\ \A c \in Client \ connected' : owed'[c] = 0 /\ dropped'[c] = 0
  BY Sizes DEF TypeOK, Close

LEMMA ConnectionLostTypes ==
  ASSUME TypeOK, NEW d \in Client, ConnectionLost(d)
  PROVE  TypeOK'
<1>1. net' \in NetState'
  BY DEF ConnectionLost, TypeOK, NetState, Close
<1>2. connected' \subseteq sockets
  BY DEF ConnectionLost, TypeOK, Close
<1> QED
  BY <1>1, <1>2, CloseTypes DEF ConnectionLost, TypeOK, WorkerState, MainState

LEMMA OnDisconnectTypes ==
  ASSUME TypeOK, OnDisconnect
  PROVE  TypeOK'
<1>1. PICK d \in known \ connected : d = net.client
  BY NetShape DEF OnDisconnect
<1>2. packetQueue' \in [Client -> Seq(Nat)] /\ \A c \in Client \ known : packetQueue'[c] = <<>>
  BY <1>1, EmptySeq DEF OnDisconnect, Remove, TypeOK
<1>3. connected \subseteq sockets' /\ sockets' \subseteq known
  BY <1>1 DEF OnDisconnect, Remove, TypeOK
<1>4. net' \in NetState'
  BY DEF OnDisconnect, NetState
<1> QED
  BY <1>2, <1>3, <1>4 DEF OnDisconnect, TypeOK, WorkerState, MainState

\* A worker that goes from one task to the next, or on with one, outside a stream.
LEMMA OutsideStream ==
  ASSUME TypeOK, NEW w \in Worker, NEW v \in WorkerState, worker[w].op # "stream", v.op # "stream",
         worker' = [worker EXCEPT ![w] = v], UNCHANGED <<lock, main, known>>
  PROVE  /\ worker' \in [Worker -> WorkerState']
         /\ lock' \in Worker \cup {"main", None}
         /\ (lock' = "main") <=> (main' # Idle)
         /\ \A u \in Worker : (lock' = u) <=> (worker'[u].op = "stream")
<1>1. WorkerState' = WorkerState
  BY DEF WorkerState
<1> QED  BY <1>1 DEF TypeOK

LEMMA TakeTypes ==
  ASSUME TypeOK, NEW w \in Worker, NEW q \in Queue, NEW sizes \in SUBSET (Nat \ {0}),
         Take(w, q, sizes)
  PROVE  TypeOK'
<1>1. /\ Head(tasks[q]) \in known /\ Tail(tasks[q]) \in Seq(known)
      /\ Len(tasks[q]) \in Nat /\ Len(Tail(tasks[q])) = Len(tasks[q]) - 1
  <2>1. tasks[q] \in Seq(known) /\ tasks[q] # <<>>
    BY DEF Take, TypeOK
  <2> QED  BY <2>1, HeadTailProperties, LenProperties
<1>2. tasks' \in [Queue -> Seq(known)] /\ \A o \in TQT : Len(tasks'[o]) <= MaxTasks
  BY SMTT(40), <1>1, Sizes DEF Take, TypeOK, Queue
<1>3. PICK v \in WorkerState : v.op = "reply" /\ worker' = [worker EXCEPT ![w] = v]
  <2>1. PICK n \in sizes :
          worker' = [worker EXCEPT ![w] = [op |-> "reply", client |-> Head(tasks[q]), size |-> n]]
    BY DEF Take
  <2>2. [op |-> "reply", client |-> Head(tasks[q]), size |-> n] \in WorkerState
    BY <1>1 DEF WorkerState
  <2> QED  BY <2>1, <2>2
<1>4. /\ worker' \in [Worker -> WorkerState']
      /\ lock' \in Worker \cup {"main", None}
      /\ (lock' = "main") <=> (main' # Idle)
      /\ \A u \in Worker : (lock' = u) <=> (worker'[u].op = "stream")
  <2>1. worker[w].op # "stream" /\ UNCHANGED <<lock, main, known>>
    BY DEF Take, socketVars, Idle
  <2> QED  BY <1>3, <2>1, OutsideStream
<1> QED
  BY <1>2, <1>4 DEF Take, TypeOK, socketVars, outVars, NetState, MainState

LEMMA GetTaskTypes ==
  ASSUME TypeOK, NEW w \in Worker, GetTask(w) \/ ProcessTasks
  PROVE  TypeOK'
<1>1. QueueOf(w) \in TQT /\ QueueOf(w) \in Queue /\ "Disk" \in Queue
  BY DEF QueueOf, Queue, TQT
<1>2. StorageThread \in Worker /\ DumpThread \subseteq Worker
  BY DEF Worker
<1>3. /\ ReplySizes[QueueOf(w)] \in SUBSET (Nat \ {0})
      /\ DumpSizes \in SUBSET (Nat \ {0}) /\ {DefragSize} \in SUBSET (Nat \ {0})
  BY <1>1, Sizes
<1>4. CASE GetTask(w)
  BY <1>1, <1>3, <1>4, TakeTypes DEF GetTask
<1>5. CASE HandleDefragmentFreeSpace
  BY <1>1, <1>2, <1>3, <1>5, TakeTypes DEF HandleDefragmentFreeSpace
<1>6. ASSUME NEW d \in DumpThread, HandleFreeSpaceDump(d) PROVE TypeOK'
  BY <1>1, <1>2, <1>3, <1>6, TakeTypes DEF HandleFreeSpaceDump
<1> QED  BY <1>4, <1>5, <1>6 DEF ProcessTasks

LEMMA QueueTaskTypes ==
  ASSUME TypeOK, NEW w \in Worker, QueueTask(w)
  PROVE  TypeOK'
<1>1. PICK q \in TQT : q = QueueOf(w)
  BY DEF QueueOf, TQT
<1>2. q \in Queue /\ "Disk" \in Queue /\ q # "Disk" /\ "Disk" \notin TQT
  BY DEF Queue, TQT
<1>3. /\ Head(tasks[q]) \in known /\ Tail(tasks[q]) \in Seq(known)
      /\ Len(tasks[q]) \in Nat /\ Len(Tail(tasks[q])) = Len(tasks[q]) - 1
  <2>1. tasks[q] \in Seq(known) /\ tasks[q] # <<>>
    BY <1>1, <1>2 DEF QueueTask, TypeOK
  <2> QED  BY <2>1, HeadTailProperties, LenProperties
<1>4. Append(tasks["Disk"], Head(tasks[q])) \in Seq(known)
  BY <1>2, <1>3, AppendProperties DEF TypeOK
<1>5. tasks' = [tasks EXCEPT ![q] = Tail(@), !["Disk"] = Append(@, Head(tasks[q]))]
  BY <1>1 DEF QueueTask
<1>6. tasks' \in [Queue -> Seq(known)]
  BY <1>2, <1>3, <1>4, <1>5 DEF TypeOK
<1>7. \A o \in TQT : Len(tasks'[o]) <= MaxTasks
  <2>1. \A o \in TQT : tasks'[o] = IF o = q THEN Tail(tasks[q]) ELSE tasks[o]
    BY <1>2, <1>5 DEF TypeOK, Queue
  <2>2. Len(tasks[q]) <= MaxTasks
    BY DEF TypeOK
  <2>3. Len(Tail(tasks[q])) <= MaxTasks
    BY <1>3, <2>2, Sizes
  <2> QED  BY <2>1, <2>3 DEF TypeOK
<1> QED
  BY <1>6, <1>7 DEF QueueTask, TypeOK, socketVars, outVars, NetState, WorkerState, MainState

LEMMA DropTypes ==
  ASSUME TypeOK, NEW c \in Client, Drop(c)
  PROVE  /\ dropped' \in [Client -> Nat]
         /\ \A d \in Client \ connected : dropped'[d] = 0
  BY DEF TypeOK, Drop

LEMMA HandleGetAllXTypes ==
  ASSUME TypeOK, NEW w \in Worker, HandleGetAllX(w)
  PROVE  TypeOK'
<1>1. "Write" \in Queue /\ "Write" \in TQT
  BY DEF Queue, TQT
<1>2. /\ Head(tasks["Write"]) \in known /\ Tail(tasks["Write"]) \in Seq(known)
      /\ Len(tasks["Write"]) \in Nat /\ Len(Tail(tasks["Write"])) = Len(tasks["Write"]) - 1
  <2>1. tasks["Write"] \in Seq(known) /\ tasks["Write"] # <<>>
    BY <1>1 DEF HandleGetAllX, TypeOK
  <2> QED  BY <2>1, HeadTailProperties, LenProperties
<1>3. tasks' \in [Queue -> Seq(known)] /\ \A o \in TQT : Len(tasks'[o]) <= MaxTasks
  BY SMTT(40), <1>1, <1>2, Sizes DEF HandleGetAllX, TypeOK, Queue
<1>4. /\ dropped' \in [Client -> Nat]
      /\ \A d \in Client \ connected : dropped'[d] = 0
  BY <1>2, DropTypes DEF HandleGetAllX, TypeOK
<1> QED
  BY <1>3, <1>4 DEF HandleGetAllX, TypeOK, socketVars, NetState, WorkerState, MainState

LEMMA SendPacketTypes ==
  ASSUME TypeOK, RepliesConserved, NEW w \in Worker, SendPacket(w)
  PROVE  TypeOK'
<1>1. PICK d \in known, n \in Nat : d = worker[w].client /\ n = worker[w].size
  BY WorkerShape DEF SendPacket
<1>2. worker[w] # Idle /\ d \in Client
  BY WorkerShape DEF SendPacket, TypeOK
<1>3. /\ wbuf' \in [Client -> 0..BufferSize]
      /\ split' \in [Client -> SUBSET (Worker \cup {"net", "main"})]
  <2>1. \/ UNCHANGED <<wbuf, split>>
        \/ HasRoom(d, HeaderSize + n) /\ Write(d, n, w)
    BY <1>1 DEF SendPacket, OutPacket
  <2>2. CASE UNCHANGED <<wbuf, split>>
    BY <2>2 DEF TypeOK
  <2> QED  BY <1>2, <2>1, <2>2, WriteTypes
<1>4. packetQueue' \in [Client -> Seq(Nat)] /\ \A c \in Client \ known : packetQueue'[c] = <<>>
  <2>1. packetQueue[d] \in Seq(Nat) /\ Append(packetQueue[d], n) \in Seq(Nat)
    BY <1>2, AppendProperties DEF TypeOK
  <2>2. packetQueue' = packetQueue \/ packetQueue' = [packetQueue EXCEPT ![d] = Append(@, n)]
    BY <1>1 DEF SendPacket, OutPacket
  <2> QED  BY ZenonT(40), <2>1, <2>2 DEF TypeOK
<1>5. owed' \in [Client -> 0..MaxRequests] /\ \A c \in Client \ connected : owed'[c] = 0
  <2>1. owed' = owed \/ (d \in connected /\ owed' = [owed EXCEPT ![d] = @ - 1])
    BY <1>1 DEF SendPacket, OutPacket, HasRoom
  <2>2. d \in connected => owed[d] \in 1..MaxRequests
    BY <1>1, <1>2, SentIsOwed
  <2> QED  BY <2>1, <2>2, Sizes DEF TypeOK
<1>6. /\ worker' \in [Worker -> WorkerState']
      /\ lock' \in Worker \cup {"main", None}
      /\ (lock' = "main") <=> (main' # Idle)
      /\ \A u \in Worker : (lock' = u) <=> (worker'[u].op = "stream")
  <2>1. Idle \in WorkerState /\ Idle.op # "stream"
    BY DEF WorkerState, Idle
  <2>2. worker[w].op # "stream" /\ UNCHANGED <<lock, main, known>>
        /\ worker' = [worker EXCEPT ![w] = Idle]
    BY DEF SendPacket, socketVars, Finish
  <2> QED  BY <2>1, <2>2, OutsideStream
<1> QED
  BY <1>3, <1>4, <1>5, <1>6 DEF SendPacket, TypeOK, socketVars, NetState, MainState

\* A worker that is done with a stream gives the lock back, if it had it.
LEMMA FinishTypes ==
  ASSUME TypeOK, RepliesConserved, NEW w \in Worker, worker[w] # Idle, Finish(w),
         \/ /\ worker[w].client \in connected
            /\ owed' = [owed EXCEPT ![worker[w].client] = @ - 1]
            /\ UNCHANGED dropped
         \/ Drop(worker[w].client) /\ UNCHANGED owed,
         UNCHANGED <<connected, known, main>>,
         lock' = IF worker[w].op = "stream" THEN None ELSE lock
  PROVE  /\ owed' \in [Client -> 0..MaxRequests] /\ dropped' \in [Client -> Nat]
         /\ \A c \in Client \ connected' : owed'[c] = 0 /\ dropped'[c] = 0
         /\ worker' \in [Worker -> WorkerState']
         /\ lock' \in Worker \cup {"main", None}
         /\ (lock' = "main") <=> (main' # Idle)
         /\ \A u \in Worker : (lock' = u) <=> (worker'[u].op = "stream")
<1>1. PICK d \in known : d = worker[w].client
  BY WorkerShape
<1>2. d \in Client /\ (d \in connected => owed[d] \in 1..MaxRequests)
  BY <1>1, SentIsOwed DEF TypeOK
<1>3. /\ owed' \in [Client -> 0..MaxRequests] /\ dropped' \in [Client -> Nat]
      /\ \A c \in Client \ connected' : owed'[c] = 0 /\ dropped'[c] = 0
  <2>1. CASE Drop(d) /\ UNCHANGED owed
    BY <1>2, <2>1, DropTypes DEF TypeOK
  <2>2. CASE d \in connected /\ owed' = [owed EXCEPT ![d] = @ - 1] /\ UNCHANGED dropped
    BY <1>2, <2>2, Sizes DEF TypeOK
  <2> QED  BY <1>1, <2>1, <2>2
<1>4. worker' \in [Worker -> WorkerState']
  BY DEF Finish, TypeOK, WorkerState
<1>5. Idle.op # "stream"
  BY DEF Idle
<1>6. CASE worker[w].op # "stream"
  BY <1>3, <1>4, <1>5, <1>6 DEF TypeOK, Finish
<1>7. CASE worker[w].op = "stream"
  <2>1. lock = w /\ main = Idle /\ lock' = None
    BY <1>7, SocketsAssumption DEF TypeOK
  <2>2. \A u \in Worker : worker'[u].op # "stream"
    BY <1>5, <1>7, LockIsExclusive DEF TypeOK, Finish
  <2> QED  BY <1>3, <1>4, <2>1, <2>2, SocketsAssumption
<1> QED  BY <1>6, <1>7

LEMMA SendHeaderTypes ==
  ASSUME TypeOK, RepliesConserved, NEW w \in Worker, SendHeader(w)
  PROVE  TypeOK'
<1>1. worker[w] # Idle /\ worker[w].client \in known /\ worker[w].size \in Nat \ {0}
  BY WorkerShape DEF SendHeader
<1> DEFINE v == [op |-> "stream", client |-> worker[w].client, left |-> worker[w].size, tries |-> 0]
<1>2. CASE /\ HasRoom(worker[w].client, HeaderSize)
           /\ wbuf' = [wbuf EXCEPT ![worker[w].client] = @ + HeaderSize]
           /\ worker' = [worker EXCEPT ![w] = v] /\ lock' = w /\ UNCHANGED dropped
  <2>1. wbuf' \in [Client -> 0..BufferSize]
    <3>1. PICK d \in Client : d = worker[w].client
      BY <1>1 DEF TypeOK
    <3>2. HeaderSize \in Nat
      BY DEF HeaderSize
    <3> QED  BY <1>2, <3>1, <3>2, SendTypes
  <2>2. v \in WorkerState /\ v.op = "stream"
    BY <1>1 DEF WorkerState
  <2> HIDE DEF v
  <2>3. worker' \in [Worker -> WorkerState']
    BY <1>2, <2>2 DEF SendHeader, TypeOK, WorkerState, socketVars
  <2>4. lock = None /\ main = Idle /\ \A u \in Worker : worker[u].op # "stream"
    BY SocketsAssumption DEF SendHeader, TypeOK
  <2>5. /\ (lock' = "main") <=> (main' # Idle)
        /\ \A u \in Worker : (lock' = u) <=> (worker'[u].op = "stream")
    BY <1>2, <2>2, <2>4, SocketsAssumption DEF SendHeader, TypeOK
  <2> QED
    BY <1>2, <2>1, <2>3, <2>5 DEF SendHeader, TypeOK, socketVars, NetState, MainState
<1>3. CASE Drop(worker[w].client) /\ Finish(w) /\ UNCHANGED <<wbuf, lock>>
  <2>1. /\ owed' \in [Client -> 0..MaxRequests] /\ dropped' \in [Client -> Nat]
        /\ \A c \in Client \ connected' : owed'[c] = 0 /\ dropped'[c] = 0
        /\ worker' \in [Worker -> WorkerState']
        /\ lock' \in Worker \cup {"main", None}
        /\ (lock' = "main") <=> (main' # Idle)
        /\ \A u \in Worker : (lock' = u) <=> (worker'[u].op = "stream")
    BY <1>1, <1>3, FinishTypes DEF SendHeader, socketVars
  <2> QED
    BY <1>3, <2>1 DEF SendHeader, TypeOK, socketVars, NetState, MainState
<1> QED  BY <1>2, <1>3 DEF SendHeader, Hold

LEMMA ChunkShape ==
  ASSUME TypeOK, NEW w \in Worker, worker[w].op = "stream"
  PROVE  ChunkOf(w) \in Nat \ {0} /\ ChunkOf(w) <= worker[w].left
<1>1. worker[w].left \in Nat \ {0} /\ BufferSize \div 2 \in Nat \ {0}
  BY WorkerShape, Sizes
<1> QED  BY <1>1 DEF ChunkOf

LEMMA SendChunkTypes ==
  ASSUME TypeOK, RepliesConserved, NEW w \in Worker, SendChunk(w)
  PROVE  TypeOK'
<1>1. /\ worker[w] # Idle /\ worker[w].op = "stream" /\ worker[w] \in WorkerState
      /\ worker[w].client \in known /\ worker[w].left \in Nat \ {0}
  BY WorkerShape DEF SendChunk, TypeOK
<1>2. wbuf' \in [Client -> 0..BufferSize]
  <2>1. PICK d \in Client : d = worker[w].client
    BY <1>1 DEF TypeOK
  <2>2. PICK n \in Nat : n = ChunkOf(w)
    BY <1>1, ChunkShape
  <2> QED  BY <2>1, <2>2, SendTypes DEF SendChunk
<1> DEFINE v == [worker[w] EXCEPT !.left = @ - ChunkOf(w)]
<1>3. CASE worker[w].left # ChunkOf(w) /\ worker' = [worker EXCEPT ![w] = v] /\ UNCHANGED <<lock, owed>>
  <2>1. worker[w].left - ChunkOf(w) \in Nat \ {0}
    BY <1>1, <1>3, ChunkShape
  <2>2. v \in WorkerState /\ v.op = "stream"
    BY <1>1, <2>1 DEF WorkerState, Idle
  <2> HIDE DEF v
  <2>3. worker' \in [Worker -> WorkerState']
    BY <1>3, <2>2 DEF SendChunk, TypeOK, WorkerState, socketVars
  <2>4. \A u \in Worker : worker'[u].op = "stream" <=> worker[u].op = "stream"
    BY <1>1, <1>3, <2>2 DEF TypeOK
  <2> QED
    BY <1>2, <1>3, <2>3, <2>4 DEF SendChunk, TypeOK, socketVars, NetState, MainState
<1>4. CASE owed' = [owed EXCEPT ![worker[w].client] = @ - 1] /\ EndStream(w)
  <2>1. /\ owed' \in [Client -> 0..MaxRequests] /\ dropped' \in [Client -> Nat]
        /\ \A c \in Client \ connected' : owed'[c] = 0 /\ dropped'[c] = 0
        /\ worker' \in [Worker -> WorkerState']
        /\ lock' \in Worker \cup {"main", None}
        /\ (lock' = "main") <=> (main' # Idle)
        /\ \A u \in Worker : (lock' = u) <=> (worker'[u].op = "stream")
    BY <1>1, <1>4, FinishTypes DEF SendChunk, HasRoom, EndStream, socketVars
  <2> QED
    BY <1>2, <2>1 DEF SendChunk, TypeOK, socketVars, NetState, MainState
<1> QED  BY <1>3, <1>4 DEF SendChunk

LEMMA TrySendAgainTypes ==
  ASSUME TypeOK, NEW w \in Worker, TrySendAgain(w)
  PROVE  TypeOK'
<1>1. /\ worker[w].op = "stream" /\ worker[w] \in WorkerState /\ worker[w].tries \in Nat
  BY WorkerShape DEF TrySendAgain, TypeOK
<1> DEFINE v == [worker[w] EXCEPT !.tries = Counted(@)]
<1>2. v \in WorkerState /\ v.op = "stream"
  BY <1>1 DEF WorkerState, Idle, Counted
<1>3. worker' = [worker EXCEPT ![w] = v]
  BY DEF TrySendAgain
<1> HIDE DEF v
<1>4. worker' \in [Worker -> WorkerState']
  BY ZenonT(40), <1>2, <1>3 DEF TrySendAgain, TypeOK, WorkerState, socketVars
<1>5. \A u \in Worker : worker'[u].op = "stream" <=> worker[u].op = "stream"
  BY <1>1, <1>2, <1>3 DEF TypeOK
<1> QED
  BY <1>4, <1>5 DEF TrySendAgain, TypeOK, socketVars, outVars, NetState, MainState

LEMMA GiveUpTypes ==
  ASSUME TypeOK, RepliesConserved, NEW w \in Worker, GiveUp(w)
  PROVE  TypeOK'
<1>1. /\ owed' \in [Client -> 0..MaxRequests] /\ dropped' \in [Client -> Nat]
      /\ \A c \in Client \ connected' : owed'[c] = 0 /\ dropped'[c] = 0
      /\ worker' \in [Worker -> WorkerState']
      /\ lock' \in Worker \cup {"main", None}
      /\ (lock' = "main") <=> (main' # Idle)
      /\ \A u \in Worker : (lock' = u) <=> (worker'[u].op = "stream")
  <2>1. worker[w] # Idle /\ worker[w].op = "stream"
    BY WorkerShape DEF GiveUp
  <2> QED  BY <2>1, FinishTypes DEF GiveUp, EndStream, socketVars
<1> QED
  BY <1>1 DEF GiveUp, TypeOK, socketVars, NetState, MainState

(***************************************************************************)
(* The main thread's steps keep the types.                                 *)
(***************************************************************************)

LEMMA UpdateTypes ==
  ASSUME TypeOK, Update \/ EndUpdate
  PROVE  TypeOK'
<1>1. main' \in MainState' /\ (main' # Idle <=> Update)
  BY DEF Update, EndUpdate, MainState, TypeOK, socketVars, Idle
<1>2. \A u \in Worker : worker[u].op # "stream"
  <2>1. lock \notin Worker
    BY SocketsAssumption DEF Update, EndUpdate, TypeOK, Idle
  <2> QED  BY <2>1 DEF TypeOK
<1>3. /\ lock' \in {"main", None}
      /\ (lock' = "main") <=> (main' # Idle)
      /\ \A u \in Worker : (lock' = u) <=> (worker'[u].op = "stream")
  BY <1>1, <1>2, SocketsAssumption DEF Update, EndUpdate, Idle
<1> QED
  BY <1>1, <1>3 DEF Update, EndUpdate, TypeOK, socketVars, outVars, NetState, WorkerState

LEMMA DropSocketTypes ==
  ASSUME TypeOK, NEW d \in Client, DropSocket(d)
  PROVE  TypeOK'
<1>1. main.todo \subseteq known /\ main # Idle
  BY MainShape DEF DropSocket, Visiting
<1>2. main' \in MainState' /\ main' # Idle
  BY <1>1 DEF DropSocket, MainState, Idle
<1>3. net' \in NetState'
  BY DEF DropSocket, TypeOK, NetState, Close
<1>4. packetQueue' \in [Client -> Seq(Nat)] /\ \A c \in Client \ known : packetQueue'[c] = <<>>
  BY EmptySeq DEF DropSocket, Remove, TypeOK
<1>5. connected' \subseteq sockets' /\ sockets' \subseteq known
  BY DEF DropSocket, Close, Remove, TypeOK
<1> QED
  BY <1>1, <1>2, <1>3, <1>4, <1>5, CloseTypes DEF DropSocket, TypeOK, WorkerState

LEMMA VisitSocketTypes ==
  ASSUME TypeOK, NEW d \in Client, VisitSocket(d)
  PROVE  TypeOK'
<1>1. main.todo \subseteq known /\ main # Idle
  BY MainShape DEF VisitSocket, Visiting
<1>2. main' \in MainState' /\ main' # Idle
  BY <1>1 DEF VisitSocket, Visiting, At, MainState, Idle, socketVars
<1> QED
  BY <1>1, <1>2 DEF VisitSocket, TypeOK, socketVars, outVars, NetState, WorkerState

LEMMA SendPingTypes ==
  ASSUME TypeOK, SendPing
  PROVE  TypeOK'
<1>1. main \in MainState /\ main.op = "ping" /\ main # Idle /\ main.client \in Client
  BY MainShape DEF SendPing, TypeOK
<1>2. main' \in MainState' /\ main' # Idle
  BY <1>1 DEF SendPing, MainState, Idle, socketVars
<1>3. /\ wbuf' \in [Client -> 0..BufferSize]
      /\ split' \in [Client -> SUBSET (Worker \cup {"net", "main"})]
  BY <1>1, Sizes, WriteTypes DEF SendPing
<1> QED
  BY <1>1, <1>2, <1>3 DEF SendPing, TypeOK, socketVars, NetState, WorkerState

LEMMA ProcessPacketTypes ==
  ASSUME TypeOK, RepliesConserved, ProcessPacket
  PROVE  TypeOK'
<1>1. PICK d \in Client : d = main.client /\ d \in known
  BY MainShape DEF ProcessPacket, TypeOK
<1>2. /\ packetQueue[d] \in Seq(Nat) /\ packetQueue[d] # <<>>
      /\ Head(packetQueue[d]) \in Nat /\ Tail(packetQueue[d]) \in Seq(Nat)
  BY <1>1, HeadTailProperties DEF ProcessPacket, TypeOK
<1>3. /\ wbuf' \in [Client -> 0..BufferSize]
      /\ split' \in [Client -> SUBSET (Worker \cup {"net", "main"})]
  BY <1>1, <1>2, WriteTypes DEF ProcessPacket
<1>4. packetQueue' \in [Client -> Seq(Nat)] /\ \A c \in Client \ known : packetQueue'[c] = <<>>
  BY <1>1, <1>2 DEF ProcessPacket, TypeOK
<1>5. owed' \in [Client -> 0..MaxRequests] /\ \A c \in Client \ connected : owed'[c] = 0
  <2>1. d \in connected
    BY <1>1 DEF ProcessPacket, HasRoom
  <2>2. owed[d] \in 1..MaxRequests
    BY <1>2, <2>1, SentIsOwed
  <2> QED  BY SMTT(40), <1>1, <2>1, <2>2, Sizes DEF ProcessPacket, TypeOK
<1> QED
  BY <1>3, <1>4, <1>5 DEF ProcessPacket, TypeOK, socketVars, NetState, WorkerState, MainState

LEMMA EndQueueTypes ==
  ASSUME TypeOK, EndQueue
  PROVE  TypeOK'
<1>1. PICK d \in Client : d = main.client /\ d \in known
  BY MainShape DEF EndQueue, TypeOK
<1>2. Left(d) \in Seq(Nat)
  BY EmptySeq DEF Left, TypeOK
<1>3. packetQueue' \in [Client -> Seq(Nat)] /\ \A c \in Client \ known : packetQueue'[c] = <<>>
  BY <1>1, <1>2 DEF EndQueue, TypeOK
<1>4. main.todo \subseteq known /\ main # Idle
  BY MainShape DEF EndQueue
<1>5. main' \in MainState' /\ main' # Idle
  BY <1>4 DEF EndQueue, MainState, Idle, socketVars
<1> QED
  BY <1>3, <1>4, <1>5 DEF EndQueue, TypeOK, socketVars, NetState, WorkerState

LEMMA NextTypes ==
  ASSUME TypeOK, RepliesConserved, [Next]_vars
  PROVE  TypeOK'
<1>1. CASE NetNext
  BY <1>1, OnConnectTypes, OnReadTypes, QueuePacketTypes, HandleGetActivityIDTypes, DrainTypes,
     ConnectionLostTypes, OnDisconnectTypes DEF NetNext
<1>2. ASSUME NEW w \in Worker, WorkerNext(w) PROVE TypeOK'
  BY <1>2, GetTaskTypes, QueueTaskTypes, HandleGetAllXTypes, SendPacketTypes, SendHeaderTypes, SendChunkTypes, TrySendAgainTypes,
     GiveUpTypes DEF WorkerNext
<1>3. ASSUME UNCHANGED vars PROVE TypeOK'
  BY <1>3 DEF vars, TypeOK, NetState, WorkerState, MainState
<1>4. CASE MainNext
  BY <1>3, <1>4, UpdateTypes, DropSocketTypes, VisitSocketTypes, SendPingTypes, ProcessPacketTypes,
     EndQueueTypes DEF MainNext, RetryPing
<1> QED  BY <1>1, <1>2, <1>3, <1>4 DEF Next

(***************************************************************************)
(* The invariant, and what follows from it.                                *)
(***************************************************************************)

LEMMA InitIInv == Init => IInv
<1> SUFFICES ASSUME Init PROVE IInv
  OBVIOUS
<1>1. TypeOK
  BY SocketsAssumption, EmptySeq, Sizes DEF Init, TypeOK, NetState, WorkerState, MainState, Idle, Queue, TQT
<1> QED  BY <1>1 DEF Init, IInv, FramesKeptByLock, RepliesConserved

LEMMA NextIInv == IInv /\ [Next]_vars => IInv'
  BY NextTypes, NextFrames, NextCount DEF IInv

LEMMA IInvHolds == Spec => []IInv
<1>1. Init => IInv
  BY InitIInv
<1>2. IInv /\ [Next]_vars => IInv'
  BY NextIInv
<1> QED  BY <1>1, <1>2, PTL DEF Spec

\* Every thread is in a state its code can be in; a worker holds the holder's
\* lock exactly while it streams a reply, the main thread exactly while it is
\* in Update; write buffers and the counts of replies stay within their bounds.
THEOREM TypesAndLock == Spec => []TypeOK
<1>1. IInv => TypeOK
  BY DEF IInv
<1> QED  BY <1>1, IInvHolds, PTL

\* However many workers send replies and Update pings and drains the queues, a
\* frame that SendPacket streams is cut open by nobody but the network thread,
\* whose reply to C_MSG_GET_ACTIVITY_ID does not take the lock.
THEOREM FramesStayWhole == Spec => []FramesKeptByLock
<1>1. IInv => FramesKeptByLock
  BY DEF IInv
<1> QED  BY <1>1, IInvHolds, PTL

\* Of the requests of a connected client that have no whole reply yet each is
\* at exactly one place (with the network thread, in one of the three task
\* queues, with the worker, storage or dump thread that replies, or a packet in
\* the socket's queue), or was dropped: C_MSG_GET_ALL_X, or a streamed reply
\* without room for its header or given up.
THEOREM RequestsAreAccountedFor == Spec => []RepliesConserved
<1>1. IInv => RepliesConserved
  BY DEF IInv
<1> QED  BY <1>1, IInvHolds, PTL
=============================================================================
