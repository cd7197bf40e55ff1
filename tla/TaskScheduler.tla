----------------------------- MODULE TaskScheduler -----------------------------
(***************************************************************************)
(* A TaskScheduler over its connection: the queues of jobs, each with one  *)
(* thread, and the two pools of packets that the jobs pass on to each      *)
(* other.  The same class serves both ends; "role" says which one this is. *)
(*                                                                         *)
(* What the jobs do to the tree is in RemoteTree, what they do to the      *)
(* cache in BlockCache; here a job is the packets it holds.  A send packet *)
(* is with the connection (user), with the main queue's thread (free), in  *)
(* a job, in flight, or lost.  A receive packet is with the connection,    *)
(* received, in a job, or, as the data of a read, in the client's cache,   *)
(* until a FreeRecvPacketsJob returns it or it is destroyed there.  The    *)
(* shards of the cache tree queue are one queue here.  That each queue's   *)
(* thread takes the tasks in batches makes no difference: it runs them in  *)
(* their order.                                                            *)
(***************************************************************************)
EXTENDS Naturals, Sequences, Counting

CONSTANTS SendPackets,    \* given to AddFreeSendPackets (200000 in main.cpp)
          RecvPackets,    \* given to AddFreeRecvPackets (260000)
          WriterPackets,  \* MaxWriterPackets (1100)
          DataPackets,    \* what a read takes of them for data (1000)
          LowPackets,     \* below this a response waits for packets (2500)
          MaxMessage,     \* packets of a message that arrives, at most
          MaxOpen,        \* requests without an answer at a time
          MaxRequests,    \* requests and notifications, at most
          MaxFailed,      \* reads that read nothing, at most
          MaxKept         \* packets in the cache and destroyed there that PoolsSuffice allows for

ASSUME SizesNat ==
    {SendPackets, RecvPackets, WriterPackets, DataPackets, LowPackets, MaxMessage,
     MaxOpen, MaxRequests, MaxFailed, MaxKept} \subseteq Nat

\* A writer has room for the header and the data of a read.
ASSUME HeaderFits == DataPackets < WriterPackets

\* With this many packets no job waits for those that tasks behind it on its own queue,
\* or on the queue of a thread that has ended, would give back.  The numbers of the code
\* allow 180 open requests; nothing bounds them.
PoolsSuffice ==
    /\ 0 < DataPackets /\ WriterPackets <= LowPackets
    /\ SendPackets >= LowPackets + (MaxOpen - 1) * WriterPackets + MaxFailed * DataPackets
    /\ RecvPackets >= MaxMessage * (MaxOpen + 1) + MaxKept

VARIABLES
    role,       \* "server" or "client"
    stop,       \* stop was requested, by the destructor
    ended,      \* the queues whose threads have ended
    aborted,    \* an assertion that there is a free send packet failed
    readQ,      \* _readNetworkQueue: 0 for a MessageTypeReadJob, n for a FreeRecvPacketsJob of n
    msgs,       \* MessageTypeReadJob::_messages
    inbox,      \* the connection's received packets
    rest,       \* packets of the message that is arriving
    recvPool,   \* the connection's free receive packets
    mainQ,      \* _mainQueue
    free,       \* _freeSendPackets
    user,       \* the connection's _freeUserSendPackets
    disk,       \* reads on the disk queues
    stuck,      \* reads on a disk queue whose thread has ended
    cacheQ,     \* _cacheTreeQueues
    cached,     \* receive packets in the blocks of the leaves
    dropped,    \* receive packets destroyed with blocks
    writeQ,     \* _writeNetworkQueue
    flight,     \* sent and not acknowledged
    lost,       \* destroyed by reads that failed
    open,       \* requests without an answer
    atPeer,     \* requests of the client that the server has to answer
    asked       \* requests and notifications so far

ctlVars  == <<role, stop, ended, aborted>>
recvVars == <<readQ, msgs, inbox, rest, recvPool>>
sendVars == <<free, user, writeQ, flight, lost>>
cacheVars == <<cacheQ, cached, dropped>>
diskVars == <<disk, stuck, cacheVars>>
reqVars  == <<open, atPeer, asked>>
vars == <<ctlVars, recvVars, mainQ, sendVars, diskVars, reqVars>>

\* The queues at this end; of the disk and the cache tree queues those whose jobs hold packets.
QueueNames == {"main", "read", "write", "disk", "cache"}
Queues == {"main", "read", "write", IF role = "server" THEN "disk" ELSE "cache"}
Task(job, recv, send) == [job |-> job, recv |-> recv, send |-> send]
CacheTask(job, n) == [job |-> job, n |-> n]
MessageRead == 0

Init ==
    /\ role \in {"server", "client"} /\ stop = FALSE /\ ended = {} /\ aborted = FALSE
    /\ readQ = <<MessageRead>> /\ msgs = <<>> /\ inbox = <<>> /\ rest = 0
    /\ recvPool = RecvPackets
    /\ mainQ = <<>> /\ free = 0 /\ user = SendPackets
    /\ disk = 0 /\ stuck = 0 /\ cacheQ = <<>> /\ cached = 0 /\ dropped = 0
    /\ writeQ = <<>> /\ flight = 0 /\ lost = 0
    /\ open = 0 /\ atPeer = 0 /\ asked = 0

-----------------------------------------------------------------------------
(* What comes from outside.                                                *)

\* The first packet of a message arrives: a request, or an answer or a notification.
Arrive(kind, size) ==
    /\ ~aborted /\ rest = 0 /\ recvPool > 0
    /\ inbox' = Append(inbox, [kind |-> kind, size |-> size])
    /\ rest' = size - 1 /\ recvPool' = recvPool - 1
    /\ UNCHANGED <<ctlVars, readQ, msgs, mainQ, sendVars, diskVars>>
Request(kind, size) ==
    /\ role = "server" /\ open < MaxOpen /\ asked < MaxRequests
    /\ kind = "read" => size = 1
    /\ Arrive(kind, size)
    /\ open' = open + 1 /\ asked' = asked + 1 /\ UNCHANGED atPeer
Answer(kind, size) ==
    /\ role = "client" /\ atPeer > 0
    /\ kind = "readIn" => size > 1
    /\ Arrive(kind, size)
    /\ atPeer' = atPeer - 1 /\ UNCHANGED <<open, asked>>
Notification ==
    /\ role = "client" /\ asked < MaxRequests
    /\ Arrive("notify", 1)
    /\ asked' = asked + 1 /\ UNCHANGED <<open, atPeer>>

\* The other packets of the message arrive.
ArriveRest ==
    /\ ~aborted /\ rest > 0 /\ recvPool > 0
    /\ inbox' = Append(inbox, [kind |-> "rest", size |-> 0])
    /\ rest' = rest - 1 /\ recvPool' = recvPool - 1
    /\ UNCHANGED <<ctlVars, readQ, msgs, mainQ, sendVars, diskVars, reqVars>>

\* FUSE calls the client, where a request reaches the main queue, a read by way of the
\* cache tree queue; a forget puts the release of the leaf there too.  Inotify calls the
\* server, which sends a notification.
Fuse ==
    /\ role = "client" /\ ~stop /\ ~aborted /\ open < MaxOpen /\ asked < MaxRequests
    /\ mainQ' = Append(mainQ, Task("fuse", 0, 0))
    /\ open' = open + 1 /\ asked' = asked + 1
    /\ UNCHANGED <<ctlVars, recvVars, sendVars, diskVars, atPeer>>
FuseRelease ==
    /\ role = "client" /\ ~stop /\ ~aborted /\ asked < MaxRequests
    /\ mainQ' = Append(mainQ, Task("release", 0, 0))
    /\ asked' = asked + 1
    /\ UNCHANGED <<ctlVars, recvVars, sendVars, diskVars, open, atPeer>>
Inotify ==
    /\ role = "server" /\ ~stop /\ ~aborted /\ asked < MaxRequests
    /\ mainQ' = Append(mainQ, Task("response", 0, 0))
    /\ asked' = asked + 1
    /\ UNCHANGED <<ctlVars, recvVars, sendVars, diskVars, open, atPeer>>

\* A packet is acknowledged and comes back to the connection.
Ack ==
    /\ flight > 0 /\ ~aborted
    /\ flight' = flight - 1 /\ user' = user + 1
    /\ UNCHANGED <<ctlVars, recvVars, mainQ, free, writeQ, lost, diskVars, reqVars>>

\* ~TaskScheduler, phase 1: every thread is asked to stop.
RequestStop ==
    /\ ~stop /\ ~aborted /\ stop' = TRUE
    /\ UNCHANGED <<role, ended, aborted, recvVars, mainQ, sendVars, diskVars, reqVars>>

-----------------------------------------------------------------------------
(* The thread of the read network queue.                                   *)

ReadRuns == "read" \notin ended /\ ~aborted /\ readQ # <<>>
ReadsMessage == ReadRuns /\ Head(readQ) = MessageRead

\* MessageTypeReadJob waits for packets,
RecvFirst ==
    /\ ReadsMessage /\ msgs = <<>> /\ ~stop /\ inbox # <<>>
    /\ msgs' = inbox /\ inbox' = <<>>
    /\ UNCHANGED <<ctlVars, readQ, rest, recvPool, mainQ, sendVars, diskVars, reqVars>>

\* waits for the rest of the message and schedules itself again,
RecvMore ==
    /\ ReadsMessage /\ msgs # <<>> /\ Head(msgs).size > Len(msgs)
    /\ ~stop /\ inbox # <<>>
    /\ msgs' = msgs \o inbox /\ inbox' = <<>>
    /\ readQ' = Append(Tail(readQ), MessageRead)
    /\ UNCHANGED <<ctlVars, rest, recvPool, mainQ, sendVars, diskVars, reqVars>>

\* or ends, when stop is requested while it waits.
\* (Mutant: it schedules itself again.)
RecvStoppedAgain ==
    /\ ReadsMessage /\ stop
    /\ msgs # <<>> => Head(msgs).size > Len(msgs)
    /\ readQ' = Append(Tail(readQ), MessageRead) /\ msgs' = <<>>
    /\ UNCHANGED <<ctlVars, inbox, rest, recvPool, mainQ, sendVars, diskVars, reqVars>>
RecvStopped ==
    /\ ReadsMessage /\ stop
    /\ msgs # <<>> => Head(msgs).size > Len(msgs)
    /\ readQ' = Tail(readQ) /\ msgs' = <<>>
    /\ UNCHANGED <<ctlVars, inbox, rest, recvPool, mainQ, sendVars, diskVars, reqVars>>

\* It schedules the job that a complete message names, and then itself.
\* (Mutant: it does not schedule itself when there are no more packets.)
RescheduleIfMore(left) == IF left = <<>> THEN Tail(readQ) ELSE Append(Tail(readQ), MessageRead)
Reschedule(left) == Append(Tail(readQ), MessageRead)
Dispatch ==
    /\ ReadsMessage /\ msgs # <<>> /\ Head(msgs).size <= Len(msgs)
    /\ LET m == Head(msgs)
           left == SubSeq(msgs, m.size + 1, Len(msgs))
       IN /\ mainQ' = Append(mainQ, Task(m.kind, m.size, 0))
          /\ msgs' = left
          /\ readQ' = Reschedule(left)
    /\ UNCHANGED <<ctlVars, inbox, rest, recvPool, sendVars, diskVars, reqVars>>

\* FreeRecvPacketsJob.
FreeRecvPackets ==
    /\ ReadRuns /\ Head(readQ) # MessageRead
    /\ recvPool' = recvPool + Head(readQ)
    /\ readQ' = Tail(readQ)
    /\ UNCHANGED <<ctlVars, msgs, inbox, rest, mainQ, sendVars, diskVars, reqVars>>

-----------------------------------------------------------------------------
(* The thread of the main queue.                                           *)

MainRuns == "main" \notin ended /\ ~aborted /\ mainQ # <<>>
Job == Head(mainQ)

\* Connection::Send2: it waits until there are free packets or stop is requested.
Send2Returns == user > 0 \/ stop
FreeRecv(n) == IF n = 0 THEN readQ ELSE Append(readQ, n)

\* A job with a writer: it takes the connection's free packets if "asks", and sends a
\* message of one packet, of which the client's requests await an answer.  The
\* assertion here that there is a packet can fail only if stop cut the wait short.
Writes(asks, answers) ==
    LET all == free + (IF asks THEN user ELSE 0)
    IN /\ asks => Send2Returns
       /\ user' = IF asks THEN 0 ELSE user
       /\ IF all = 0
          THEN aborted' = TRUE /\ UNCHANGED <<free, writeQ>>
          ELSE /\ free' = all - 1
               /\ writeQ' = Append(writeQ, [n |-> 1, answers |-> answers])
               /\ UNCHANGED aborted

\* ScheduleFuseNetworkJob.
FuseNetwork ==
    /\ MainRuns /\ Job.job = "fuse"
    /\ Writes(free = 0, 0)
    /\ mainQ' = Tail(mainQ)
    /\ UNCHANGED <<role, stop, ended, recvVars, flight, lost, diskVars, reqVars>>

\* ScheduleResponseFuseNetworkJob.
ResponseFuseNetwork ==
    /\ MainRuns /\ Job.job = "response"
    /\ Writes(free < LowPackets, IF Job.recv = 0 THEN 0 ELSE 1)
    /\ mainQ' = Tail(mainQ)
    /\ readQ' = FreeRecv(Job.recv)
    /\ UNCHANGED <<role, stop, ended, msgs, inbox, rest, recvPool, flight, lost, diskVars, reqVars>>

\* ScheduleResponseReadDiskJob, first part: it loops until it has WriterPackets, also
\* when stop is requested, and gives the read to a disk thread, which may have ended.
ResponseReadAlloc ==
    /\ MainRuns /\ Job.job = "read"
    /\ free + user >= WriterPackets
    /\ free' = free + user - WriterPackets /\ user' = 0
    /\ \/ "disk" \notin ended /\ disk' = disk + 1 /\ UNCHANGED stuck
       \/ stop /\ stuck' = stuck + 1 /\ UNCHANGED disk
    /\ mainQ' = Tail(mainQ)
    /\ UNCHANGED <<ctlVars, recvVars, writeQ, flight, lost, cacheVars, reqVars>>

\* The last part: the packets it did not use are the main queue's again.
ReturnUnused ==
    /\ MainRuns /\ Job.job = "unused"
    /\ free' = free + Job.send
    /\ mainQ' = Tail(mainQ)
    /\ UNCHANGED <<ctlVars, recvVars, user, writeQ, flight, lost, diskVars, reqVars>>

\* The jobs of ScheduleResponseInFuseNetworkJob: answers, the answer of a read, which
\* brings data, notifications and ReleaseLeafRefJob.  They write nothing, and yet it
\* asserts that there is a free send packet, without asking the connection for one.
InJobs == {"responseIn", "readIn", "notify", "release"}

\* A build with assertions ends there,
ResponseInAborts ==
    /\ MainRuns /\ Job.job \in InJobs /\ free = 0
    /\ aborted' = TRUE
    /\ UNCHANGED <<role, stop, ended, recvVars, mainQ, sendVars, diskVars, reqVars>>

\* and one without them goes on.  The header of a read is free again and its data goes to
\* the cache tree queue; a notification invalidates the blocks of a leaf there, or a leaf
\* goes with its blocks, when the last reference does or when the entry is removed.
Destroys == \E d \in 0..cached : cached' = cached - d /\ dropped' = dropped + d
ResponseIn ==
    /\ MainRuns
    /\ mainQ' = Tail(mainQ)
    /\ \/ /\ Job.job = "responseIn" /\ open' = open - 1
          /\ readQ' = FreeRecv(Job.recv) /\ UNCHANGED cacheVars
       \/ /\ Job.job = "readIn" /\ readQ' = FreeRecv(1)
          /\ cacheQ' = Append(cacheQ, CacheTask("apply", Job.recv - 1))
          /\ UNCHANGED <<open, cached, dropped>>
       \/ /\ Job.job = "notify" /\ readQ' = FreeRecv(Job.recv)
          /\ cacheQ' = Append(cacheQ, CacheTask("invalidate", 0))
          /\ UNCHANGED <<open, cached, dropped>>
       \/ /\ Job.job \in {"notify", "release"} /\ readQ' = FreeRecv(Job.recv)
          /\ Destroys /\ UNCHANGED <<open, cacheQ>>
    /\ UNCHANGED <<ctlVars, msgs, inbox, rest, recvPool, sendVars, disk, stuck, atPeer, asked>>

-----------------------------------------------------------------------------
(* The threads of the cache tree queue.                                    *)

CacheRuns(job) == "cache" \notin ended /\ ~aborted /\ cacheQ # <<>> /\ Head(cacheQ).job = job

\* Leaf::AddData: what becomes of n packets.  All are kept, or those that the block has
\* already are given back, or all are destroyed when the one Range there is a single packet.
AddData(n) ==
    {[kept |-> n - k, back |-> k, gone |-> 0] : k \in 0..n} \cup {[kept |-> 0, back |-> 0, gone |-> n]}

\* ApplyBlockCacheJob: the data goes into its block and e packets of any blocks are evicted,
\* to be written to the cache file.  How many is BlockCache's matter: the count that is
\* compared with MaxCachePackets may be too high, and pinned blocks end the loop early.
ApplyBlock(r, e) ==
    /\ CacheRuns("apply")
    /\ r \in AddData(Head(cacheQ).n) /\ (cached = 0 => r.back + r.gone = 0)
    /\ e <= cached + r.kept
    /\ cached' = cached + r.kept - e /\ dropped' = dropped + r.gone
    /\ cacheQ' = IF e = 0 THEN Tail(cacheQ) ELSE Append(Tail(cacheQ), CacheTask("write", e))
    /\ readQ' = FreeRecv(r.back)
    /\ open' = open - 1
    /\ UNCHANGED <<ctlVars, msgs, inbox, rest, recvPool, mainQ, sendVars, disk, stuck, atPeer, asked>>

\* (Mutant: the packets of an evicted block are not given back.)
WriteBlockKeeps ==
    /\ CacheRuns("write")
    /\ cacheQ' = Tail(cacheQ)
    /\ UNCHANGED <<ctlVars, recvVars, mainQ, sendVars, disk, stuck, cached, dropped, reqVars>>

\* WriteFileCacheJob: the packets of an evicted block are written and given back.
WriteBlock ==
    /\ CacheRuns("write")
    /\ readQ' = FreeRecv(Head(cacheQ).n)
    /\ cacheQ' = Tail(cacheQ)
    /\ UNCHANGED <<ctlVars, msgs, inbox, rest, recvPool, mainQ, sendVars, disk, stuck, cached, dropped, reqVars>>

\* InvalidateCacheLeafJob: Leaf::InvalidateDataCache destroys the blocks of the leaf.
InvalidateLeaf ==
    /\ CacheRuns("invalidate")
    /\ Destroys
    /\ cacheQ' = Tail(cacheQ)
    /\ UNCHANGED <<ctlVars, recvVars, mainQ, sendVars, disk, stuck, reqVars>>

-----------------------------------------------------------------------------
(* The threads of the disk queues and of the write network queue.          *)

\* ResponseReadFileJob: a header and n packets of data are sent; when nothing was
\* read the header only, and the packets for data are destroyed.
Unused(n) == IF n = 0 THEN WriterPackets - 1 - DataPackets ELSE WriterPackets - 1 - n
ResponseReadFile(n) ==
    /\ disk > 0 /\ ~aborted
    /\ n = 0 => lost < MaxFailed * DataPackets
    /\ disk' = disk - 1
    /\ lost' = IF n = 0 THEN lost + DataPackets ELSE lost
    /\ writeQ' = Append(writeQ, [n |-> 1 + n, answers |-> 1])
    /\ readQ' = FreeRecv(1)
    /\ mainQ' = IF Unused(n) = 0 THEN mainQ ELSE Append(mainQ, Task("unused", 0, Unused(n)))
    /\ UNCHANGED <<ctlVars, msgs, inbox, rest, recvPool, free, user, flight, stuck,
                   cacheVars, reqVars>>

\* SendMessageJob.
SendMessage ==
    /\ "write" \notin ended /\ ~aborted /\ writeQ # <<>>
    /\ flight' = flight + Head(writeQ).n
    /\ writeQ' = Tail(writeQ)
    /\ open' = open - Head(writeQ).answers
    /\ atPeer' = IF role = "client" THEN atPeer + 1 ELSE atPeer
    /\ UNCHANGED <<ctlVars, recvVars, mainQ, free, user, lost, diskVars, asked>>

\* TaskQueue::ProcessQueue ends when stop is requested and there is no task.
NoTask(q) ==
    CASE q = "main"  -> mainQ = <<>>
      [] q = "read"  -> readQ = <<>>
      [] q = "write" -> writeQ = <<>>
      [] q = "disk"  -> disk = 0
      [] q = "cache" -> cacheQ = <<>>
EndThread(q) ==
    /\ stop /\ q \in Queues \ ended /\ ~aborted /\ NoTask(q)
    /\ ended' = ended \cup {q}
    /\ UNCHANGED <<role, stop, aborted, recvVars, mainQ, sendVars, diskVars, reqVars>>

-----------------------------------------------------------------------------

ReadThread == RecvFirst \/ RecvMore \/ RecvStopped \/ Dispatch \/ FreeRecvPackets
MainThread ==
    \/ FuseNetwork \/ ResponseFuseNetwork \/ ResponseReadAlloc \/ ReturnUnused
    \/ ResponseInAborts \/ ResponseIn
ApplyAny == /\ CacheRuns("apply")
            /\ \E r \in AddData(Head(cacheQ).n), e \in 0..(cached + Head(cacheQ).n) : ApplyBlock(r, e)
CacheThread == ApplyAny \/ WriteBlock \/ InvalidateLeaf
DiskThread == \E n \in 0..DataPackets : ResponseReadFile(n)
PeerAnswers == \E kind \in {"responseIn", "readIn"}, size \in 1..MaxMessage : Answer(kind, size)

Next ==
    \/ \E kind \in {"response", "read"}, size \in 1..MaxMessage : Request(kind, size)
    \/ PeerAnswers \/ Notification \/ ArriveRest \/ Fuse \/ FuseRelease \/ Inotify \/ Ack
    \/ RequestStop \/ ReadThread \/ MainThread \/ CacheThread \/ DiskThread \/ SendMessage
    \/ \E q \in QueueNames : EndThread(q)

\* The threads run; the peer is there: it acknowledges, answers, and sends the rest of
\* what it began.
Spec ==
    /\ Init /\ [][Next]_vars
    /\ WF_vars(ReadThread) /\ WF_vars(MainThread) /\ WF_vars(CacheThread) /\ WF_vars(DiskThread)
    /\ WF_vars(SendMessage)
    /\ \A q \in QueueNames : WF_vars(EndThread(q))
    /\ WF_vars(Ack) /\ WF_vars(PeerAnswers) /\ WF_vars(ArriveRest)

-----------------------------------------------------------------------------

\* What the tasks of a queue hold.
Sends(q) == [k \in DOMAIN q |-> q[k].send]
Recvs(q) == [k \in DOMAIN q |-> q[k].recv]
Sizes(q) == [k \in DOMAIN q |-> q[k].n]

SendSum == free + user + flight + WriterPackets * disk + lost + Total(Sizes(writeQ)) + Total(Sends(mainQ))
JobSum == recvPool + Len(inbox) + Len(msgs) + disk + Total(readQ) + Total(Recvs(mainQ))
CacheSum == Total(Sizes(cacheQ)) + cached + dropped

\* No packet leaves its pool until stop is requested, whatever thread a job runs on and
\* whatever it used: send packets but for those for the data of reads that read nothing,
\* receive packets but for those that are destroyed in the cache.
PacketsConserved == ~stop => SendSum = SendPackets /\ JobSum + CacheSum = RecvPackets

\* Where the pools suffice every request is answered, unless the scheduler is stopped or
\* an assertion fails: no thread waits for packets that only jobs behind its own job can
\* give back, neither the main queue's for send packets nor the read queue's for receive
\* packets, until the cache has destroyed or keeps more than the pool has for it.
RequestsServed ==
    PoolsSuffice => (open > 0 ~> (open = 0 \/ stop \/ aborted \/ cached + dropped > MaxKept))

\* Where the pools suffice the threads end when stop is requested, so that the destructor
\* returns, though jobs schedule jobs on queues whose threads have ended.
SchedulerStops == PoolsSuffice => (stop ~> (ended = Queues \/ aborted))

=============================================================================
