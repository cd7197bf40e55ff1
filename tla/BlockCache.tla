------------------------------ MODULE BlockCache ------------------------------
(***************************************************************************)
(* The block cache of one file of the mounted tree: what the client keeps  *)
(* of the file in memory and in its cache file, the reads that wait for a  *)
(* block, and the invalidation of the cache when the file changes on the   *)
(* server.                                                                 *)
(*                                                                         *)
(* Everything that touches the cache of one inode runs on one shard of     *)
(* TaskScheduler::_cacheTreeQueues, first in first out (queue).  Requests  *)
(* for blocks go to the server, whose disk threads answer in any order;    *)
(* answers and notifications come back in the order in which they were     *)
(* sent (wire).  Reads of the cache file run on the client's disk threads, *)
(* in any order.                                                           *)
(*                                                                         *)
(* A read covers a block or two neighbouring ones; the content of a block  *)
(* is the version of the file that the server read it from.  The size of   *)
(* the file does not change.                                               *)
(***************************************************************************)
EXTENDS Integers, Sequences, FiniteSets

CONSTANTS NBlocks,          \* blocks of the file, Leaf::_size / BlockSize
          FullPackets,      \* packets of a block
          LastPackets,      \* packets of the last block
          MaxCachePackets,  \* FileTree::MaxCachePackets
          PrefetchAhead,    \* FuseReadFileJob::TriggerPrefetch
          MaxReads,         \* reads the kernel makes, at most
          MaxChanges,       \* changes of the file on the server, at most
          MaxErrors         \* reads that fail on the server, at most

ASSUME BlockCacheAssumption ==
    /\ NBlocks \in Nat \ {0} /\ FullPackets \in Nat \ {0} /\ LastPackets \in Nat \ {0}
    /\ MaxCachePackets \in Nat /\ PrefetchAhead \in Nat
    /\ MaxReads \in Nat /\ MaxChanges \in Nat /\ MaxErrors \in Nat

VARIABLES
    version,   \* the version of the file on the server's disk
    notices,   \* changes that the client was not told of yet
    asked,     \* per block, requests that no disk thread of the server has read
    readDone,  \* per block and version, blocks read and not sent
    wire,      \* what was sent to the client, in order
    queue,     \* jobs of the cache tree queue's shard, in order
    data,      \* Leaf::_data
    status,    \* Leaf::_piecesStatus
    pending,   \* Leaf::_pendingJobs: per block the reads that wait for it
    total,     \* packets counted in FileTree::_cachePerShard and _grandTotalCachedPackets
    disk,      \* the version of each block in the cache file, 0 where there is a hole
    diskJobs,  \* reads that were handed to the disk threads
    want,      \* the blocks of each read that the kernel made
    reply,     \* per read the versions it was answered with
    waitFor,   \* reads that the shard waits for, in the kernel
    fresh,     \* the newest version that the client invalidated its cache for
    raced,     \* blocks with older data on their way to the cache at an invalidation
    failed,    \* blocks that the server could not read
    errors     \* how many times that happened

serverVars == <<version, notices, asked, readDone, failed, errors>>
cacheVars  == <<data, status, pending, total, disk>>
kernelVars == <<want, reply, waitFor>>
ghostVars  == <<fresh, raced>>
vars == <<serverVars, wire, queue, cacheVars, diskJobs, kernelVars, ghostVars>>

Blocks   == 0..(NBlocks - 1)
Versions == 1..(MaxChanges + 1)
Status   == {"NotFound", "InFlight", "InCache", "OnDisk"}

PacketsOf(b) == IF b = NBlocks - 1 THEN LastPackets ELSE FullPackets

\* The packets of the blocks S, and how many they are.
Packets(S) == {p \in S \X (1..(FullPackets + LastPackets)) : p[2] <= PacketsOf(p[1])}
Weight(S) == Cardinality(Packets(S))

\* A block in memory is a Range object: its version, and an id that tells it from
\* another Range that holds the same block and is still pinned.
NoRange == [ver |-> 0, id |-> 0]
InMemory == {b \in Blocks : data[b] # NoRange}

Job(op, req, blk, rng, pins) == [op |-> op, req |-> req, blk |-> blk, rng |-> rng, pins |-> pins]
ReadJob(r, pins) == Job("read", r, 0, NoRange, pins)
NoReq == 0

Outstanding == {r \in DOMAIN want : reply[r] = {}}

\* What holds a pin: a read on the queue or at a disk thread.
Pins == UNION ({queue[k].pins : k \in DOMAIN queue} \cup {j.pins : j \in diskJobs})
Pin(b) == IF data[b] = NoRange THEN {} ELSE {<<b, data[b].id>>}

-----------------------------------------------------------------------------

Init ==
    /\ version = 1 /\ notices = 0 /\ failed = {} /\ errors = 0
    /\ asked = [b \in Blocks |-> 0]
    /\ readDone = [b \in Blocks |-> [v \in Versions |-> 0]]
    /\ wire = <<>> /\ queue = <<>> /\ diskJobs = {}
    /\ data = [b \in Blocks |-> NoRange]
    /\ status = [b \in Blocks |-> "NotFound"]
    /\ pending = [b \in Blocks |-> <<>>]
    /\ total = 0
    /\ disk = [b \in Blocks |-> 0]
    /\ want = <<>> /\ reply = <<>> /\ waitFor = {}
    /\ fresh = 0 /\ raced = {}

\* RemoteFileSystem::FuseRead: the kernel reads block b, or b and the next one.
FuseRead(b, n) ==
    /\ Len(want) < MaxReads
    /\ b + n - 1 \in Blocks
    /\ want' = Append(want, <<b, b + n - 1>>)
    /\ reply' = Append(reply, {})
    /\ queue' = Append(queue, ReadJob(Len(want'), {}))
    /\ UNCHANGED <<serverVars, wire, cacheVars, diskJobs, waitFor, ghostVars>>

\* The shard's worker takes the next job, unless it is in a call of the kernel
\* that waits for reads of the file to be answered.
Turn(op) ==
    /\ queue # <<>> /\ Head(queue).op = op
    /\ \A r \in waitFor : reply[r] # {}

\* Leaf::SetInFlight of all the blocks S, and a RequestReadFileJob for each.
Request(S) ==
    /\ status' = [b \in Blocks |-> IF b \in S THEN "InFlight" ELSE status[b]]
    /\ asked' = [b \in Blocks |-> IF b \in S THEN asked[b] + 1 ELSE asked[b]]

\* FuseReadFileJob::TriggerPrefetch: the blocks after b that nobody asked for.
Prefetch(b) == {c \in Blocks : b < c /\ c <= b + PrefetchAhead /\ status[c] = "NotFound"}

\* FuseReadFileJob::FetchBlock: read r waits for block b, and asks for the blocks
\* S if nobody has asked for b; if b is in memory by now, r is tried again.
\* (Mutant: the read registers itself and does not ask.)
FetchNoRequest(r, b, S) ==
    /\ pending' = [pending EXCEPT ![b] = Append(@, r)]
    /\ queue' = Tail(queue)
    /\ UNCHANGED <<status, asked>>
FetchBlock(r, b, S) ==
    IF status[b] = "InCache"
    THEN /\ queue' = Append(Tail(queue), ReadJob(r, {}))
         /\ UNCHANGED <<pending, status, asked>>
    ELSE /\ pending' = [pending EXCEPT ![b] = Append(@, r)]
         /\ Request(IF status[b] = "NotFound" THEN {b} \cup S ELSE {})
         /\ queue' = Tail(queue)

\* ReadFileCacheJob and PrefixDiskReadFileCacheJob: the blocks that the disk thread
\* takes from the cache file, and the version and pin of the one it takes from memory.
DiskRead(r, blks, mem) ==
    /\ diskJobs' = diskJobs \cup {[req |-> r, blks |-> blks,
                                   vers |-> {data[b].ver : b \in mem},
                                   pins |-> UNION {Pin(b) : b \in mem}]}
    /\ queue' = Tail(queue)
    /\ UNCHANGED <<status, pending, asked, reply>>

\* FuseReadFileJob::ExecuteCachedTree.
FuseReadFile ==
    LET r == Head(queue).req
        b == want[r][1]
        c == want[r][2]
    IN /\ Turn("read")
       /\ IF b \notin InMemory
          THEN IF status[b] = "OnDisk"
               THEN IF status[c] = "OnDisk" THEN DiskRead(r, {b, c}, {})
                    ELSE IF c \in InMemory THEN DiskRead(r, {b}, {c})
                    ELSE FetchBlock(r, c, {}) /\ UNCHANGED <<diskJobs, reply>>
               ELSE FetchBlock(r, b, Prefetch(b)) /\ UNCHANGED <<diskJobs, reply>>
          ELSE IF c \notin InMemory
               THEN IF status[c] = "OnDisk" THEN DiskRead(r, {c}, {b})
                    ELSE FetchBlock(r, c, Prefetch(c)) /\ UNCHANGED <<diskJobs, reply>>
               ELSE /\ Request(Prefetch(b))
                    /\ reply' = [reply EXCEPT ![r] = {data[b].ver, data[c].ver}]
                    /\ queue' = Tail(queue)
                    /\ UNCHANGED <<pending, diskJobs>>
       /\ UNCHANGED <<version, notices, readDone, failed, errors, wire, data, total, disk,
                      want, waitFor, ghostVars>>

\* A disk thread of the client answers a read: what is in the cache file by then,
\* and what was in memory.
ExecuteDisk(j) ==
    /\ reply' = [reply EXCEPT ![j.req] = j.vers \cup {disk[b] : b \in j.blks}]
    /\ diskJobs' = diskJobs \ {j}
    /\ UNCHANGED <<serverVars, wire, queue, cacheVars, want, waitFor, ghostVars>>

\* ResponseReadFileJob on a disk thread of the server: the file is read, or cannot be.
ResponseReadFile(b) ==
    /\ asked[b] > 0
    /\ asked' = [asked EXCEPT ![b] = @ - 1]
    /\ \/ /\ readDone' = [readDone EXCEPT ![b][version] = @ + 1]
          /\ UNCHANGED <<wire, failed, errors>>
       \/ /\ errors < MaxErrors
          /\ errors' = errors + 1
          /\ failed' = failed \cup {b}
          /\ wire' = Append(wire, Job("error", NoReq, b, NoRange, {}))
          /\ UNCHANGED readDone
    /\ UNCHANGED <<version, notices, queue, cacheVars, diskJobs, kernelVars, ghostVars>>

\* The disk thread hands the answer to the write queue.
SendBlock(b, v) ==
    /\ readDone[b][v] > 0
    /\ readDone' = [readDone EXCEPT ![b][v] = @ - 1]
    /\ wire' = Append(wire, Job("apply", NoReq, b, [ver |-> v, id |-> 0], {}))
    /\ UNCHANGED <<version, notices, asked, failed, errors, queue, cacheVars, diskJobs,
                   kernelVars, ghostVars>>

\* The file changes on the server's disk.
Modify ==
    /\ version <= MaxChanges
    /\ version' = version + 1
    /\ notices' = notices + 1
    /\ UNCHANGED <<asked, readDone, failed, errors, wire, queue, cacheVars, diskJobs,
                   kernelVars, ghostVars>>

\* ProcessInotifyEventJob and SendNotifyInvalInodeJob.  (The version is not in the
\* message: it says what the notification is about.)
SendNotifyInvalInode ==
    /\ notices > 0
    /\ notices' = notices - 1
    /\ wire' = Append(wire, Job("inval", NoReq, 0, [ver |-> version, id |-> 0], {}))
    /\ UNCHANGED <<version, asked, readDone, failed, errors, queue, cacheVars, diskJobs,
                   kernelVars, ghostVars>>

\* The client's main queue: ResponseReadFileInJob and NotifyInvalInodeJob.  An error
\* is dropped: the request that it answers is none of the kernel's.
ResponseReadFileIn ==
    /\ wire # <<>> /\ Head(wire).op # "inval"
    /\ wire' = Tail(wire)
    /\ queue' = IF Head(wire).op = "error" THEN queue ELSE Append(queue, Head(wire))
    /\ UNCHANGED <<serverVars, cacheVars, diskJobs, kernelVars, ghostVars>>
NotifyInvalInode ==
    /\ wire # <<>> /\ Head(wire).op = "inval"
    /\ wire' = Tail(wire)
    /\ queue' = Append(queue, Head(wire))
    /\ UNCHANGED <<serverVars, cacheVars, diskJobs, kernelVars, ghostVars>>
Receive == ResponseReadFileIn \/ NotifyInvalInode

-----------------------------------------------------------------------------

\* The data after Leaf::AddData: the first answer for a block is kept, in a Range
\* that is none of those that are still pinned or about to be written.
RangeIds(b) == {p[2] : p \in {q \in Pins : q[1] = b}}
               \cup {queue[k].rng.id : k \in {x \in DOMAIN queue : queue[x].op = "write" /\ queue[x].blk = b}}
FreshId(b) == CHOOSE i \in 0..Cardinality(RangeIds(b)) : i \notin RangeIds(b)
AddData(b, v) ==
    IF b \in InMemory THEN data ELSE [data EXCEPT ![b] = [ver |-> v, id |-> FreshId(b)]]

\* The packets that FileTree::AddData counts: of an answer for a block that is in
\* memory, all packets are given back; but a single packet is dropped, and counted.
Added(b) == IF b \in InMemory /\ PacketsOf(b) > 1 THEN 0 ELSE PacketsOf(b)

\* FuseReadFilePendingJob::Execute of the reads s that waited for block b: each is
\* queued again, and pins b and the first block of the read.
Executed(s, b, d) ==
    [k \in DOMAIN s |->
        ReadJob(s[k], {<<c, d[c].id>> : c \in {x \in {b, want[s[k]][1]} : d[x] # NoRange}})]

\* What FileTree::GetFreeData takes off the count for the blocks S.
\* (Mutants: nothing; its packets twice.)
Uncounted(S) == 0
CountedTwice(S) == 2 * Weight(S)
Extracted(S) == Weight(S)

\* What the loop in ApplyBlockCacheJob takes out: while too many packets are counted
\* (n of them), GetFreeData extracts the first block that is not pinned.
\* (Mutant: pins do not count.)
EvictPinned(d, pins, n) ==
    LET free == {b \in Blocks : d[b] # NoRange}
    IN {b \in free : n - Weight({c \in free : c < b}) > MaxCachePackets}
Evicted(d, pins, n) ==
    LET free == {b \in Blocks : d[b] # NoRange /\ <<b, d[b].id>> \notin pins}
    IN {b \in free : n > MaxCachePackets + Weight({c \in free : c < b})}

\* The blocks S in their order, and a WriteFileCacheJob for each of the blocks s.
Ascending(S) == {s \in [1..Cardinality(S) -> S] : \A i, k \in DOMAIN s : i < k => s[i] < s[k]}
WriteJobs(d, s) == [k \in DOMAIN s |-> Job("write", NoReq, s[k], d[s[k]], {})]

\* The pieces' status after the new block and after Leaf::ExtractBlock of the blocks S.
\* (Mutant: an extracted block keeps its status.)
ExtractKeepsStatus(b, S) ==
    [x \in Blocks |-> IF x = b /\ b \notin InMemory THEN "InCache" ELSE status[x]]
ExtractStatus(b, S) ==
    [x \in Blocks |-> IF x \in S THEN "NotFound"
                      ELSE IF x = b /\ b \notin InMemory THEN "InCache" ELSE status[x]]

\* Leaf::TakePendingJobs.  (Mutant: the reads stay registered.)
LeavePendingJobs(b) == pending
TakePendingJobs(b) == [pending EXCEPT ![b] = <<>>]

\* ApplyBlockCacheJob::ExecuteCachedTree.
ApplyBlockCache ==
    LET b   == Head(queue).blk
        d   == AddData(b, Head(queue).rng.ver)
        run == Executed(pending[b], b, d)
        n   == total + Added(b)
        S   == Evicted(d, Pins \cup UNION {run[k].pins : k \in DOMAIN run}, n)
    IN /\ Turn("apply")
       /\ data' = [x \in Blocks |-> IF x \in S THEN NoRange ELSE d[x]]
       /\ status' = ExtractStatus(b, S)
       /\ pending' = TakePendingJobs(b)
       /\ total' = n - Extracted(S)
       /\ \E s \in Ascending(S) : queue' = Tail(queue) \o run \o WriteJobs(d, s)
       /\ UNCHANGED <<serverVars, wire, disk, diskJobs, kernelVars, ghostVars>>

\* WriteFileCacheJob::ExecuteCachedTree.
WriteFileCache ==
    LET j == Head(queue)
    IN /\ Turn("write")
       /\ disk' = [disk EXCEPT ![j.blk] = j.rng.ver]
       /\ status' = [status EXCEPT ![j.blk] = "OnDisk"]
       /\ queue' = Tail(queue)
       /\ UNCHANGED <<serverVars, wire, data, pending, total, diskJobs, kernelVars, ghostVars>>

\* Data of block b older than version v that is on its way to the cache.
OnItsWay(b, v) ==
    \/ \E w \in Versions : w < v /\ readDone[b][w] > 0
    \/ \E s \in {wire, Tail(queue)} : \E k \in DOMAIN s :
          s[k].op \in {"apply", "write"} /\ s[k].blk = b /\ s[k].rng.ver < v

\* The status after Leaf::InvalidateDataCache.
\* (Mutant: what is on disk stays valid.)
InvalidateMemory == [b \in Blocks |-> IF status[b] = "OnDisk" THEN "OnDisk" ELSE "NotFound"]
InvalidatedStatus == [b \in Blocks |-> "NotFound"]

\* InvalidateCacheLeafJob::ExecuteCachedTree.  The packets stay counted and the reads
\* stay registered.  The kernel may keep the worker in notify_inval_inode until the
\* reads are answered whose pages it has locked.
InvalidateCacheLeaf ==
    LET v == Head(queue).rng.ver
    IN /\ Turn("inval")
       /\ data' = [b \in Blocks |-> NoRange]
       /\ status' = InvalidatedStatus
       /\ queue' = Tail(queue)
       /\ waitFor' \in {{}, Outstanding}
       /\ fresh' = v
       /\ raced' = raced \cup {b \in Blocks : OnItsWay(b, v)}
       /\ UNCHANGED <<serverVars, wire, pending, total, disk, diskJobs, want, reply>>

-----------------------------------------------------------------------------

Shard == FuseReadFile \/ ApplyBlockCache \/ WriteFileCache \/ InvalidateCacheLeaf
ServerDisk == \E b \in Blocks : ResponseReadFile(b) \/ \E v \in Versions : SendBlock(b, v)
ClientDisk == \E j \in diskJobs : ExecuteDisk(j)
Kernel == \E b \in Blocks, n \in {1, 2} : FuseRead(b, n)

Workers == SendNotifyInvalInode \/ Shard \/ ServerDisk \/ ClientDisk \/ Receive
Next == Kernel \/ Modify \/ Workers

\* As long as a thread has work, some thread does some; nothing makes the kernel read
\* or the file change.
Spec == Init /\ [][Next]_vars /\ WF_vars(Workers)

-----------------------------------------------------------------------------

Ranges == [ver : 0..(MaxChanges + 1), id : Nat]

TypeOK ==
    /\ version \in Versions /\ notices \in Nat /\ failed \subseteq Blocks /\ errors \in 0..MaxErrors
    /\ asked \in [Blocks -> Nat]
    /\ readDone \in [Blocks -> [Versions -> Nat]]
    /\ data \in [Blocks -> Ranges]
    /\ status \in [Blocks -> Status]
    /\ \A b \in Blocks : \A k \in DOMAIN pending[b] : pending[b][k] \in DOMAIN want
    /\ total \in Nat
    /\ disk \in [Blocks -> 0..(MaxChanges + 1)]
    /\ DOMAIN reply = DOMAIN want
    /\ waitFor \subseteq DOMAIN want
    /\ fresh \in 0..(MaxChanges + 1) /\ raced \subseteq Blocks

\* A block whose status says that it is in memory is there, so that a read that was
\* told to try again does not try for ever; a block in memory is never asked for
\* again; and a block that is said to be on disk, or that a disk thread was sent to
\* read, was written: no read is answered with a hole of the cache file.
CacheCoherent ==
    /\ \A b \in Blocks :
          /\ status[b] = "InCache" => b \in InMemory
          /\ b \in InMemory => status[b] \in {"InCache", "OnDisk"}
          /\ status[b] = "OnDisk" => disk[b] # 0
    /\ \A j \in diskJobs : \A b \in j.blks : disk[b] # 0

\* A block that some read still points into is not taken apart by the eviction.
PinnedNotEvicted ==
    \A k \in DOMAIN queue : queue[k].op = "write" => <<queue[k].blk, queue[k].rng.id>> \notin Pins

\* Where a read of the kernel is: on the queue, with a disk thread, with a block.
Places(r) ==
    {<<"queue", k>> : k \in {x \in DOMAIN queue : queue[x].op = "read" /\ queue[x].req = r}}
    \cup {<<"disk", j>> : j \in {x \in diskJobs : x.req = r}}
    \cup UNION {{<<"block", b, k>> : k \in {x \in DOMAIN pending[b] : pending[b][x] = r}} : b \in Blocks}

\* An answer for block b is on its way.
Expected(b) ==
    \/ asked[b] > 0
    \/ \E v \in Versions : readDone[b][v] > 0
    \/ \E s \in {wire, queue} : \E k \in DOMAIN s : s[k].op = "apply" /\ s[k].blk = b

\* A read that is not answered is in exactly one place and one that is answered in
\* none, so that no read is lost and none is answered twice; and a read that waits
\* for a block waits for an answer that is on its way, unless the server could not
\* read the block.
ReadsHeldOnce ==
    /\ \A r \in DOMAIN want : Cardinality(Places(r)) = (IF reply[r] = {} THEN 1 ELSE 0)
    /\ \A b \in Blocks : pending[b] # <<>> => Expected(b) \/ b \in failed

\* The packets that are counted cover those in memory, so that the assertion in
\* FileTree::GetFreeData holds; and until the first invalidation, which drops packets
\* that stay counted, they are exactly those.
CountsCover ==
    /\ total >= Weight(InMemory)
    /\ fresh = 0 => total = Weight(InMemory)

\* After an invalidation, what the cache gives out of a block is at least as new as
\* the change it was told of, unless older data was on its way to the cache then.
StaleOnlyIfRaced ==
    \A b \in Blocks \ raced :
        /\ b \in InMemory => data[b].ver >= fresh
        /\ status[b] = "OnDisk" => disk[b] >= fresh

\* Every read of the kernel is answered, unless the server failed to read the file or
\* the shard waits in the kernel for a read that it has to answer itself.
ReadsAnswered ==
    Outstanding # {} ~> (Outstanding = {} \/ failed # {} \/ waitFor \cap Outstanding # {})
=============================================================================
