------------------------------ MODULE RemoteTree ------------------------------
(***************************************************************************)
(* The lifetime of the leaves of the file tree and of the open files, on   *)
(* the two sides of a remote file system.                                  *)
(*                                                                         *)
(* A leaf is known outside its process by its address: the kernel holds    *)
(* the addresses of client leaves, and a client leaf holds the address of  *)
(* a server leaf.  What keeps an address valid is a count, Leaf::_nlookup, *)
(* raised whenever the address is given out and lowered by a forget.       *)
(*                                                                         *)
(* One directory that is watched (leaf 1, known to everyone) and the files *)
(* in it, which come and go on the server's disk.  Each side runs its jobs *)
(* on a FIFO queue of one worker (TaskScheduler::_mainQueue); a message    *)
(* takes its place in the other side's queue when it is sent, which is     *)
(* what an ordered connection gives.  Reads run on the server's disk       *)
(* threads and, on the client, on the cache tree queue.                    *)
(***************************************************************************)
EXTENDS Naturals, Sequences, FiniteSets, Counting

CONSTANTS Files,           \* names of the files in the watched directory
          MaxInputs,       \* requests and forget_multis of the kernel, and changes on the
                           \* server's disk, at most
          MaxOutstanding   \* requests the kernel has unanswered at a time, at most

ASSUME RemoteTreeAssumption ==
    IsFiniteSet(Files) /\ MaxInputs \in Nat /\ MaxOutstanding \in Nat

VARIABLES
    disk,        \* the files that exist on the server's disk
    events,      \* inotify events that have not been processed
    sLeaf,       \* the server's leaves; an index is an address
    sHandles,    \* the RemoteFileHandle objects that exist on the server
    sQueue,      \* the server's main queue
    sReads,      \* reads handed to the server's disk threads
    cLeaf,       \* the client's leaves; an index is an address
    index,       \* FileTree::_serverInodeIndex: server leaf -> client leaf
    cQueue,      \* the client's main queue
    applying,    \* blocks handed to the client's cache tree queue
    reqs,        \* requests the kernel waits for
    known,       \* the kernel's lookup count of each client leaf it knows
    opened,      \* files the kernel has open, with their remote handles
    forgetting,  \* forgets that FuseForgetmulti has released and not forwarded
    fault,       \* the first use of something freed, or the first hang
    requests, changes,   \* how many there were
    deleted,     \* names that have been deleted
    recreated,   \* one of them was created again
    leaked,      \* references that a failed opendir left on the directory
    failed       \* requests of the kernel whose read has failed on the disk

diskVars   == <<disk, events, changes, deleted, recreated>>
serverVars == <<sLeaf, sHandles, sReads, leaked, failed>>
clientVars == <<cLeaf, index, applying>>
kernelVars == <<reqs, known, opened, requests>>
vars == <<diskVars, serverVars, sQueue, clientVars, cQueue, kernelVars, forgetting, fault>>

Dir  == 1
None == 0

\* Leaves are never taken out of the table, so an address is not used twice.  A leaf is kept by
\* its parent (linked) or by its own pin, which it holds while there are references.
\* (Mutant: only the parent keeps it.)
ParentKeeps(tree, i) == i = Dir \/ tree[i].linked
Alive(tree, i) == i = Dir \/ tree[i].linked \/ tree[i].refs > 0

\* Leaf::Find and FindChild.
Find(tree, name) ==
    IF \E i \in DOMAIN tree : i # Dir /\ tree[i].linked /\ tree[i].name = name
    THEN CHOOSE i \in DOMAIN tree : i # Dir /\ tree[i].linked /\ tree[i].name = name
    ELSE None

NewLeaf(name) == [name |-> name, linked |-> TRUE, refs |-> 0, server |-> None]

\* Leaf::AddChild gives back the child that has the name if there is one.
AddChild(tree, name) ==
    IF Find(tree, name) # None THEN tree ELSE Append(tree, NewLeaf(name))

RemoveChild(tree, name) ==
    [i \in DOMAIN tree |-> IF i = Find(tree, name)
                           THEN [tree[i] EXCEPT !.linked = FALSE] ELSE tree[i]]

\* (Mutant: lookups after the first are not counted.)
AddRefOnce(tree, i) == [tree EXCEPT ![i].refs = 1]
AddRef(tree, i) == [tree EXCEPT ![i].refs = @ + 1]
ReleaseRef(tree, i, n) == [tree EXCEPT ![i].refs = @ - n]

\* Leaf::SetServerInode, and the index after it.
SetServerInode(tree, i, s) == [tree EXCEPT ![i].server = s]
\* (Mutant: the new inode is registered before the old one is unregistered.)
ReindexSwapped(tree, i, s) ==
    [k \in (DOMAIN index \cup {s}) \ {tree[i].server} |-> IF k = s THEN i ELSE index[k]]
Reindex(tree, i, s) ==
    [k \in (DOMAIN index \ {tree[i].server}) \cup {s} |-> IF k = s THEN i ELSE index[k]]

\* The index after RemoveChild.
Unindex(name) ==
    IF Find(cLeaf, name) = None THEN index
    ELSE [k \in DOMAIN index \ {cLeaf[Find(cLeaf, name)].server} |-> index[k]]

\* FileTree::FindLeafByServerInode: the index holds weak pointers.
FindLeafByServerInode(s) ==
    IF s \in DOMAIN index /\ Alive(cLeaf, index[s]) THEN index[s] ELSE None

\* A set in some order.
InOrder(S) == CHOOSE q \in [1..Cardinality(S) -> S] :
    /\ \A e \in S : \E k \in DOMAIN q : q[k] = e
    /\ \A j, k \in DOMAIN q : q[j] = q[k] => j = k

\* A job of a main queue: what it does, the kernel's request (0 for none), the
\* leaf, and what else it carries.
Job(op, req, leaf, x) == [op |-> op, req |-> req, leaf |-> leaf, x |-> x]

-----------------------------------------------------------------------------

\* The state after the directory was looked up from the root: the kernel and both
\* trees know it, and the files S of it that were looked up since.
Looked(S, server) ==
    LET q == InOrder(S)
    IN <<[NewLeaf("") EXCEPT !.refs = 1, !.server = IF server THEN None ELSE Dir]>>
       \o [k \in DOMAIN q |-> [NewLeaf(q[k]) EXCEPT !.refs = 1,
                                                     !.server = IF server THEN None ELSE k + 1]]
Init ==
    /\ disk \in SUBSET Files /\ events = <<>> /\ changes = 0
    /\ deleted = {} /\ recreated = FALSE
    /\ \E S \in SUBSET disk : sLeaf = Looked(S, TRUE) /\ cLeaf = Looked(S, FALSE)
    /\ sHandles = {} /\ sReads = {} /\ leaked = 0 /\ failed = {}
    /\ index = [k \in DOMAIN cLeaf |-> k]
    /\ applying = <<>> /\ sQueue = <<>> /\ cQueue = <<>>
    /\ reqs = {} /\ opened = {} /\ requests = 0 /\ forgetting = {}
    /\ known = [c \in DOMAIN cLeaf |-> 1]
    /\ fault = "none"

Running == fault = "none"
Fail(f) == fault' = f

-----------------------------------------------------------------------------
(* The server's disk and the inotify watcher. *)

Change(type, f) ==
    /\ Running /\ requests + changes < MaxInputs
    /\ changes' = changes + 1
    /\ events' = Append(events, [type |-> type, name |-> f])
    /\ UNCHANGED <<serverVars, sQueue, clientVars, cQueue, kernelVars, forgetting, fault>>

CreateFile(f) ==
    /\ f \notin disk /\ disk' = disk \cup {f}
    /\ recreated' = (recreated \/ f \in deleted)
    /\ Change("Created", f) /\ UNCHANGED deleted

DeleteFile(f) ==
    /\ f \in disk /\ disk' = disk \ {f} /\ deleted' = deleted \cup {f}
    /\ Change("Deleted", f) /\ UNCHANGED recreated

-----------------------------------------------------------------------------
(* The kernel and the FUSE handlers of RemoteFileSystem, which schedule a job *)
(* each.  The kernel asks only for what it knows, and forgets a file when it  *)
(* has no request for it and does not have it open.                           *)

Busy(c) == (\E r \in reqs : r.leaf = c) \/ (\E h \in opened : h.leaf = c)

\* A request of the kernel: its job takes its place in the client's main queue.
Fuse(op, leaf, x) ==
    /\ Running /\ requests + changes < MaxInputs /\ Cardinality(reqs) < MaxOutstanding
    /\ leaf \in DOMAIN known
    /\ requests' = requests + 1
    /\ reqs' = reqs \cup {[req |-> requests + 1, op |-> op, leaf |-> leaf]}
    /\ cQueue' = Append(cQueue, Job(op, requests + 1, leaf, x))
    /\ UNCHANGED <<diskVars, serverVars, sQueue, clientVars, known, forgetting, fault>>

FuseLookup(f) == Fuse("Lookup", Dir, f) /\ UNCHANGED opened
FuseOpendir   == Fuse("OpenDir", Dir, None) /\ UNCHANGED opened
FuseOpen(c)   == c # Dir /\ Fuse("Open", c, None) /\ UNCHANGED opened
FuseReadDirPlus(h) == h.leaf = Dir /\ Fuse("ReadDirPlus", Dir, h.handle) /\ UNCHANGED opened
\* The handle of the open file is 0 when the kernel has none at hand.
FuseGetattr(c, x) == c # Dir /\ Fuse("GetAttr", c, x) /\ UNCHANGED opened
FuseRead(h) == h.leaf # Dir /\ Fuse("Read", h.leaf, h.handle) /\ UNCHANGED opened

\* The kernel releases an open file when no request uses it.
FuseRelease(h) ==
    /\ h.leaf # Dir /\ ~\E r \in reqs : r.leaf = h.leaf /\ r.op \in {"Read", "GetAttr"}
    /\ Fuse("Release", h.leaf, h.handle) /\ opened' = opened \ {h}
FuseReleaseDir(h) ==
    /\ h.leaf = Dir /\ ~\E r \in reqs : r.leaf = Dir /\ r.op \in {"ReadDirPlus", "GetAttr"}
    /\ Fuse("ReleaseDir", Dir, h.handle) /\ opened' = opened \ {h}

\* The kernel drops a file from its cache, with all the lookups it has counted.
Forget(c) ==
    /\ Running /\ c # Dir /\ c \in DOMAIN known /\ ~Busy(c)
    /\ known' = [i \in DOMAIN known \ {c} |-> known[i]]
    /\ UNCHANGED <<diskVars, serverVars, sQueue, clientVars, reqs, opened, fault>>

\* The two jobs that a forget schedules.  The constructor of RequestForgetMultiJob
\* reads the server's inode from the leaf, on the FUSE thread.
ForwardForget(m) == Job("ForgetMulti", 0, cLeaf[m.leaf].server, m.n)
ReleaseJob(m)    == Job("ReleaseLeafRef", 0, m.leaf, m.n)

FuseForget(c) ==
    LET m == [leaf |-> c, n |-> known[c]]
    IN /\ Forget(c)
       /\ cQueue' = cQueue \o <<ForwardForget(m), ReleaseJob(m)>>
       /\ UNCHANGED <<forgetting, requests>>

\* FuseForgetmulti schedules the releases first, and then reads the leaves.
FuseForgetmultiRelease(c) ==
    LET m == [leaf |-> c, n |-> known[c]]
    IN /\ Forget(c) /\ ~\E k \in forgetting : k.leaf = c
       /\ requests + changes < MaxInputs /\ requests' = requests + 1
       /\ cQueue' = Append(cQueue, ReleaseJob(m))
       /\ forgetting' = forgetting \cup {m}
FuseForgetmultiRequest(m) ==
    /\ Running /\ m \in forgetting
    /\ forgetting' = forgetting \ {m}
    /\ IF Alive(cLeaf, m.leaf)
       THEN cQueue' = Append(cQueue, ForwardForget(m)) /\ UNCHANGED fault
       ELSE Fail("forgetMulti") /\ UNCHANGED cQueue
    /\ UNCHANGED <<diskVars, serverVars, sQueue, clientVars, kernelVars>>

-----------------------------------------------------------------------------
(* Jobs of the client's main queue that send a request.                     *)

ClientHead(op) == Running /\ cQueue # <<>> /\ Head(cQueue).op = op
ClientJob == Head(cQueue)

\* FuseNetworkJob::ExecuteMain with the leaf's address turned into the server's.
Forward(op) ==
    /\ ClientHead(op)
    /\ sQueue' = Append(sQueue, [ClientJob EXCEPT !.leaf = cLeaf[ClientJob.leaf].server])
    /\ cQueue' = Tail(cQueue)
    /\ UNCHANGED <<diskVars, serverVars, clientVars, kernelVars, forgetting, fault>>

RequestLookup      == Forward("Lookup")
RequestOpenDir     == Forward("OpenDir")
RequestOpen        == Forward("Open")
RequestReadDirPlus == Forward("ReadDirPlus")
RequestGetAttr     == Forward("GetAttr")
RequestRelease     == Forward("Release")
RequestReleaseDir  == Forward("ReleaseDir")

\* The leaf was turned into the server's when the job was made.
RequestForgetMulti ==
    /\ ClientHead("ForgetMulti")
    /\ sQueue' = Append(sQueue, ClientJob) /\ cQueue' = Tail(cQueue)
    /\ UNCHANGED <<diskVars, serverVars, clientVars, kernelVars, forgetting, fault>>

\* FuseReadFileJob of a block that is not cached: the block is requested, and in
\* the same go one behind it that no request of the kernel waits for.  The
\* message carries the client's address of the leaf.
RequestRead ==
    /\ ClientHead("Read")
    /\ sQueue' = sQueue \o <<ClientJob, [ClientJob EXCEPT !.op = "Prefetch"]>>
    /\ cQueue' = Tail(cQueue)
    /\ UNCHANGED <<diskVars, serverVars, clientVars, kernelVars, forgetting, fault>>

-----------------------------------------------------------------------------
(* Jobs of the server's main queue.                                         *)

ServerHead(op) == Running /\ sQueue # <<>> /\ Head(sQueue).op = op
ServerJob == Head(sQueue)
\* The job may use its leaf.
ServerLeaf(op) == ServerHead(op) /\ Alive(sLeaf, ServerJob.leaf)
\* The jobs that the handler schedules go to the end of its own queue, the
\* message it writes to the client's.
ServerDone(own, out) ==
    /\ sQueue' = Tail(sQueue) \o own
    /\ cQueue' = cQueue \o out
    /\ UNCHANGED <<diskVars, clientVars, kernelVars, forgetting>>
Reply(op, x) == <<Job(op, ServerJob.req, ServerJob.leaf, x)>>

\* ResponseLookupJob: a leaf that is in the tree is found whether or not the file
\* still exists; the reference is taken only when stat succeeds.
\* (Mutant: the reference is taken whether or not stat succeeds.)
LookupCountsError ==
    /\ ServerLeaf("Lookup")
    /\ LET f    == ServerJob.x
           tree == IF f \in disk THEN AddChild(sLeaf, f) ELSE sLeaf
           leaf == Find(tree, f)
       IN /\ sLeaf' = IF leaf = None THEN tree ELSE AddRef(tree, leaf)
          /\ ServerDone(<<>>, Reply("LookupIn", [name |-> f, leaf |-> IF f \in disk THEN leaf ELSE None]))
    /\ UNCHANGED <<sHandles, sReads, leaked, failed, fault>>
ResponseLookup ==
    /\ ServerLeaf("Lookup")
    /\ LET f      == ServerJob.x
           tree   == IF f \in disk THEN AddChild(sLeaf, f) ELSE sLeaf
           leaf   == Find(tree, f)
       IN IF f \in disk
          THEN /\ sLeaf' = AddRef(tree, leaf)
               /\ ServerDone(<<>>, Reply("LookupIn", [name |-> f, leaf |-> leaf]))
          ELSE /\ sLeaf' = tree
               /\ ServerDone(<<>>, Reply("LookupIn", [name |-> f, leaf |-> None]))
    /\ UNCHANGED <<sHandles, sReads, leaked, failed, fault>>

\* Leaf::Rescan adds what is on disk and has no leaf yet.
Rescan ==
    LET order == InOrder({f \in disk : Find(sLeaf, f) = None})
    IN sLeaf \o [k \in DOMAIN order |-> NewLeaf(order[k])]

\* ResponseReadDirPlusJob: every child is given out.
ResponseReadDirPlus ==
    /\ ServerLeaf("ReadDirPlus")
    /\ LET tree  == Rescan
           given == {i \in DOMAIN tree : i # Dir /\ tree[i].linked}
       IN /\ sLeaf' = [i \in DOMAIN tree |->
                          IF i \in given THEN [tree[i] EXCEPT !.refs = @ + 1] ELSE tree[i]]
          /\ ServerDone(<<>>, Reply("ReadDirPlusIn",
                                    {[name |-> tree[i].name, leaf |-> i] : i \in given}))
    /\ UNCHANGED <<sHandles, sReads, leaked, failed, fault>>

\* ResponseOpenJob: the reference is taken when the file could be opened.  When it could
\* not be, a build with assertions ends in OpenAsserts; one without answers the error.
\* (Mutant: an open does not count.)
UncountedOpen ==
    /\ ServerLeaf("Open")
    /\ sHandles' = sHandles \cup {ServerJob.req}
    /\ ServerDone(<<>>, Reply("OpenIn", ServerJob.req))
    /\ UNCHANGED <<sLeaf, sReads, leaked, failed, fault>>
ResponseOpen ==
    /\ ServerLeaf("Open")
    /\ \/ /\ sLeaf[ServerJob.leaf].name \in disk
          /\ sLeaf' = AddRef(sLeaf, ServerJob.leaf)
          /\ sHandles' = sHandles \cup {ServerJob.req}
          /\ ServerDone(<<>>, Reply("OpenIn", ServerJob.req))
       \/ ServerDone(<<>>, Reply("OpenIn", None)) /\ UNCHANGED <<sLeaf, sHandles>>
    /\ UNCHANGED <<sReads, leaked, failed, fault>>

\* ResponseOpenDirJob: the reference is taken before the directory is opened, and
\* stays when it could not be and the build has no assertions.
ResponseOpenDir ==
    /\ ServerLeaf("OpenDir")
    /\ sLeaf' = AddRef(sLeaf, ServerJob.leaf)
    /\ \/ /\ sHandles' = sHandles \cup {ServerJob.req}
          /\ ServerDone(<<>>, Reply("OpenDirIn", ServerJob.req)) /\ UNCHANGED leaked
       \/ /\ leaked' = leaked + 1
          /\ ServerDone(<<>>, Reply("OpenDirIn", None)) /\ UNCHANGED sHandles
    /\ UNCHANGED <<sReads, failed, fault>>

\* NativeFile::Open asserts that the file could be opened.
OpenAsserts ==
    /\ ServerLeaf("Open") \/ ServerLeaf("OpenDir")
    /\ Fail("openFailed")
    /\ UNCHANGED <<diskVars, serverVars, sQueue, clientVars, cQueue, kernelVars, forgetting>>

\* ReleaseRef of the job's leaf, or the failure of its assertion.
Released(n) == sLeaf[ServerJob.leaf].refs >= n
ServerReleases(n) ==
    IF Released(n)
    THEN sLeaf' = ReleaseRef(sLeaf, ServerJob.leaf, n) /\ UNCHANGED fault
    ELSE Fail("serverRefs") /\ UNCHANGED sLeaf

\* ResponseForgetMultiJob.
ResponseForgetMulti ==
    /\ ServerLeaf("ForgetMulti")
    /\ ServerReleases(ServerJob.x)
    /\ ServerDone(<<>>, Reply("ForgetMultiIn", None))
    /\ UNCHANGED <<sHandles, sReads, leaked, failed>>

\* ResponseReleaseJob deletes the handle.
ResponseRelease ==
    /\ ServerLeaf("Release")
    /\ ServerReleases(1)
    /\ sHandles' = sHandles \ {ServerJob.x}
    /\ ServerDone(<<>>, Reply("ReleaseIn", None))
    /\ UNCHANGED <<sReads, leaked, failed>>

\* ResponseReleaseDirJob keeps the handle when close fails.
ResponseReleaseDir ==
    /\ ServerLeaf("ReleaseDir")
    /\ ServerReleases(1)
    /\ \/ sHandles' = sHandles \ {ServerJob.x}
       \/ UNCHANGED sHandles
    /\ ServerDone(<<>>, Reply("ReleaseDirIn", None))
    /\ UNCHANGED <<sReads, leaked, failed>>

\* ResponseGetAttrJob uses the open handle if the kernel named one, and the leaf's
\* path otherwise.
ResponseGetAttr ==
    /\ ServerHead("GetAttr")
    /\ ServerJob.x # None \/ Alive(sLeaf, ServerJob.leaf)
    /\ ServerDone(<<>>, Reply("GetAttrIn", None))
    /\ UNCHANGED <<serverVars, fault>>

\* TaskScheduler::ScheduleResponseReadDiskJob, first phase: the main queue finds
\* the packets and hands the read to a disk thread.
ResponseReadAlloc ==
    /\ ServerHead("Read") \/ ServerHead("Prefetch")
    /\ sReads' = sReads \cup {ServerJob}
    /\ ServerDone(<<>>, <<>>)
    /\ UNCHANGED <<sLeaf, sHandles, leaked, failed, fault>>

\* Second phase, on the disk thread: ResponseReadFileJob reads through the handle, and
\* writes the data or the error.
ResponseReadFile(r) ==
    /\ Running /\ r \in sReads
    /\ sReads' = sReads \ {r}
    /\ \/ /\ r.x \in sHandles
          /\ cQueue' = Append(cQueue, [r EXCEPT !.op = IF @ = "Read" THEN "ReadIn" ELSE "PrefetchIn"])
          /\ UNCHANGED <<failed, fault>>
       \/ /\ r.x \in sHandles
          /\ cQueue' = Append(cQueue, [r EXCEPT !.op = "ReadErrorIn"])
          /\ failed' = failed \cup IF r.op = "Read" THEN {r.req} ELSE {}
          /\ UNCHANGED fault
       \/ r.x \notin sHandles /\ Fail("readHandle") /\ UNCHANGED <<failed, cQueue>>
    /\ UNCHANGED <<diskVars, sLeaf, sHandles, leaked, sQueue, clientVars, kernelVars, forgetting>>

\* A handler whose leaf is gone.
UsesLeaf(m) ==
    \/ m.op \in {"Lookup", "ReadDirPlus", "Open", "OpenDir", "ForgetMulti", "Release", "ReleaseDir"}
    \/ m.op = "GetAttr" /\ m.x = None
ServerUsesFreed ==
    /\ Running /\ sQueue # <<>> /\ UsesLeaf(ServerJob) /\ ~Alive(sLeaf, ServerJob.leaf)
    /\ Fail("serverLeaf")
    /\ UNCHANGED <<diskVars, serverVars, sQueue, clientVars, cQueue, kernelVars, forgetting>>

\* The watcher's thread reads the events at its own pace and schedules a
\* ProcessInotifyEventJob for each; they run in order, between any two other jobs.
\* ProcessInotifyEventJob: the tree follows the event, and the notification for
\* the client is scheduled behind what is already in the queue.  (The notification
\* of the inode, which goes with it, concerns the data cache: module BlockCache.)
ProcessInotifyEvent ==
    /\ Running /\ events # <<>>
    /\ LET e == Head(events)
           f == e.name
           tree == IF e.type = "Created" THEN AddChild(sLeaf, f) ELSE RemoveChild(sLeaf, f)
           entry == [type |-> e.type, name |-> f, leaf |-> Find(tree, f)]
       IN /\ sLeaf' = tree
          /\ sQueue' = Append(sQueue, Job("NotifyEntry", 0, Dir, entry))
    /\ events' = Tail(events)
    /\ UNCHANGED <<disk, changes, deleted, recreated, sHandles, sReads, leaked, failed, clientVars,
                   cQueue, kernelVars, forgetting, fault>>

\* The job writes the message it was made with.
SendNotifyInvalEntry ==
    /\ ServerHead("NotifyEntry") /\ ServerDone(<<>>, <<ServerJob>>)
    /\ UNCHANGED <<serverVars, fault>>

-----------------------------------------------------------------------------
(* Jobs of the client's main queue for what the server sends.               *)

ClientDone == cQueue' = Tail(cQueue) /\ UNCHANGED <<diskVars, serverVars, sQueue, forgetting, requests>>
Answered == reqs' = {r \in reqs : r.req # ClientJob.req}
\* Each time the kernel is given an inode it counts one more lookup of it.
Lookups(c) == IF c \in DOMAIN known THEN known[c] ELSE 0
Given(S) == known' = [c \in DOMAIN known \cup S |-> IF c \in S THEN Lookups(c) + 1 ELSE known[c]]

\* ResponseLookupInJob.  The leaf that has the name is the one the kernel gets,
\* and it stands for the server's leaf of this reply from now on.
ResponseLookupIn ==
    /\ ClientHead("LookupIn")
    /\ LET m == ClientJob.x
           tree == AddChild(cLeaf, m.name)
           c == Find(tree, m.name)
       IN IF m.leaf = None \/ FindLeafByServerInode(ClientJob.leaf) = None
          THEN UNCHANGED <<cLeaf, index, known>>
          ELSE /\ cLeaf' = AddRef(SetServerInode(tree, c, m.leaf), c)
               /\ index' = Reindex(tree, c, m.leaf)
               /\ Given({c})
    /\ Answered /\ ClientDone /\ UNCHANGED <<applying, opened, fault>>

\* ResponseReadDirPlusInJob, PopulateTreeAndPatchInodes and ResolveClientInode: a
\* leaf that has the name keeps the server's leaf it stands for, the others are new;
\* each is counted once, as no name is listed twice.
ResolveClientInode(entries) ==
    LET order == InOrder({e \in entries : Find(cLeaf, e.name) = None})
    IN cLeaf \o [k \in DOMAIN order |-> [NewLeaf(order[k].name) EXCEPT !.server = order[k].leaf]]
ResponseReadDirPlusIn ==
    /\ ClientHead("ReadDirPlusIn")
    /\ LET tree  == ResolveClientInode(ClientJob.x)
           given == {Find(tree, e.name) : e \in ClientJob.x}
           new   == given \ DOMAIN cLeaf
       IN /\ cLeaf' = [c \in DOMAIN tree |->
                          IF c \in given THEN [tree[c] EXCEPT !.refs = @ + 1] ELSE tree[c]]
          /\ index' = [k \in DOMAIN index \cup {tree[c].server : c \in new} |->
                          IF \E c \in new : tree[c].server = k
                          THEN CHOOSE c \in new : tree[c].server = k ELSE index[k]]
          /\ Given(given)
    /\ Answered /\ ClientDone /\ UNCHANGED <<applying, opened, fault>>

\* ResponseOpenInJob and ResponseOpenDirInJob make the FileHandle, or pass on the error.
\* (Mutant: an error is not passed on to the kernel.)
OpenInSilent ==
    /\ ClientHead("OpenIn")
    /\ opened' = IF ClientJob.x = None THEN opened
                 ELSE opened \cup {[leaf |-> r.leaf, handle |-> ClientJob.x] :
                                       r \in {q \in reqs : q.req = ClientJob.req}}
    /\ reqs' = IF ClientJob.x = None THEN reqs ELSE {r \in reqs : r.req # ClientJob.req}
    /\ ClientDone /\ UNCHANGED <<clientVars, known, fault>>
Opened ==
    /\ opened' = IF ClientJob.x = None THEN opened
                 ELSE opened \cup {[leaf |-> r.leaf, handle |-> ClientJob.x] :
                                       r \in {q \in reqs : q.req = ClientJob.req}}
    /\ Answered /\ ClientDone /\ UNCHANGED <<clientVars, known, fault>>
ResponseOpenIn    == ClientHead("OpenIn") /\ Opened
ResponseOpenDirIn == ClientHead("OpenDirIn") /\ Opened

\* ResponseReleaseInJob and ResponseReleaseDirInJob, which delete the FileHandle.
OnlyAnswered == Answered /\ ClientDone /\ UNCHANGED <<clientVars, known, opened, fault>>
ResponseReleaseIn     == ClientHead("ReleaseIn") /\ OnlyAnswered
ResponseReleaseDirIn  == ClientHead("ReleaseDirIn") /\ OnlyAnswered
ResponseGetAttrIn     == ClientHead("GetAttrIn") /\ OnlyAnswered
\* Nothing waits for the answer to a forget.
ResponseForgetMultiIn == ClientHead("ForgetMultiIn") /\ OnlyAnswered

\* ResponseReadFileInJob hands the block to the cache tree queue.
ResponseReadFileIn ==
    /\ ClientHead("ReadIn") \/ ClientHead("PrefetchIn")
    /\ applying' = Append(applying, ClientJob)
    /\ ClientDone /\ UNCHANGED <<cLeaf, index, reqs, known, opened, fault>>

\* On an error it answers the request that the message carries, and FuseReadFileJob
\* has sent none: the read waits on.
ResponseReadFileError ==
    /\ ClientHead("ReadErrorIn")
    /\ ClientDone /\ UNCHANGED <<clientVars, reqs, known, opened, fault>>

\* ApplyBlockCacheJob, on the cache tree queue: the block is added to the leaf that
\* the message names by its address, and the read that waits is answered.
\* (Mutant: whichever block comes first answers the read.)
ApplyAnyBlock ==
    /\ Running /\ applying # <<>>
    /\ reqs' = {r \in reqs : r.req # Head(applying).req}
    /\ applying' = Tail(applying)
    /\ UNCHANGED <<diskVars, serverVars, sQueue, cLeaf, index, cQueue, known, opened, requests,
                   forgetting, fault>>
ApplyBlockCache ==
    /\ Running /\ applying # <<>>
    /\ LET m == Head(applying)
       IN IF Alive(cLeaf, m.leaf)
          THEN /\ reqs' = IF m.op = "ReadIn" THEN {r \in reqs : r.req # m.req} ELSE reqs
               /\ UNCHANGED fault
          ELSE Fail("blockLeaf") /\ UNCHANGED reqs
    /\ applying' = Tail(applying)
    /\ UNCHANGED <<diskVars, serverVars, sQueue, cLeaf, index, cQueue, known, opened, requests,
                   forgetting>>

\* ReleaseLeafRefJob.
ReleaseLeafRef ==
    /\ ClientHead("ReleaseLeafRef")
    /\ IF cLeaf[ClientJob.leaf].refs >= ClientJob.x
       THEN cLeaf' = ReleaseRef(cLeaf, ClientJob.leaf, ClientJob.x) /\ UNCHANGED fault
       ELSE Fail("clientRefs") /\ UNCHANGED cLeaf
    /\ ClientDone /\ UNCHANGED <<index, applying, reqs, known, opened>>

\* The kernel holds the lock of a directory while it waits for a lookup in it or for
\* its listing, and takes it to invalidate an entry.
DirLocked == \E r \in reqs : r.leaf = Dir /\ r.op \in {"Lookup", "ReadDirPlus"}

\* NotifyInvalEntryJob: the tree follows, then the kernel is told, on this thread.
NotifyInvalEntry ==
    /\ ClientHead("NotifyEntry")
    /\ LET m == ClientJob.x
           tree == AddChild(cLeaf, m.name)
           c == Find(tree, m.name)
       IN IF FindLeafByServerInode(ClientJob.leaf) = None
          THEN UNCHANGED <<cLeaf, index, fault>>
          ELSE /\ IF m.type = "Created"
                  THEN /\ cLeaf' = SetServerInode(tree, c, m.leaf)
                       /\ index' = Reindex(tree, c, m.leaf)
                  ELSE /\ cLeaf' = RemoveChild(cLeaf, m.name)
                       /\ index' = Unindex(m.name)
               /\ IF DirLocked THEN Fail("stuck") ELSE UNCHANGED fault
    /\ ClientDone /\ UNCHANGED <<applying, reqs, known, opened>>

-----------------------------------------------------------------------------

DiskStep == \E f \in Files : CreateFile(f) \/ DeleteFile(f)

KernelStep ==
    \/ \E f \in Files : FuseLookup(f)
    \/ FuseOpendir
    \/ \E c \in DOMAIN cLeaf :
          \/ FuseOpen(c)
          \/ \E x \in {None} \cup {h.handle : h \in {o \in opened : o.leaf = c}} : FuseGetattr(c, x)
          \/ FuseForget(c) \/ FuseForgetmultiRelease(c)
    \/ \E h \in opened : FuseReadDirPlus(h) \/ FuseRead(h) \/ FuseRelease(h) \/ FuseReleaseDir(h)

FuseThread == \E m \in forgetting : FuseForgetmultiRequest(m)

ServerMain ==
    \/ ResponseLookup \/ ResponseReadDirPlus \/ ResponseOpen \/ ResponseOpenDir
    \/ ResponseForgetMulti \/ ResponseRelease \/ ResponseReleaseDir \/ ResponseGetAttr
    \/ ResponseReadAlloc \/ ProcessInotifyEvent
    \/ SendNotifyInvalEntry \/ ServerUsesFreed \/ OpenAsserts

DiskThread == \E r \in sReads : ResponseReadFile(r)

ClientMain ==
    \/ RequestLookup \/ RequestOpenDir \/ RequestOpen \/ RequestReadDirPlus \/ RequestGetAttr
    \/ RequestRelease \/ RequestReleaseDir \/ RequestForgetMulti \/ RequestRead
    \/ ResponseLookupIn \/ ResponseReadDirPlusIn \/ ResponseOpenIn \/ ResponseOpenDirIn
    \/ ResponseReleaseIn \/ ResponseReleaseDirIn \/ ResponseGetAttrIn \/ ResponseForgetMultiIn
    \/ ResponseReadFileIn \/ ResponseReadFileError
    \/ ReleaseLeafRef \/ NotifyInvalEntry

\* The workers of the queues run what is in them; nobody else has to do anything.
Workers  == ServerMain \/ ClientMain \/ DiskThread \/ ApplyBlockCache

Next == DiskStep \/ KernelStep \/ FuseThread \/ Workers

Fairness == WF_vars(Workers)

Spec == Init /\ [][Next]_vars /\ Fairness

-----------------------------------------------------------------------------

\* What the client's main queue still has to take off leaf i's count.
Pending(i) ==
    Total([k \in DOMAIN cQueue |-> IF cQueue[k].op = "ReleaseLeafRef" /\ cQueue[k].leaf = i
                                   THEN cQueue[k].x ELSE 0])

\* A client leaf's count is what the kernel has counted, and what it has given back
\* in releases that the main queue has not run: Leaf::_nlookup neither leaks nor
\* runs below, whatever the server's notifications do to the tree meanwhile.
ClientRefsCounted ==
    \A i \in DOMAIN cLeaf : cLeaf[i].refs = Lookups(i) + Pending(i)

\* No job of the client's main queue, and no block that a request of the kernel waits
\* for, meets a leaf that is gone, and no release exceeds what was counted (the
\* assertion in Leaf::ReleaseRef).  A forget_multi and a block read ahead can: their
\* faults have names of their own.
ClientLeavesSafe ==
    /\ fault # "clientRefs"
    /\ Running => \A k \in DOMAIN cQueue :
          \/ UsesLeaf(cQueue[k]) /\ cQueue[k].op # "ForgetMulti"
          \/ cQueue[k].op \in {"GetAttr", "ReleaseLeafRef"}
          => Alive(cLeaf, cQueue[k].leaf)
    /\ \A k \in DOMAIN applying : applying[k].op = "ReadIn" => Alive(cLeaf, applying[k].leaf)

\* As long as no file was deleted and created again under its name, no message of
\* the client makes the server use a leaf that is gone or fail the assertion.
ServerLeavesSafe == recreated \/ fault \notin {"serverLeaf", "serverRefs"}

\* A request of the kernel never reaches a RemoteFileHandle that was deleted, on the
\* server's main queue or on a disk thread.
HandlesSafe ==
    /\ \A r \in sReads : r.op = "Read" => r.x \in sHandles
    /\ \A k \in DOMAIN sQueue :
          \/ sQueue[k].op \in {"Read", "ReadDirPlus", "Release", "ReleaseDir"}
          \/ sQueue[k].op = "GetAttr" /\ sQueue[k].x # None
          => sQueue[k].x \in sHandles

\* When no message is on its way, the server's count of a leaf is what the kernel holds
\* through the client's leaves: the lookups, the open files, and on the directory
\* what failed opendirs left behind.
Quiet == fault = "none" /\ sQueue = <<>> /\ cQueue = <<>> /\ forgetting = {}
Held(s) ==
    Total([c \in DOMAIN cLeaf |-> IF cLeaf[c].server = s THEN Lookups(c) ELSE 0])
        + Cardinality({h \in opened : cLeaf[h.leaf].server = s})
ServerRefsCounted ==
    Quiet /\ ~recreated =>
        \A s \in DOMAIN sLeaf : sLeaf[s].refs = Held(s) + (IF s = Dir THEN leaked ELSE 0)

\* A leaf that is in the client's tree is the one the index finds for the server's
\* leaf it stands for, so that notifications reach it.
IndexAgrees ==
    \A c \in DOMAIN cLeaf : cLeaf[c].linked =>
        cLeaf[c].server \in DOMAIN index /\ index[cLeaf[c].server] = c

\* Every request of the kernel is answered, but a read that fails on the server's disk,
\* whose error ResponseReadFileInJob passes on to nobody; unless the client or the
\* server has already gone wrong.
Waiting == {r \in reqs : r.req \notin failed}
RequestsAnswered == Waiting # {} ~> (Waiting = {} \/ fault # "none")
=============================================================================
