--------------------------- MODULE BlockCacheProofs ---------------------------
(***************************************************************************)
(* The cache of a file is coherent, the eviction takes no block apart that *)
(* a read points into, and what the cache gives out after an invalidation  *)
(* is stale only where older data was on its way: for any number of        *)
(* blocks, reads, changes and failures.  The second part counts: every     *)
(* read is held in exactly one place, every block that is awaited has an   *)
(* answer to come or has failed, and the count of cached packets covers    *)
(* what is in memory.                                                      *)
(***************************************************************************)
EXTENDS BlockCache, FiniteSetTheorems, TLAPS

Elems(s) == {s[k] : k \in DOMAIN s}
PinSets  == {P \in SUBSET (Blocks \X Nat) : IsFiniteSet(P)}
Ops      == {"read", "apply", "write", "inval", "error"}
JobType  == {j \in [op : Ops, req : Nat, blk : Blocks, rng : Ranges, pins : PinSets] :
                j.op \in {"apply", "write", "inval"} => j.rng.ver # 0}

Typed ==
    /\ version \in Versions /\ fresh \in 0..(MaxChanges + 1) /\ fresh <= version
    /\ readDone \in [Blocks -> [Versions -> Nat]]
    /\ wire \in Seq(JobType) /\ queue \in Seq(JobType)
    /\ data \in [Blocks -> Ranges] /\ \A b \in InMemory : data[b].ver # 0
    /\ status \in [Blocks -> Status]
    /\ disk \in [Blocks -> 0..(MaxChanges + 1)]
    /\ want \in Seq(Blocks \X Blocks)
    /\ pending \in [Blocks -> Seq(DOMAIN want)]
    /\ IsFiniteSet(diskJobs)
    /\ \A j \in diskJobs : j.blks \subseteq Blocks /\ j.pins \in PinSets

\* A job brings block data that is at least as new as the last invalidation, unless
\* the data raced with it; an invalidation is for a version that there was.
Current(j) ==
    /\ j.op \in {"apply", "write"} /\ j.blk \notin raced => j.rng.ver >= fresh
    /\ j.op = "inval" => j.rng.ver <= version

\* A Range that is about to be written is neither pinned nor in memory any more.
Detached(j) ==
    j.op = "write" => /\ <<j.blk, j.rng.id>> \notin Pins
                      /\ data[j.blk] # NoRange => data[j.blk].id # j.rng.id

QueueSound == \A j \in Elems(queue) :
    Current(j) /\ Detached(j) /\ (j.op = "read" => j.req \in DOMAIN want)
WireSound == \A j \in Elems(wire) : Current(j) /\ j.op \in {"apply", "inval", "error"} /\ j.pins = {}
ReadNewer == \A b \in Blocks \ raced : \A v \in Versions : readDone[b][v] > 0 => v >= fresh

BInv == Typed /\ QueueSound /\ WireSound /\ ReadNewer /\ CacheCoherent /\ StaleOnlyIfRaced

-----------------------------------------------------------------------------

\* What the operations on queues do to the jobs in them.
LEMMA ElemsAppend ==
    ASSUME NEW S, NEW s \in Seq(S), NEW e \in S
    PROVE  Append(s, e) \in Seq(S) /\ Elems(Append(s, e)) \subseteq Elems(s) \cup {e}
  BY DEF Elems

LEMMA ElemsTail ==
    ASSUME NEW S, NEW s \in Seq(S), s # <<>>
    PROVE  /\ Head(s) \in Elems(s) /\ Head(s) \in S
           /\ Tail(s) \in Seq(S) /\ Elems(Tail(s)) \subseteq Elems(s)
  BY DEF Elems

LEMMA ElemsConcat ==
    ASSUME NEW S, NEW s \in Seq(S), NEW t \in Seq(S)
    PROVE  s \o t \in Seq(S) /\ Elems(s \o t) \subseteq Elems(s) \cup Elems(t)
  <1>1. s \o t \in Seq(S) /\ DOMAIN (s \o t) = 1..(Len(s) + Len(t))
      OBVIOUS
  <1>2. ASSUME NEW k \in DOMAIN (s \o t) PROVE (s \o t)[k] \in Elems(s) \cup Elems(t)
    <2>1. CASE k <= Len(s)
        BY <1>1, <2>1 DEF Elems
    <2>2. CASE k > Len(s)
      <3>1. k - Len(s) \in DOMAIN t /\ (s \o t)[k] = t[k - Len(s)]
          BY <1>1, <2>2
      <3> QED
          BY <3>1 DEF Elems
    <2> QED
        BY <1>1, <2>1, <2>2
  <1> QED
      BY <1>1, <1>2 DEF Elems

LEMMA ElemsInSeq ==
    ASSUME NEW S, NEW s \in Seq(S)
    PROVE  Elems(s) \subseteq S
  BY DEF Elems

\* The values of a function on a finite set are finitely many.
LEMMA ImageFinite ==
    ASSUME NEW S, IsFiniteSet(S), NEW f, DOMAIN f = S, f = [x \in S |-> f[x]]
    PROVE  IsFiniteSet({f[x] : x \in S})
  <1>1. f \in Surjection(S, {f[x] : x \in S})
      BY DEF Surjection
  <1> QED
      BY <1>1, FS_Surjection

LEMMA InitBInv == Init => BInv
  <1> SUFFICES ASSUME Init PROVE BInv
      OBVIOUS
  <1> USE BlockCacheAssumption DEF Init
  <1>1. Typed
    <2>1. IsFiniteSet(diskJobs)
        BY FS_EmptySet
    <2>2. data \in [Blocks -> Ranges]
        BY DEF NoRange, Ranges
    <2> QED
        BY <2>1, <2>2 DEF Typed, Versions, Status, InMemory
  <1>2. Elems(queue) = {} /\ Elems(wire) = {}
      BY DEF Elems
  <1>3. ReadNewer
      BY DEF ReadNewer, Versions
  <1>4. CacheCoherent /\ StaleOnlyIfRaced
      BY DEF CacheCoherent, StaleOnlyIfRaced, InMemory
  <1> QED
      BY <1>1, <1>2, <1>3, <1>4 DEF BInv, QueueSound, WireSound
-----------------------------------------------------------------------------

\* The pins are those of the jobs, wherever they are, and they are finitely many.
LEMMA PinsOfJobs ==
    Pins = UNION ({j.pins : j \in Elems(queue)} \cup {j.pins : j \in diskJobs})
  BY DEF Pins, Elems

LEMMA PinsFinite == Typed => IsFiniteSet(Pins) /\ Pins \subseteq Blocks \X Nat
  <1> SUFFICES ASSUME Typed PROVE IsFiniteSet(Pins) /\ Pins \subseteq Blocks \X Nat
      OBVIOUS
  <1> DEFINE f == [k \in DOMAIN queue |-> queue[k].pins]
             g == [j \in diskJobs |-> j.pins]
             Q == {f[k] : k \in DOMAIN queue}
             D == {g[j] : j \in diskJobs}
  <1>1. IsFiniteSet(DOMAIN queue)
    <2>1. DOMAIN queue = 1..Len(queue) /\ Len(queue) \in Nat
        BY DEF Typed
    <2> QED
        BY <2>1, FS_Interval
  <1>2. IsFiniteSet(Q) /\ IsFiniteSet(D)
    <2>1. IsFiniteSet(Q)
        BY <1>1, ImageFinite
    <2>2. IsFiniteSet(diskJobs)
        BY DEF Typed
    <2>3. IsFiniteSet(D)
        BY <2>2, ImageFinite
    <2> QED
        BY <2>1, <2>3
  <1>3. IsFiniteSet(Q \cup D)
      BY <1>2, FS_Union
  <1>4. \A P \in Q \cup D : P \in PinSets
      BY DEF Typed, JobType
  <1>5. IsFiniteSet(UNION (Q \cup D))
      BY <1>3, <1>4, FS_UNION DEF PinSets
  <1>6. Pins = UNION (Q \cup D)
      BY DEF Pins
  <1> QED
      BY <1>4, <1>5, <1>6 DEF PinSets

\* There is always a free id for a new Range.
LEMMA FreshIdExists ==
    ASSUME Typed, NEW b \in Blocks
    PROVE  FreshId(b) \in Nat /\ FreshId(b) \notin RangeIds(b)
  <1> DEFINE A == {q \in Pins : q[1] = b}
             W == {x \in DOMAIN queue : queue[x].op = "write" /\ queue[x].blk = b}
             f == [p \in A |-> p[2]]
             g == [k \in W |-> queue[k].rng.id]
             R == RangeIds(b)
             n == Cardinality(R)
  <1>1. IsFiniteSet(A)
      BY PinsFinite, FS_Subset
  <1>2. IsFiniteSet(W)
    <2>1. DOMAIN queue = 1..Len(queue) /\ Len(queue) \in Nat
        BY DEF Typed
    <2>2. IsFiniteSet(DOMAIN queue)
        BY <2>1, FS_Interval
    <2> QED
        BY <2>2, FS_Subset
  <1>3. IsFiniteSet({f[p] : p \in A}) /\ IsFiniteSet({g[k] : k \in W})
    <2>1. IsFiniteSet({f[p] : p \in A})
        BY <1>1, ImageFinite
    <2>2. DOMAIN g = W /\ g = [x \in W |-> g[x]]
        OBVIOUS
    <2>3. IsFiniteSet({g[k] : k \in W})
      <3> HIDE DEF g, W
      <3> QED
          BY <1>2, <2>2, ImageFinite
    <2> QED
        BY <2>1, <2>3
  <1>4. R = {f[p] : p \in A} \cup {g[k] : k \in W}
      BY DEF RangeIds
  <1>5. IsFiniteSet(R) /\ n \in Nat
    <2>1. IsFiniteSet(R)
      <3> HIDE DEF f, g, A, W
      <3> QED
          BY <1>3, <1>4, FS_Union
    <2> QED
        BY <2>1, FS_CardinalityType
  <1>6. \E i \in 0..n : i \notin R
    <2> SUFFICES ASSUME 0..n \subseteq R PROVE FALSE
        OBVIOUS
    <2>1. Cardinality(0..n) <= n
        BY <1>5, FS_Subset
    <2>2. Cardinality(0..n) = n + 1
        BY <1>5, FS_Interval
    <2> QED
        BY <1>5, <2>1, <2>2
  <1>7. FreshId(b) \in 0..n /\ FreshId(b) \notin R
      BY <1>6 DEF FreshId
  <1> QED
      BY <1>5, <1>7

\* A step on the client's side that adds no data: jobs leave the queue, reads are put
\* back, wait for a block or go to a disk thread, and blocks are asked for.
LEMMA ReadStep ==
    ASSUME BInv, UNCHANGED <<version, readDone, wire, data, disk, fresh, raced>>,
           queue' \in Seq(JobType),
           \A j \in Elems(queue') : j \in Elems(queue) \/ (j.op = "read" /\ j.pins = {}),
           \A j \in Elems(queue') : j.op = "read" => j.req \in DOMAIN want',
           status' \in [Blocks -> Status],
           \A b \in Blocks : status'[b] = status[b] \/ (status[b] = "NotFound" /\ status'[b] = "InFlight"),
           want' \in Seq(Blocks \X Blocks), pending' \in [Blocks -> Seq(DOMAIN want')],
           IsFiniteSet(diskJobs'),
           \A j \in diskJobs' :
              \/ j \in diskJobs
              \/ /\ \A b \in j.blks : b \in Blocks /\ status[b] = "OnDisk"
                 /\ j.pins \in PinSets
                 /\ \A p \in j.pins : p[1] \in InMemory /\ p = <<p[1], data[p[1]].id>>
    PROVE  BInv'
  <1>1. Typed'
    <2>1. \A j \in diskJobs' : j.blks \subseteq Blocks /\ j.pins \in PinSets
        BY DEF BInv, Typed
    <2>2. InMemory' = InMemory
        BY DEF InMemory
    <2> QED
        BY <2>1, <2>2 DEF BInv, Typed
  <1>2. ASSUME NEW p \in Pins', p \notin Pins
        PROVE  p[1] \in InMemory /\ p = <<p[1], data[p[1]].id>>
    <2>1. \/ \E j \in Elems(queue') : p \in j.pins
          \/ \E j \in diskJobs' : p \in j.pins
        BY DEF Pins, Elems
    <2>2. \A j \in Elems(queue) \cup diskJobs : p \notin j.pins
        BY <1>2, PinsOfJobs
    <2> QED
        BY <2>1, <2>2
  <1>3. ASSUME NEW j \in Elems(queue') PROVE Current(j)' /\ Detached(j)'
    <2>1. CASE j.op = "read"
        BY <2>1 DEF Current, Detached
    <2>2. CASE j \in Elems(queue)
      <3>1. Current(j) /\ Detached(j)
          BY <2>2 DEF BInv, QueueSound
      <3>2. Current(j)'
          BY <3>1 DEF Current
      <3>3. ASSUME j.op = "write" PROVE <<j.blk, j.rng.id>> \notin Pins'
        <4> SUFFICES ASSUME <<j.blk, j.rng.id>> \in Pins' PROVE FALSE
            OBVIOUS
        <4>1. <<j.blk, j.rng.id>> \notin Pins
            BY <3>1, <3>3 DEF Detached
        <4>2. j.blk \in InMemory /\ j.rng.id = data[j.blk].id
            BY <1>2, <4>1
        <4> QED
            BY <3>1, <3>3, <4>2 DEF Detached, InMemory
      <3> QED
          BY <3>1, <3>2, <3>3 DEF Detached
    <2> QED
        BY <2>1, <2>2
  <1>4. QueueSound'
      BY <1>3 DEF QueueSound
  <1>5. WireSound' /\ ReadNewer'
      BY DEF BInv, WireSound, ReadNewer, Current
  <1>6. CacheCoherent'
      BY DEF BInv, CacheCoherent, InMemory
  <1>7. StaleOnlyIfRaced'
      BY DEF BInv, StaleOnlyIfRaced, InMemory
  <1> QED
      BY <1>1, <1>4, <1>5, <1>6, <1>7 DEF BInv

\* A read that is put on the queue is a job.
LEMMA ReadJobType ==
    ASSUME NEW r \in Nat, NEW P \in PinSets
    PROVE  ReadJob(r, P) \in JobType
  BY BlockCacheAssumption DEF ReadJob, Job, JobType, Ops, Blocks, Ranges, NoRange

LEMMA NoPins == {} \in PinSets
  BY FS_EmptySet DEF PinSets

LEMMA FuseReadBInv ==
    ASSUME BInv, NEW b \in Blocks, NEW n \in {1, 2}, FuseRead(b, n) PROVE BInv'
  <1> USE DEF FuseRead, serverVars, cacheVars, ghostVars
  <1>0. Typed
      BY DEF BInv
  <1>1. /\ want' \in Seq(Blocks \X Blocks) /\ Len(want') = Len(want) + 1 /\ Len(want) \in Nat
        /\ DOMAIN want' = 1..Len(want') /\ DOMAIN want = 1..Len(want)
      BY <1>0 DEF Typed
  <1>2. ReadJob(Len(want'), {}) \in JobType
      BY <1>1, ReadJobType, NoPins
  <1>3. queue' \in Seq(JobType) /\ Elems(queue') \subseteq Elems(queue) \cup {ReadJob(Len(want'), {})}
      BY <1>0, <1>2, ElemsAppend DEF Typed
  <1>4. DOMAIN want \subseteq DOMAIN want' /\ Len(want') \in DOMAIN want'
      BY <1>1
  <1>5. pending' \in [Blocks -> Seq(DOMAIN want')]
    <2>1. pending \in [Blocks -> Seq(DOMAIN want)] /\ pending' = pending
        BY <1>0 DEF Typed
    <2>2. \A s \in Seq(DOMAIN want) : s \in Seq(DOMAIN want')
        BY <1>4
    <2> QED
        BY <2>1, <2>2
  <1>6. \A j \in Elems(queue') : j.op = "read" => j.req \in DOMAIN want'
      BY <1>3, <1>4 DEF BInv, QueueSound, ReadJob, Job
  <1>7. \A j \in Elems(queue') : j \in Elems(queue) \/ (j.op = "read" /\ j.pins = {})
      BY <1>3 DEF ReadJob, Job
  <1> QED
      BY <1>0, <1>1, <1>3, <1>5, <1>6, <1>7, ReadStep DEF Typed

\* What FetchBlock, DiskRead and Request do to the queue, the reads and the blocks.
LEMMA FetchBlockEffect ==
    ASSUME Typed, queue # <<>>, NEW r \in DOMAIN want, NEW b \in Blocks, NEW S \in SUBSET Blocks,
           \A x \in S : status[x] = "NotFound", FetchBlock(r, b, S)
    PROVE  /\ queue' \in Seq(JobType)
           /\ Elems(queue') \subseteq Elems(queue) \cup {ReadJob(r, {})}
           /\ status' \in [Blocks -> Status]
           /\ \A x \in Blocks : status'[x] = status[x] \/ (status[x] = "NotFound" /\ status'[x] = "InFlight")
           /\ pending' \in [Blocks -> Seq(DOMAIN want)]
  <1>0. Tail(queue) \in Seq(JobType) /\ Elems(Tail(queue)) \subseteq Elems(queue)
      BY ElemsTail DEF Typed
  <1>1. r \in Nat
    <2>1. DOMAIN want = 1..Len(want) /\ Len(want) \in Nat
        BY DEF Typed
    <2> QED
        BY <2>1
  <1>2. ReadJob(r, {}) \in JobType
      BY <1>1, ReadJobType, NoPins
  <1>3. CASE status[b] = "InCache"
    <2>1. /\ queue' = Append(Tail(queue), ReadJob(r, {}))
          /\ UNCHANGED <<pending, status>>
        BY <1>3 DEF FetchBlock
    <2> QED
        BY <1>0, <1>2, <2>1, ElemsAppend DEF Typed
  <1>4. CASE status[b] # "InCache"
    <2>1. /\ queue' = Tail(queue) /\ pending' = [pending EXCEPT ![b] = Append(@, r)]
          /\ Request(IF status[b] = "NotFound" THEN {b} \cup S ELSE {})
        BY <1>4 DEF FetchBlock
    <2>2. pending' \in [Blocks -> Seq(DOMAIN want)]
        BY <2>1 DEF Typed
    <2> QED
        BY <1>0, <2>1, <2>2 DEF Request, Typed, Status
  <1> QED
      BY <1>3, <1>4

LEMMA FuseReadFileBInv == BInv /\ FuseReadFile => BInv'
  <1> SUFFICES ASSUME BInv, FuseReadFile PROVE BInv'
      OBVIOUS
  <1> DEFINE r == Head(queue).req
             b == want[r][1]
             c == want[r][2]
  <1>0. Typed
      BY DEF BInv
  <1>1. queue # <<>> /\ Head(queue).op = "read"
      BY DEF FuseReadFile, Turn
  <1>2. r \in DOMAIN want /\ r \in Nat /\ b \in Blocks /\ c \in Blocks
    <2>1. Head(queue) \in Elems(queue)
        BY <1>0, <1>1, ElemsTail DEF Typed
    <2>2. r \in DOMAIN want
        BY <1>1, <2>1 DEF BInv, QueueSound
    <2>3. want \in Seq(Blocks \X Blocks) /\ DOMAIN want = 1..Len(want) /\ Len(want) \in Nat
        BY <1>0 DEF Typed
    <2> HIDE DEF r
    <2>4. want[r] \in Blocks \X Blocks /\ r \in Nat
        BY <2>2, <2>3
    <2> QED
        BY <2>2, <2>4
  <1>u. UNCHANGED <<version, readDone, wire, data, disk, want, fresh, raced>>
      BY DEF FuseReadFile, ghostVars
  <1>3. \/ \E blks \in SUBSET Blocks, mem \in {{}} \cup {{x} : x \in InMemory} :
              (\A x \in blks : status[x] = "OnDisk") /\ DiskRead(r, blks, mem)
        \/ \E x \in Blocks, S \in SUBSET Blocks :
              (\A y \in S : status[y] = "NotFound") /\ FetchBlock(r, x, S) /\ UNCHANGED diskJobs
        \/ Request(Prefetch(b)) /\ queue' = Tail(queue) /\ UNCHANGED <<pending, diskJobs>>
    <2>1. \A x \in Blocks : Prefetch(x) \in SUBSET Blocks /\ \A y \in Prefetch(x) : status[y] = "NotFound"
        BY DEF Prefetch
    <2> HIDE DEF r
    <2> QED
        BY <1>2, <2>1 DEF FuseReadFile, r
  <1>q. Tail(queue) \in Seq(JobType) /\ Elems(Tail(queue)) \subseteq Elems(queue)
      BY <1>0, <1>1, ElemsTail DEF Typed
  <1>d. IsFiniteSet(diskJobs) /\ status \in [Blocks -> Status] /\ pending \in [Blocks -> Seq(DOMAIN want)]
        /\ want \in Seq(Blocks \X Blocks)
      BY <1>0 DEF Typed
  <1>e. \A j \in Elems(queue) : j.op = "read" => j.req \in DOMAIN want
      BY DEF BInv, QueueSound
  <1> HIDE DEF r, b, c
  <1>4. CASE \E blks \in SUBSET Blocks, mem \in {{}} \cup {{x} : x \in InMemory} :
                (\A x \in blks : status[x] = "OnDisk") /\ DiskRead(r, blks, mem)
    <2>1. PICK blks \in SUBSET Blocks, mem \in {{}} \cup {{x} : x \in InMemory} :
                (\A x \in blks : status[x] = "OnDisk") /\ DiskRead(r, blks, mem)
        BY <1>4
    <2>2. PICK job : /\ job.blks = blks /\ job.pins = UNION {Pin(x) : x \in mem}
                     /\ diskJobs' = diskJobs \cup {job}
        BY <2>1 DEF DiskRead
    <2>3. queue' = Tail(queue) /\ UNCHANGED <<status, pending>>
        BY <2>1 DEF DiskRead
    <2>4. IsFiniteSet(diskJobs')
        BY <1>d, <2>2, FS_AddElement
    <2>5. job.pins \in PinSets /\ \A p \in job.pins : p[1] \in InMemory /\ p = <<p[1], data[p[1]].id>>
      <3>1. CASE mem = {}
          BY <2>2, <3>1, NoPins
      <3>2. CASE \E x \in InMemory : mem = {x}
        <4>1. PICK x \in InMemory : mem = {x}
            BY <3>2
        <4>2. x \in Blocks /\ data[x] # NoRange /\ data[x].id \in Nat
            BY <1>0, <4>1 DEF InMemory, Typed, Ranges
        <4>3. job.pins = {<<x, data[x].id>>}
            BY <2>2, <4>1, <4>2 DEF Pin
        <4>f. IsFiniteSet({<<x, data[x].id>>})
            BY FS_Singleton
        <4>4. IsFiniteSet(job.pins)
            BY <4>3, <4>f
        <4>5. job.pins \in SUBSET (Blocks \X Nat)
            BY <4>2, <4>3
        <4> QED
            BY <4>1, <4>3, <4>4, <4>5 DEF PinSets
      <3> QED
          BY <2>1, <3>1, <3>2
    <2> QED
        BY <1>u, <1>q, <1>d, <1>e, <2>1, <2>2, <2>3, <2>4, <2>5, ReadStep
  <1>5. CASE \E x \in Blocks, S \in SUBSET Blocks :
                (\A y \in S : status[y] = "NotFound") /\ FetchBlock(r, x, S) /\ UNCHANGED diskJobs
    <2>1. PICK x \in Blocks, S \in SUBSET Blocks :
                (\A y \in S : status[y] = "NotFound") /\ FetchBlock(r, x, S) /\ UNCHANGED diskJobs
        BY <1>5
    <2>2. /\ queue' \in Seq(JobType)
          /\ Elems(queue') \subseteq Elems(queue) \cup {ReadJob(r, {})}
          /\ status' \in [Blocks -> Status]
          /\ \A y \in Blocks : status'[y] = status[y] \/ (status[y] = "NotFound" /\ status'[y] = "InFlight")
          /\ pending' \in [Blocks -> Seq(DOMAIN want)]
        BY <1>0, <1>1, <1>2, <2>1, FetchBlockEffect
    <2>3. ReadJob(r, {}).op = "read" /\ ReadJob(r, {}).pins = {} /\ ReadJob(r, {}).req = r
        BY DEF ReadJob, Job
    <2> QED
        BY <1>u, <1>d, <1>e, <1>2, <2>1, <2>2, <2>3, ReadStep
  <1>6. CASE Request(Prefetch(b)) /\ queue' = Tail(queue) /\ UNCHANGED <<pending, diskJobs>>
    <2>1. /\ status' \in [Blocks -> Status]
          /\ \A x \in Blocks : status'[x] = status[x] \/ (status[x] = "NotFound" /\ status'[x] = "InFlight")
        BY <1>6, <1>d DEF Request, Prefetch, Status
    <2> QED
        BY <1>u, <1>q, <1>d, <1>e, <1>6, <2>1, ReadStep
  <1> QED
      BY <1>3, <1>4, <1>5, <1>6

LEMMA ExecuteDiskBInv ==
    ASSUME BInv, NEW j \in diskJobs, ExecuteDisk(j) PROVE BInv'
  <1> USE DEF ExecuteDisk, serverVars, cacheVars, ghostVars
  <1>1. IsFiniteSet(diskJobs')
      BY FS_Subset DEF BInv, Typed
  <1> QED
      BY <1>1, ReadStep DEF BInv, Typed, QueueSound

\* A step of the server or of the network: the client's cache does not change.
LEMMA ServerStep ==
    ASSUME BInv, UNCHANGED <<cacheVars, diskJobs, want, ghostVars>>,
           version' \in Versions, version <= version',
           readDone' \in [Blocks -> [Versions -> Nat]],
           wire' \in Seq(JobType), queue' \in Seq(JobType),
           \A x \in Elems(queue') : x \in Elems(queue) \/ (x \in Elems(wire) /\ x.pins = {}),
           \A x \in Elems(wire') : \/ x \in Elems(wire)
                                   \/ x.op \in {"apply", "inval", "error"} /\ Current(x) /\ x.pins = {},
           ReadNewer'
    PROVE  BInv'
  <1> USE DEF cacheVars, ghostVars
  <1>0. version \in Int /\ version' \in Int
      BY BlockCacheAssumption DEF BInv, Typed, Versions
  <1>1. Typed'
    <2>1. fresh' <= version' /\ fresh' \in 0..(MaxChanges + 1)
        BY <1>0, BlockCacheAssumption DEF BInv, Typed
    <2>2. InMemory' = InMemory
        BY DEF InMemory
    <2> QED
        BY <2>1, <2>2 DEF BInv, Typed
  <1>2. ASSUME NEW x, Current(x), x.op = "inval" => x.rng.ver \in Int PROVE Current(x)'
      BY <1>0, <1>2 DEF Current
  <1>t. \A x \in Elems(queue) \cup Elems(wire) \cup Elems(wire') : x.rng.ver \in Int
    <2>1. Elems(queue) \cup Elems(wire) \cup Elems(wire') \subseteq JobType
        BY ElemsInSeq DEF BInv, Typed
    <2> QED
        BY <2>1, BlockCacheAssumption DEF JobType, Ranges
  <1>3. Pins' \subseteq Pins
    <2>1. ASSUME NEW p \in Pins' PROVE p \in Pins
      <3>1. \/ \E x \in Elems(queue') : p \in x.pins
            \/ \E x \in diskJobs : p \in x.pins
          BY DEF Pins, Elems
      <3> QED
          BY <3>1, PinsOfJobs
    <2> QED
        BY <2>1
  <1>4. QueueSound'
    <2>1. ASSUME NEW x \in Elems(queue')
          PROVE  Current(x)' /\ Detached(x)' /\ (x.op = "read" => x.req \in DOMAIN want)
      <3>1. CASE x \in Elems(queue)
          BY <1>2, <1>3, <1>t, <3>1 DEF BInv, QueueSound, Detached
      <3>2. CASE x \in Elems(wire)
          BY <1>2, <1>t, <3>2 DEF BInv, WireSound, Detached
      <3> QED
          BY <3>1, <3>2
    <2> QED
        BY <2>1 DEF QueueSound
  <1>5. WireSound'
      BY <1>2, <1>t DEF BInv, WireSound
  <1>6. CacheCoherent' /\ StaleOnlyIfRaced'
      BY DEF BInv, CacheCoherent, StaleOnlyIfRaced, InMemory
  <1> QED
      BY <1>1, <1>4, <1>5, <1>6 DEF BInv

\* A message of the server is a job.
LEMMA MessageType ==
    ASSUME NEW o \in {"apply", "inval", "error"}, NEW b \in Blocks, NEW v \in 0..(MaxChanges + 1),
           o \in {"apply", "inval"} => v # 0
    PROVE  /\ Job(o, NoReq, b, [ver |-> v, id |-> 0], {}) \in JobType
           /\ Job(o, NoReq, b, [ver |-> v, id |-> 0], {}).pins = {}
  BY NoPins DEF Job, JobType, Ops, Ranges, NoReq

LEMMA ResponseReadFileBInv ==
    ASSUME BInv, NEW b \in Blocks, ResponseReadFile(b) PROVE BInv'
  <1> USE DEF ResponseReadFile, kernelVars
  <1>0. Typed
      BY DEF BInv
  <1>1. CASE readDone' = [readDone EXCEPT ![b][version] = @ + 1] /\ UNCHANGED wire
    <2>1. readDone' \in [Blocks -> [Versions -> Nat]]
        BY <1>0, <1>1 DEF Typed
    <2>2. ASSUME NEW x \in Blocks, NEW v \in Versions
          PROVE  readDone'[x][v] = readDone[x][v] \/ (x = b /\ v = version)
        BY <1>0, <1>1 DEF Typed
    <2>u. UNCHANGED <<fresh, raced>>
        BY DEF ghostVars
    <2>f. fresh \in Int /\ version \in Int /\ version >= fresh
        BY <1>0, BlockCacheAssumption DEF Typed, Versions
    <2>n. ASSUME NEW x \in Blocks \ raced, NEW v \in Versions, readDone'[x][v] > 0
          PROVE  v >= fresh
        BY <2>2, <2>f, <2>n DEF BInv, ReadNewer
    <2>3. ReadNewer'
        BY <2>u, <2>n DEF ReadNewer, Versions
    <2>4. version \in Int
        BY <1>0, BlockCacheAssumption DEF Typed, Versions
    <2> QED
        BY <1>0, <1>1, <2>1, <2>3, <2>4, ServerStep DEF Typed
  <1>2. CASE UNCHANGED readDone /\ wire' = Append(wire, Job("error", NoReq, b, NoRange, {}))
    <2> DEFINE e == Job("error", NoReq, b, NoRange, {})
    <2>1. e \in JobType /\ e.pins = {} /\ e.op = "error"
        BY MessageType, BlockCacheAssumption DEF NoRange, Job
    <2>2. wire' \in Seq(JobType) /\ Elems(wire') \subseteq Elems(wire) \cup {e}
        BY <1>0, <1>2, <2>1, ElemsAppend DEF Typed
    <2>3. Current(e)
        BY <2>1 DEF Current
    <2>4. ReadNewer'
        BY <1>2 DEF BInv, ReadNewer, ghostVars
    <2>5. version \in Int
        BY <1>0, BlockCacheAssumption DEF Typed, Versions
    <2> QED
        BY <1>0, <1>2, <2>1, <2>2, <2>3, <2>4, <2>5, ServerStep DEF Typed
  <1> QED
      BY <1>1, <1>2

LEMMA SendBlockBInv ==
    ASSUME BInv, NEW b \in Blocks, NEW v \in Versions, SendBlock(b, v) PROVE BInv'
  <1> USE DEF SendBlock, kernelVars
  <1> DEFINE e == Job("apply", NoReq, b, [ver |-> v, id |-> 0], {})
  <1>0. Typed
      BY DEF BInv
  <1>1. v \in 0..(MaxChanges + 1) /\ v # 0 /\ version \in Int /\ v \in Int
      BY <1>0, BlockCacheAssumption DEF Versions, Typed
  <1>2. e \in JobType /\ e.pins = {} /\ e.op = "apply" /\ e.blk = b /\ e.rng.ver = v
      BY <1>1, MessageType DEF Job
  <1>3. wire' \in Seq(JobType) /\ Elems(wire') \subseteq Elems(wire) \cup {e}
      BY <1>0, <1>2, ElemsAppend DEF Typed
  <1>4. Current(e)
      BY <1>2 DEF BInv, ReadNewer, Current
  <1>5. readDone' \in [Blocks -> [Versions -> Nat]]
      BY <1>0 DEF Typed
  <1>6. ASSUME NEW x \in Blocks, NEW w \in Versions, readDone'[x][w] > 0 PROVE readDone[x][w] > 0
      BY <1>0, <1>6 DEF Typed
  <1>7. ReadNewer'
      BY <1>6 DEF BInv, ReadNewer, ghostVars
  <1> QED
      BY <1>0, <1>1, <1>2, <1>3, <1>4, <1>5, <1>7, ServerStep DEF Typed

LEMMA ModifyBInv == BInv /\ Modify => BInv'
  <1> SUFFICES ASSUME BInv, Modify PROVE BInv'
      OBVIOUS
  <1>1. version' \in Versions /\ version <= version'
      BY BlockCacheAssumption DEF BInv, Typed, Versions, Modify
  <1>2. ReadNewer'
      BY DEF BInv, ReadNewer, Modify, ghostVars
  <1> QED
      BY <1>1, <1>2, ServerStep DEF BInv, Typed, Modify, kernelVars

LEMMA SendNotifyBInv == BInv /\ SendNotifyInvalInode => BInv'
  <1> SUFFICES ASSUME BInv, SendNotifyInvalInode PROVE BInv'
      OBVIOUS
  <1> USE DEF SendNotifyInvalInode, kernelVars
  <1> DEFINE e == Job("inval", NoReq, 0, [ver |-> version, id |-> 0], {})
  <1>0. Typed
      BY DEF BInv
  <1>1. version \in 0..(MaxChanges + 1) /\ version # 0 /\ version \in Int /\ 0 \in Blocks
      BY <1>0, BlockCacheAssumption DEF Typed, Versions, Blocks
  <1>2. e \in JobType /\ e.pins = {} /\ e.op = "inval" /\ e.rng.ver = version
      BY <1>1, MessageType DEF Job
  <1>3. wire' \in Seq(JobType) /\ Elems(wire') \subseteq Elems(wire) \cup {e}
      BY <1>0, <1>2, ElemsAppend DEF Typed
  <1>4. Current(e)
      BY <1>1, <1>2 DEF Current
  <1>5. ReadNewer'
      BY DEF BInv, ReadNewer, ghostVars
  <1> QED
      BY <1>0, <1>1, <1>2, <1>3, <1>4, <1>5, ServerStep DEF Typed

LEMMA ReceiveBInv == BInv /\ Receive => BInv'
  <1> SUFFICES ASSUME BInv, Receive PROVE BInv'
      OBVIOUS
  <1> USE DEF Receive, ResponseReadFileIn, NotifyInvalInode, kernelVars, serverVars
  <1>0. Typed
      BY DEF BInv
  <1>1. /\ Head(wire) \in Elems(wire) /\ Head(wire) \in JobType
        /\ wire' \in Seq(JobType) /\ Elems(wire') \subseteq Elems(wire)
      BY <1>0, ElemsTail DEF Typed
  <1>2. queue' \in Seq(JobType) /\ Elems(queue') \subseteq Elems(queue) \cup {Head(wire)}
    <2>1. queue \in Seq(JobType)
        BY <1>0 DEF Typed
    <2>2. queue' = queue \/ queue' = Append(queue, Head(wire))
        OBVIOUS
    <2>3. CASE queue' = queue
        BY <2>1, <2>3
    <2>4. CASE queue' = Append(queue, Head(wire))
        BY <1>1, <2>1, <2>4, ElemsAppend
    <2> QED
        BY <2>2, <2>3, <2>4
  <1>3. Head(wire).pins = {}
      BY <1>1 DEF BInv, WireSound
  <1>4. ReadNewer'
      BY DEF BInv, ReadNewer, ghostVars
  <1>5. version \in Int
      BY <1>0, BlockCacheAssumption DEF Typed, Versions
  <1> QED
      BY <1>0, <1>1, <1>2, <1>3, <1>4, <1>5, ServerStep DEF Typed

LEMMA WriteFileCacheBInv == BInv /\ WriteFileCache => BInv'
  <1> SUFFICES ASSUME BInv, WriteFileCache PROVE BInv'
      OBVIOUS
  <1> USE DEF WriteFileCache, serverVars, kernelVars, ghostVars
  <1> DEFINE j == Head(queue)
  <1>0. Typed
      BY DEF BInv
  <1>1. queue # <<>> /\ j.op = "write"
      BY DEF Turn
  <1>2. /\ j \in Elems(queue) /\ j \in JobType
        /\ queue' \in Seq(JobType) /\ Elems(queue') \subseteq Elems(queue)
      BY <1>0, <1>1, ElemsTail DEF Typed
  <1>3. /\ j.blk \in Blocks /\ j.rng.ver \in 0..(MaxChanges + 1) /\ j.rng.ver # 0
        /\ j.blk \notin raced => j.rng.ver >= fresh
    <2>1. Current(j)
        BY <1>2 DEF BInv, QueueSound
    <2> QED
        BY <1>1, <1>2, <2>1 DEF JobType, Ranges, Current
  <1> HIDE DEF j
  <1>4. disk' = [disk EXCEPT ![j.blk] = j.rng.ver] /\ status' = [status EXCEPT ![j.blk] = "OnDisk"]
      BY DEF j
  <1>5. Typed'
      BY <1>0, <1>2, <1>3, <1>4 DEF Typed, Status, InMemory
  <1>6. Pins' \subseteq Pins
    <2>1. ASSUME NEW p \in Pins' PROVE p \in Pins
      <3>1. \/ \E x \in Elems(queue') : p \in x.pins
            \/ \E x \in diskJobs : p \in x.pins
          BY DEF Pins, Elems
      <3> QED
          BY <1>2, <3>1, PinsOfJobs
    <2> QED
        BY <2>1
  <1>7. QueueSound'
      BY <1>2, <1>6 DEF BInv, QueueSound, Current, Detached
  <1>8. WireSound' /\ ReadNewer'
      BY DEF BInv, WireSound, ReadNewer, Current
  <1>9. CacheCoherent'
      BY <1>0, <1>3, <1>4 DEF BInv, CacheCoherent, InMemory, Typed
  <1>10. StaleOnlyIfRaced'
      BY <1>0, <1>3, <1>4 DEF BInv, StaleOnlyIfRaced, InMemory, Typed
  <1> QED
      BY <1>5, <1>7, <1>8, <1>9, <1>10 DEF BInv

LEMMA InvalidateCacheLeafBInv == BInv /\ InvalidateCacheLeaf => BInv'
  <1> SUFFICES ASSUME BInv, InvalidateCacheLeaf PROVE BInv'
      OBVIOUS
  <1> USE DEF InvalidateCacheLeaf, serverVars
  <1>v. PICK v : v = Head(queue).rng.ver
      OBVIOUS
  <1>0. Typed
      BY DEF BInv
  <1>1. queue # <<>> /\ Head(queue).op = "inval"
      BY DEF Turn
  <1>2. /\ Head(queue) \in Elems(queue) /\ Head(queue) \in JobType
        /\ queue' \in Seq(JobType) /\ Elems(queue') \subseteq Elems(queue)
      BY <1>0, <1>1, ElemsTail DEF Typed
  <1>3. v \in 0..(MaxChanges + 1) /\ v <= version /\ v \in Int
    <2>1. Current(Head(queue))
        BY <1>2 DEF BInv, QueueSound
    <2>2. v \in 0..(MaxChanges + 1)
        BY <1>v, <1>2 DEF JobType, Ranges
    <2> QED
        BY <1>v, <1>1, <2>1, <2>2, BlockCacheAssumption DEF Current
  <1>4. fresh' = v /\ raced' = raced \cup {b \in Blocks : OnItsWay(b, v)}
      BY <1>v
  <1>5. \A b \in Blocks : data'[b] = NoRange /\ status'[b] = "NotFound"
      BY DEF InvalidatedStatus
  <1>6. Typed'
    <2>1. data' \in [Blocks -> Ranges] /\ status' \in [Blocks -> Status]
        BY BlockCacheAssumption DEF NoRange, Ranges, Status, InvalidatedStatus
    <2>2. InMemory' = {}
        BY <1>5 DEF InMemory
    <2> QED
        BY <1>0, <1>2, <1>3, <1>4, <2>1, <2>2 DEF Typed
  <1>7. Pins' \subseteq Pins
    <2>1. ASSUME NEW p \in Pins' PROVE p \in Pins
      <3>1. \/ \E x \in Elems(queue') : p \in x.pins
            \/ \E x \in diskJobs : p \in x.pins
          BY DEF Pins, Elems
      <3> QED
          BY <1>2, <3>1, PinsOfJobs
    <2> QED
        BY <2>1
  <1>8. ASSUME NEW x \in Elems(wire) \cup Elems(queue'), Current(x) PROVE Current(x)'
    <2>1. x \in JobType
        BY <1>0, <1>2, <1>8, ElemsInSeq DEF Typed
    <2>2. x.blk \in Blocks /\ x.rng.ver \in Int
        BY <2>1, BlockCacheAssumption DEF JobType, Ranges
    <2>3. ASSUME x.op \in {"apply", "write"}, x.blk \notin raced' PROVE x.rng.ver >= v
      <3>1. ~OnItsWay(x.blk, v)
          BY <1>4, <2>2, <2>3
      <3>2. \E s \in {wire, Tail(queue)} : \E k \in DOMAIN s : s[k] = x
          BY <1>8 DEF Elems
      <3>3. ~(x.rng.ver < v)
          BY <2>3, <3>1, <3>2 DEF OnItsWay
      <3> QED
          BY <1>3, <2>2, <3>3
    <2> QED
        BY <1>4, <1>8, <2>3 DEF Current
  <1>9. QueueSound'
    <2>1. ASSUME NEW x \in Elems(queue')
          PROVE  Current(x)' /\ Detached(x)' /\ (x.op = "read" => x.req \in DOMAIN want)
      <3>1. Current(x) /\ Detached(x) /\ (x.op = "read" => x.req \in DOMAIN want)
          BY <1>2 DEF BInv, QueueSound
      <3>2. x.blk \in Blocks
          BY <1>2, ElemsInSeq DEF JobType
      <3> QED
          BY <1>5, <1>7, <1>8, <3>1, <3>2 DEF Detached, NoRange
    <2> QED
        BY <2>1 DEF QueueSound
  <1>10. WireSound'
      BY <1>8 DEF BInv, WireSound
  <1>11. ReadNewer'
    <2>1. ASSUME NEW b \in Blocks \ raced', NEW w \in Versions, readDone[b][w] > 0 PROVE w >= v
      <3>1. ~OnItsWay(b, v) /\ w \in Int
          BY <1>4, BlockCacheAssumption DEF Versions
      <3> QED
          BY <1>3, <2>1, <3>1 DEF OnItsWay
    <2> QED
        BY <1>4, <2>1 DEF ReadNewer, Versions
  <1>12. CacheCoherent' /\ StaleOnlyIfRaced'
      BY <1>5 DEF BInv, CacheCoherent, StaleOnlyIfRaced, InMemory
  <1> QED
      BY <1>6, <1>9, <1>10, <1>11, <1>12 DEF BInv

\* The reads that are queued again: their pins are on Ranges that are in memory.
LEMMA ExecutedJobs ==
    ASSUME Typed, NEW s \in Seq(DOMAIN want), NEW b \in Blocks, NEW d \in [Blocks -> Ranges]
    PROVE  /\ Executed(s, b, d) \in Seq(JobType)
           /\ \A j \in Elems(Executed(s, b, d)) :
                 /\ j.op = "read" /\ j.req \in DOMAIN want
                 /\ \A p \in j.pins : p[1] \in Blocks /\ d[p[1]] # NoRange /\ p = <<p[1], d[p[1]].id>>
  <1> DEFINE P(k) == {<<c, d[c].id>> : c \in {x \in {b, want[s[k]][1]} : d[x] # NoRange}}
             run == Executed(s, b, d)
  <1>1. DOMAIN s = 1..Len(s) /\ Len(s) \in Nat
      OBVIOUS
  <1>2. DOMAIN want = 1..Len(want) /\ Len(want) \in Nat /\ want \in Seq(Blocks \X Blocks)
      BY DEF Typed
  <1>3. ASSUME NEW k \in DOMAIN s
        PROVE  /\ run[k] = ReadJob(s[k], P(k)) /\ run[k] \in JobType
               /\ run[k].op = "read" /\ run[k].req \in DOMAIN want /\ run[k].pins = P(k)
               /\ \A p \in P(k) : p[1] \in Blocks /\ d[p[1]] # NoRange /\ p = <<p[1], d[p[1]].id>>
    <2>1. s[k] \in DOMAIN want
        BY <1>3
    <2>2. want[s[k]] \in Blocks \X Blocks /\ s[k] \in Nat
        BY <1>2, <2>1
    <2>y. PICK y \in Blocks : y = want[s[k]][1]
        BY <2>2
    <2>3. P(k) \subseteq {<<b, d[b].id>>, <<y, d[y].id>>}
        BY <2>y
    <2>4. IsFiniteSet({<<b, d[b].id>>, <<y, d[y].id>>})
      <3>1. IsFiniteSet({<<b, d[b].id>>})
          BY FS_Singleton
      <3>2. IsFiniteSet({<<b, d[b].id>>} \cup {<<y, d[y].id>>})
          BY <3>1, FS_AddElement
      <3>3. {<<b, d[b].id>>} \cup {<<y, d[y].id>>} = {<<b, d[b].id>>, <<y, d[y].id>>}
          OBVIOUS
      <3> QED
          BY <3>2, <3>3
    <2>5. IsFiniteSet(P(k))
        BY <2>3, <2>4, FS_Subset
    <2>6. \A x \in Blocks : d[x].id \in Nat
        BY DEF Ranges
    <2>7. P(k) \in SUBSET (Blocks \X Nat)
        BY <2>3, <2>6, <2>y
    <2>8. P(k) \in PinSets
        BY <2>5, <2>7 DEF PinSets
    <2>9. run[k] = ReadJob(s[k], P(k))
        BY <1>3 DEF Executed
    <2>10. \A p \in P(k) : p[1] \in Blocks /\ d[p[1]] # NoRange /\ p = <<p[1], d[p[1]].id>>
        BY <2>y
    <2>11. run[k] \in JobType
        BY <2>2, <2>8, <2>9, ReadJobType
    <2> QED
        BY <2>1, <2>9, <2>10, <2>11 DEF ReadJob, Job
  <1>4. DOMAIN run = 1..Len(s) /\ run = [k \in 1..Len(s) |-> run[k]]
      BY <1>1 DEF Executed
  <1>5. run \in Seq(JobType)
    <2>1. \A k \in 1..Len(s) : run[k] \in JobType
        BY <1>1, <1>3
    <2> HIDE DEF run
    <2> QED
        BY <1>1, <1>4, <2>1
  <1>6. ASSUME NEW j \in Elems(run)
        PROVE  /\ j.op = "read" /\ j.req \in DOMAIN want
               /\ \A p \in j.pins : p[1] \in Blocks /\ d[p[1]] # NoRange /\ p = <<p[1], d[p[1]].id>>
    <2>1. PICK k \in DOMAIN run : j = run[k]
        BY DEF Elems
    <2> HIDE DEF run, P
    <2> QED
        BY <1>1, <1>3, <1>4, <2>1
  <1> QED
      BY <1>5, <1>6

\* The jobs that write what was evicted.
LEMMA WriteJobsType ==
    ASSUME NEW S \in SUBSET Blocks, NEW d \in [Blocks -> Ranges], \A b \in S : d[b].ver # 0,
           NEW s \in Ascending(S)
    PROVE  /\ WriteJobs(d, s) \in Seq(JobType)
           /\ \A j \in Elems(WriteJobs(d, s)) :
                 j.op = "write" /\ j.pins = {} /\ j.blk \in S /\ j.rng = d[j.blk]
  <1> DEFINE w == WriteJobs(d, s)
  <1>1. IsFiniteSet(S)
    <2>1. IsFiniteSet(Blocks)
        BY BlockCacheAssumption, FS_Interval DEF Blocks
    <2> QED
        BY <2>1, FS_Subset
  <1>2. Cardinality(S) \in Nat
      BY <1>1, FS_CardinalityType
  <1>3. s \in [1..Cardinality(S) -> S]
      BY DEF Ascending
  <1>4. ASSUME NEW k \in 1..Cardinality(S)
        PROVE  /\ w[k] \in JobType /\ w[k].op = "write" /\ w[k].pins = {}
               /\ w[k].blk \in S /\ w[k].rng = d[w[k].blk]
    <2>1. s[k] \in S /\ s[k] \in Blocks /\ d[s[k]] \in Ranges
        BY <1>3, <1>4
    <2>2. w[k] = Job("write", NoReq, s[k], d[s[k]], {})
        BY <1>3, <1>4 DEF WriteJobs
    <2> QED
        BY <2>1, <2>2, NoPins DEF Job, JobType, Ops, NoReq
  <1>5. DOMAIN w = 1..Cardinality(S) /\ w = [k \in 1..Cardinality(S) |-> w[k]]
      BY <1>3 DEF WriteJobs
  <1> HIDE DEF w
  <1>6. w \in Seq(JobType)
      BY <1>2, <1>4, <1>5
  <1>7. \A j \in Elems(w) : j.op = "write" /\ j.pins = {} /\ j.blk \in S /\ j.rng = d[j.blk]
      BY <1>4, <1>5 DEF Elems
  <1> QED
      BY <1>6, <1>7 DEF w

\* The blocks in memory with the new one.
LEMMA AddDataEffect ==
    ASSUME Typed, NEW b \in Blocks, NEW v \in 0..(MaxChanges + 1), v # 0
    PROVE  /\ AddData(b, v) \in [Blocks -> Ranges]
           /\ AddData(b, v)[b] # NoRange
           /\ b \in InMemory => AddData(b, v) = data
           /\ b \notin InMemory => AddData(b, v)[b] = [ver |-> v, id |-> FreshId(b)]
           /\ \A x \in Blocks : x # b => AddData(b, v)[x] = data[x]
           /\ \A x \in Blocks : AddData(b, v)[x] # NoRange => AddData(b, v)[x].ver # 0
  <1>0. [ver |-> v, id |-> FreshId(b)] \in Ranges
      BY FreshIdExists DEF Ranges
  <1>1. CASE b \in InMemory
      BY <1>1 DEF AddData, Typed, InMemory
  <1>2. CASE b \notin InMemory
    <2>1. AddData(b, v) = [data EXCEPT ![b] = [ver |-> v, id |-> FreshId(b)]]
        BY <1>2 DEF AddData
    <2>2. [ver |-> v, id |-> FreshId(b)] # NoRange
        BY DEF NoRange
    <2>3. AddData(b, v) \in [Blocks -> Ranges]
        BY <1>0, <2>1 DEF Typed
    <2>4. /\ AddData(b, v)[b] = [ver |-> v, id |-> FreshId(b)]
          /\ \A x \in Blocks : x # b => AddData(b, v)[x] = data[x]
        BY <2>1 DEF Typed
    <2>5. ASSUME NEW x \in Blocks, AddData(b, v)[x] # NoRange PROVE AddData(b, v)[x].ver # 0
      <3>1. CASE x = b
          BY <2>4, <3>1
      <3>2. CASE x # b
          BY <2>4, <2>5, <3>2 DEF Typed, InMemory
      <3> QED
          BY <3>1, <3>2
    <2> QED
        BY <1>2, <2>2, <2>3, <2>4, <2>5
  <1> QED
      BY <1>1, <1>2

LEMMA ApplyBlockCacheBInv == BInv /\ ApplyBlockCache => BInv'
  <1> SUFFICES ASSUME BInv, ApplyBlockCache PROVE BInv'
      OBVIOUS
  <1>0. Typed
      BY DEF BInv
  <1>1. queue # <<>> /\ Head(queue).op = "apply"
      BY DEF ApplyBlockCache, Turn
  <1>2. /\ Head(queue) \in Elems(queue) /\ Head(queue) \in JobType
        /\ Tail(queue) \in Seq(JobType) /\ Elems(Tail(queue)) \subseteq Elems(queue)
      BY <1>0, <1>1, ElemsTail DEF Typed
  <1> DEFINE b    == Head(queue).blk
             v    == Head(queue).rng.ver
             d    == AddData(b, v)
             run  == Executed(pending[b], b, d)
             pins == Pins \cup UNION {run[k].pins : k \in DOMAIN run}
             S    == Evicted(d, pins, total + Added(b))
  <1>3. /\ data' = [x \in Blocks |-> IF x \in S THEN NoRange ELSE d[x]]
        /\ status' = ExtractStatus(b, S)
        /\ pending' = TakePendingJobs(b)
        /\ \E s \in Ascending(S) : queue' = Tail(queue) \o run \o WriteJobs(d, s)
        /\ UNCHANGED <<version, readDone, wire, disk, diskJobs, want, fresh, raced>>
      BY Zenon DEF ApplyBlockCache, serverVars, kernelVars, ghostVars
  <1>b. b \in Blocks
      BY <1>2 DEF JobType
  <1>v. v \in 0..(MaxChanges + 1) /\ v # 0
      BY <1>1, <1>2 DEF JobType, Ranges
  <1>w. Current(Head(queue)) => (b \notin raced => v >= fresh)
      BY <1>1 DEF Current
  <1>p. pins = Pins \cup UNION {run[k].pins : k \in DOMAIN run}
      OBVIOUS
  <1>s. S = Evicted(d, pins, total + Added(b))
      OBVIOUS
  <1>d. d = AddData(b, v)
      OBVIOUS
  <1>r. run = Executed(pending[b], b, d)
      OBVIOUS
  <1> HIDE DEF b, v, d, run, pins, S
  <1>t. d \in [Blocks -> Ranges]
      BY <1>0, <1>b, <1>v, <1>d, AddDataEffect
  <1>4. /\ d[b] # NoRange
        /\ b \in InMemory => d = data
        /\ b \notin InMemory => d[b] = [ver |-> v, id |-> FreshId(b)]
        /\ \A x \in Blocks : x # b => d[x] = data[x]
        /\ \A x \in Blocks : d[x] # NoRange => d[x].ver # 0
      BY <1>0, <1>b, <1>v, <1>d, AddDataEffect
  <1>5. /\ S \in SUBSET Blocks
        /\ \A x \in S : d[x] # NoRange /\ <<x, d[x].id>> \notin pins
      BY <1>s DEF Evicted
  <1>6. /\ run \in Seq(JobType)
        /\ \A j \in Elems(run) :
              /\ j.op = "read" /\ j.req \in DOMAIN want
              /\ \A p \in j.pins : p[1] \in Blocks /\ d[p[1]] # NoRange /\ p = <<p[1], d[p[1]].id>>
    <2>1. pending[b] \in Seq(DOMAIN want)
        BY <1>0, <1>b DEF Typed
    <2> QED
        BY <1>0, <1>b, <1>r, <1>t, <2>1, ExecutedJobs
  <1>s2. PICK s \in Ascending(S) : queue' = Tail(queue) \o run \o WriteJobs(d, s)
      BY <1>3
  <1>7. /\ WriteJobs(d, s) \in Seq(JobType)
        /\ \A j \in Elems(WriteJobs(d, s)) :
              j.op = "write" /\ j.pins = {} /\ j.blk \in S /\ j.rng = d[j.blk]
    <2>1. \A x \in S : d[x].ver # 0
        BY <1>4, <1>5
    <2> QED
        BY <1>5, <1>t, <2>1, WriteJobsType
  <1>8. /\ queue' \in Seq(JobType)
        /\ \A j \in Elems(queue') : j \in Elems(queue) \/ j \in Elems(run) \/ j \in Elems(WriteJobs(d, s))
    <2>1. Tail(queue) \o run \in Seq(JobType)
          /\ Elems(Tail(queue) \o run) \subseteq Elems(Tail(queue)) \cup Elems(run)
        BY <1>2, <1>6, ElemsConcat
    <2>2. queue' = (Tail(queue) \o run) \o WriteJobs(d, s)
        BY <1>s2
    <2>3. queue' \in Seq(JobType)
          /\ Elems(queue') \subseteq Elems(Tail(queue) \o run) \cup Elems(WriteJobs(d, s))
        BY <1>7, <2>1, <2>2, ElemsConcat
    <2> QED
        BY <1>2, <2>1, <2>3
  <1>9. /\ Pins' \subseteq pins
        /\ \A p \in pins : \/ p \in Pins
                           \/ p[1] \in Blocks /\ d[p[1]] # NoRange /\ p = <<p[1], d[p[1]].id>>
    <2>1. pins = Pins \cup UNION {j.pins : j \in Elems(run)}
        BY <1>p DEF Elems
    <2>2. ASSUME NEW p \in Pins' PROVE p \in pins
      <3>1. \/ \E x \in Elems(queue') : p \in x.pins
            \/ \E x \in diskJobs : p \in x.pins
          BY <1>3 DEF Pins, Elems
      <3> QED
          BY <1>7, <1>8, <2>1, <3>1, PinsOfJobs
    <2> QED
        BY <1>6, <2>1, <2>2
  <1>10. /\ DOMAIN data' = Blocks
         /\ \A x \in Blocks : data'[x] = IF x \in S THEN NoRange ELSE d[x]
         /\ data' \in [Blocks -> Ranges]
    <2>1. NoRange \in Ranges
        BY BlockCacheAssumption DEF NoRange, Ranges
    <2> QED
        BY <1>3, <1>t, <2>1
  <1>11. Typed'
    <2>1. \A x \in InMemory' : data'[x].ver # 0
        BY <1>4, <1>10 DEF InMemory
    <2>2. status' \in [Blocks -> Status]
        BY <1>0, <1>3 DEF ExtractStatus, Status, Typed
    <2>3. pending' \in [Blocks -> Seq(DOMAIN want)]
        BY <1>0, <1>3, <1>b DEF TakePendingJobs, Typed
    <2> QED
        BY <1>0, <1>3, <1>8, <1>10, <2>1, <2>2, <2>3 DEF Typed
  <1>12. ASSUME NEW x \in Blocks, d[x] # NoRange, x \notin raced PROVE d[x].ver >= fresh
    <2>1. CASE x \in InMemory
      <3>1. d[x] = data[x]
          BY <1>4, <2>1
      <3> QED
          BY <1>12, <2>1, <3>1 DEF BInv, StaleOnlyIfRaced
    <2>2. CASE x \notin InMemory
      <3>1. x = b /\ d[x].ver = v
          BY <1>4, <1>12, <2>2 DEF InMemory
      <3>2. Current(Head(queue))
          BY <1>2 DEF BInv, QueueSound
      <3> QED
          BY <1>w, <1>12, <3>1, <3>2
    <2> QED
        BY <2>1, <2>2
  <1>13. ASSUME NEW j \in Elems(queue), j.op = "write", j.blk \in Blocks, d[j.blk] # NoRange
         PROVE  d[j.blk].id # j.rng.id
    <2>1. CASE j.blk \in InMemory
      <3>0. d[j.blk] = data[j.blk]
          BY <1>4, <1>13, <2>1
      <3>1. Detached(j) /\ d[j.blk] = data[j.blk]
          BY <3>0 DEF BInv, QueueSound
      <3> QED
          BY <1>13, <2>1, <3>1 DEF Detached, InMemory
    <2>2. CASE j.blk \notin InMemory
      <3>1. j.blk = b /\ d[j.blk].id = FreshId(b)
          BY <1>4, <1>13, <2>2 DEF InMemory
      <3>2. j.rng.id \in RangeIds(b)
          BY <1>13, <3>1 DEF RangeIds, Elems
      <3> QED
          BY <1>0, <1>b, <3>1, <3>2, FreshIdExists
    <2> QED
        BY <2>1, <2>2
  <1>14. QueueSound'
    <2> SUFFICES ASSUME NEW j \in Elems(queue')
                 PROVE  Current(j)' /\ Detached(j)' /\ (j.op = "read" => j.req \in DOMAIN want')
        BY DEF QueueSound
    <2>1. CASE j \in Elems(run)
        BY <1>3, <1>6, <2>1 DEF Current, Detached
    <2>2. CASE j \in Elems(WriteJobs(d, s))
      <3>1. j.op = "write" /\ j.blk \in S /\ j.rng = d[j.blk] /\ j.blk \in Blocks /\ d[j.blk] # NoRange
          BY <1>5, <1>7, <2>2
      <3>2. Current(j)'
          BY <1>3, <1>12, <3>1 DEF Current
      <3>3. <<j.blk, j.rng.id>> \notin Pins'
          BY <1>5, <1>9, <3>1
      <3> QED
          BY <1>10, <3>1, <3>2, <3>3 DEF Detached
    <2>3. CASE j \in Elems(queue)
      <3>1. Current(j) /\ Detached(j) /\ (j.op = "read" => j.req \in DOMAIN want)
          BY <2>3 DEF BInv, QueueSound
      <3>2. Current(j)'
          BY <1>3, <3>1 DEF Current
      <3>3. j.blk \in Blocks
          BY <1>0, <2>3, ElemsInSeq DEF Typed, JobType
      <3>4. ASSUME j.op = "write" PROVE <<j.blk, j.rng.id>> \notin Pins'
          BY <1>9, <1>13, <2>3, <3>1, <3>3, <3>4 DEF Detached
      <3>5. ASSUME j.op = "write", data'[j.blk] # NoRange PROVE data'[j.blk].id # j.rng.id
          BY <1>10, <1>13, <2>3, <3>3, <3>5
      <3> QED
          BY <1>3, <3>1, <3>2, <3>4, <3>5 DEF Detached
    <2> QED
        BY <1>8, <2>1, <2>2, <2>3
  <1>15. WireSound' /\ ReadNewer'
      BY <1>3 DEF BInv, WireSound, ReadNewer, Current
  <1>16. \A x \in Blocks : status'[x] = IF x \in S THEN "NotFound"
                                        ELSE IF x = b /\ b \notin InMemory THEN "InCache" ELSE status[x]
      BY <1>3 DEF ExtractStatus
  <1>17. \A x \in Blocks : x \in InMemory' <=> x \notin S /\ (x = b \/ x \in InMemory)
      BY <1>4, <1>10 DEF InMemory
  <1>18. CacheCoherent'
    <2>1. ASSUME NEW x \in Blocks
          PROVE  /\ status'[x] = "InCache" => x \in InMemory'
                 /\ x \in InMemory' => status'[x] \in {"InCache", "OnDisk"}
                 /\ status'[x] = "OnDisk" => disk[x] # 0
        BY <1>16, <1>17 DEF BInv, CacheCoherent
    <2> QED
        BY <1>3, <2>1 DEF BInv, CacheCoherent
  <1>19. StaleOnlyIfRaced'
    <2>1. ASSUME NEW x \in Blocks \ raced
          PROVE  /\ x \in InMemory' => data'[x].ver >= fresh
                 /\ status'[x] = "OnDisk" => disk[x] >= fresh
      <3>1. x \in InMemory' => data'[x] = d[x] /\ d[x] # NoRange
          BY <1>10 DEF InMemory
      <3>2. status'[x] = "OnDisk" => status[x] = "OnDisk"
          BY <1>16
      <3> QED
          BY <1>12, <3>1, <3>2 DEF BInv, StaleOnlyIfRaced
    <2> QED
        BY <1>3, <2>1 DEF StaleOnlyIfRaced
  <1> QED
      BY <1>11, <1>14, <1>15, <1>18, <1>19 DEF BInv

LEMMA StutterBInv == BInv /\ UNCHANGED vars => BInv'
  <1> SUFFICES ASSUME BInv, UNCHANGED vars PROVE BInv'
      OBVIOUS
  <1> USE DEF vars, serverVars, cacheVars, kernelVars, ghostVars
  <1>1. ReadNewer'
      BY DEF BInv, ReadNewer
  <1>2. version \in Int
      BY BlockCacheAssumption DEF BInv, Typed, Versions
  <1> QED
      BY <1>1, <1>2, ServerStep DEF BInv, Typed

-----------------------------------------------------------------------------

\* Every job, on whatever thread, keeps the invariant.
LEMMA NextBInv == BInv /\ [Next]_vars => BInv'
  <1> SUFFICES ASSUME BInv, [Next]_vars PROVE BInv'
      OBVIOUS
  <1>1. CASE Kernel
      BY <1>1, FuseReadBInv DEF Kernel
  <1>2. CASE Modify
      BY <1>2, ModifyBInv
  <1>3. CASE Workers
      BY <1>3, SendNotifyBInv, FuseReadFileBInv, ApplyBlockCacheBInv, WriteFileCacheBInv,
         InvalidateCacheLeafBInv, ResponseReadFileBInv, SendBlockBInv, ExecuteDiskBInv, ReceiveBInv
         DEF Workers, Shard, ServerDisk, ClientDisk
  <1>4. CASE UNCHANGED vars
      BY <1>4, StutterBInv
  <1> QED
      BY <1>1, <1>2, <1>3, <1>4 DEF Next

LEMMA BInvAlways == Spec => []BInv
  BY InitBInv, NextBInv, PTL DEF Spec

LEMMA BInvPinned == BInv => PinnedNotEvicted
  BY DEF BInv, QueueSound, Detached, PinnedNotEvicted, Elems

\* Leaf's map of pieces agrees with what is in memory and in the cache file after any
\* sequence of reads, answers, evictions, writes and invalidations.
THEOREM CacheStaysCoherent == Spec => []CacheCoherent
  <1>1. BInv => CacheCoherent
      BY DEF BInv
  <1> QED
      BY <1>1, BInvAlways, PTL

\* Leaf::ExtractBlock never takes a Range that a queued read has pinned.
THEOREM PinsRespected == Spec => []PinnedNotEvicted
  BY BInvAlways, BInvPinned, PTL

\* InvalidateCacheLeafJob leaves no way for older data to stay, but for data that had
\* been read and was not yet applied or written when it ran.
THEOREM StaleOnlyByRace == Spec => []StaleOnlyIfRaced
  <1>1. BInv => StaleOnlyIfRaced
      BY DEF BInv
  <1> QED
      BY <1>1, BInvAlways, PTL

-----------------------------------------------------------------------------
(* Counting: where the reads, the answers and the packets are. *)

\* The positions of a queue where a member of T is.
Hits(s, T) == {k \in DOMAIN s : s[k] \in T}

ReadsOf(r)   == {j \in JobType : j.op = "read" /\ j.req = r}
AnswersTo(b) == {j \in JobType : j.op = "apply" /\ j.blk = b}

\* The three kinds of places a read can be in.
OnDiskThread(r) == {j \in diskJobs : j.req = r}
AtBlock(r)      == {p \in Blocks \X Nat : p[2] \in DOMAIN pending[p[1]] /\ pending[p[1]][p[2]] = r}
PlacesOf(r) == Cardinality(Hits(queue, ReadsOf(r))) + Cardinality(OnDiskThread(r))
                   + Cardinality(AtBlock(r))

\* The answers for a block that are still to come, wherever they are.
ReadBlocks(b) == {p \in Versions \X Nat : p[2] \in 1..readDone[b][p[1]]}
ToCome(b) == asked[b] + Cardinality(ReadBlocks(b)) + Cardinality(Hits(wire, AnswersTo(b)))
                 + Cardinality(Hits(queue, AnswersTo(b)))

CTyped ==
    /\ notices \in Nat /\ failed \subseteq Blocks /\ errors \in 0..MaxErrors
    /\ asked \in [Blocks -> Nat] /\ raced \subseteq Blocks /\ total \in Nat
    /\ reply \in Seq(SUBSET Nat) /\ Len(reply) = Len(want) /\ waitFor \subseteq DOMAIN want
    /\ \A j \in diskJobs : j.req \in DOMAIN want /\ j.blks # {} /\ j.vers \subseteq Nat

Held == \A r \in DOMAIN want : PlacesOf(r) = IF reply[r] = {} THEN 1 ELSE 0

\* Nobody waits for a block that is not asked for.
Awaited == \A b \in Blocks : status[b] = "InFlight" \/ pending[b] # <<>> => Expected(b) \/ b \in failed

\* Before the first invalidation there is at most one answer to come for a block, and
\* none for one that is in memory or that nobody has asked for.
OneAnswer ==
    fresh = 0 => \A b \in Blocks : /\ ToCome(b) <= 1
                                   /\ b \in InMemory \/ status[b] = "NotFound" => ToCome(b) = 0

CInv == BInv /\ CTyped /\ Held /\ Awaited /\ OneAnswer /\ CountsCover

-----------------------------------------------------------------------------
(* How the operations on queues change what is counted. *)

\* One or none.
Bit(P) == IF P THEN 1 ELSE 0

LEMMA SameSize ==
    ASSUME NEW S, NEW T, IsFiniteSet(S), NEW f \in [S -> T],
           \A x, y \in S : f[x] = f[y] => x = y, \A t \in T : \E x \in S : f[x] = t
    PROVE  IsFiniteSet(T) /\ Cardinality(T) = Cardinality(S) /\ Cardinality(T) \in Nat
  <1>1. f \in Bijection(S, T)
      BY DEF Bijection, Injection, Surjection, IsInjective
  <1>2. ExistsBijection(S, T)
      BY <1>1 DEF ExistsBijection
  <1>3. IsFiniteSet(T) /\ Cardinality(T) = Cardinality(S)
      BY <1>2, FS_Bijection
  <1> QED
      BY <1>3, FS_CardinalityType

LEMMA Disjoint ==
    ASSUME NEW S, NEW T, IsFiniteSet(S), IsFiniteSet(T), S \cap T = {}
    PROVE  /\ IsFiniteSet(S \cup T)
           /\ Cardinality(S \cup T) = Cardinality(S) + Cardinality(T)
           /\ Cardinality(S) \in Nat /\ Cardinality(T) \in Nat
  <1>1. Cardinality(S) \in Nat /\ Cardinality(T) \in Nat
      BY FS_CardinalityType
  <1>2. /\ IsFiniteSet(S \cup T)
        /\ Cardinality(S \cup T) = Cardinality(S) + Cardinality(T) - Cardinality(S \cap T)
      BY FS_Union
  <1>3. Cardinality(S \cap T) = 0
      BY FS_EmptySet
  <1> QED
      BY <1>1, <1>2, <1>3

LEMMA HitsFinite ==
    ASSUME NEW S, NEW s \in Seq(S), NEW T
    PROVE  IsFiniteSet(Hits(s, T)) /\ Cardinality(Hits(s, T)) \in Nat
  <1>1. DOMAIN s = 1..Len(s) /\ Len(s) \in Nat
      OBVIOUS
  <1>2. IsFiniteSet(DOMAIN s)
      BY <1>1, FS_Interval
  <1>3. Hits(s, T) \in SUBSET DOMAIN s
      BY DEF Hits
  <1>4. IsFiniteSet(Hits(s, T))
      BY <1>2, <1>3, FS_Subset
  <1> QED
      BY <1>4, FS_CardinalityType

LEMMA HitsEmpty == \A T : Cardinality(Hits(<<>>, T)) = 0
  <1>1. \A T : Hits(<<>>, T) = {}
      BY DEF Hits
  <1> QED
      BY <1>1, FS_EmptySet

LEMMA HitsConcat ==
    ASSUME NEW S, NEW s \in Seq(S), NEW t \in Seq(S), NEW T
    PROVE  Cardinality(Hits(s \o t, T)) = Cardinality(Hits(s, T)) + Cardinality(Hits(t, T))
  <1> DEFINE n == Len(s)
             H == Hits(t, T)
             M == {k + n : k \in H}
             f == [k \in H |-> k + n]
  <1>1. /\ n \in Nat /\ DOMAIN s = 1..n /\ DOMAIN t = 1..Len(t) /\ Len(t) \in Nat
        /\ DOMAIN (s \o t) = 1..(n + Len(t))
        /\ \A k \in 1..n : (s \o t)[k] = s[k]
        /\ \A k \in 1..Len(t) : (s \o t)[k + n] = t[k]
      OBVIOUS
  <1>2. H \subseteq 1..Len(t)
      BY <1>1 DEF Hits
  <1>3. IsFiniteSet(H) /\ IsFiniteSet(Hits(s, T))
      BY HitsFinite
  <1>4. Hits(s \o t, T) = Hits(s, T) \cup M
    <2>1. ASSUME NEW k \in Hits(s \o t, T) PROVE k \in Hits(s, T) \cup M
      <3>1. k \in 1..(n + Len(t)) /\ (s \o t)[k] \in T
          BY <1>1 DEF Hits
      <3>2. CASE k <= n
          BY <1>1, <3>1, <3>2 DEF Hits
      <3>3. CASE k > n
        <4>1. k - n \in 1..Len(t) /\ (k - n) + n = k
            BY <1>1, <3>1, <3>3
        <4>2. t[k - n] \in T
            BY <1>1, <3>1, <4>1
        <4>3. k - n \in H
            BY <1>1, <4>1, <4>2 DEF Hits
        <4> QED
            BY <4>1, <4>3
      <3> QED
          BY <1>1, <3>1, <3>2, <3>3
    <2>2. ASSUME NEW k \in Hits(s, T) PROVE k \in Hits(s \o t, T)
        BY <1>1 DEF Hits
    <2>3. ASSUME NEW k \in H PROVE k + n \in Hits(s \o t, T)
      <3>1. k \in 1..Len(t) /\ t[k] \in T
          BY <1>1 DEF Hits
      <3>2. k + n \in 1..(n + Len(t)) /\ (s \o t)[k + n] = t[k]
          BY <1>1, <3>1
      <3> QED
          BY <1>1, <3>1, <3>2 DEF Hits
    <2> HIDE DEF H
    <2> QED
        BY <2>1, <2>2, <2>3
  <1> HIDE DEF H, n
  <1>5. IsFiniteSet(M) /\ Cardinality(M) = Cardinality(H)
    <2>1. f \in [H -> M] /\ \A m \in M : \E k \in H : f[k] = m
        OBVIOUS
    <2>2. \A x, y \in H : f[x] = f[y] => x = y
        BY <1>1, <1>2
    <2> HIDE DEF f, M
    <2> QED
        BY <1>3, <2>1, <2>2, SameSize
  <1>6. Hits(s, T) \cap M = {}
      BY <1>1, <1>2 DEF Hits
  <1>7. Cardinality(Hits(s, T) \cup M) = Cardinality(Hits(s, T)) + Cardinality(M)
    <2> HIDE DEF M
    <2> QED
        BY <1>3, <1>5, <1>6, Disjoint
  <1> QED
      BY <1>4, <1>5, <1>7 DEF H

LEMMA HitsOne ==
    ASSUME NEW e, NEW T PROVE Cardinality(Hits(<<e>>, T)) = Bit(e \in T)
  <1>1. Hits(<<e>>, T) = IF e \in T THEN {1} ELSE {}
      BY DEF Hits
  <1> QED
      BY <1>1, FS_Singleton, FS_EmptySet DEF Bit

LEMMA HitsAppend ==
    ASSUME NEW S, NEW s \in Seq(S), NEW e \in S, NEW T
    PROVE  Cardinality(Hits(Append(s, e), T)) = Cardinality(Hits(s, T)) + Bit(e \in T)
  <1>1. Append(s, e) = s \o <<e>> /\ <<e>> \in Seq(S)
      OBVIOUS
  <1>2. Cardinality(Hits(s \o <<e>>, T)) = Cardinality(Hits(s, T)) + Cardinality(Hits(<<e>>, T))
      BY <1>1, HitsConcat
  <1>3. Cardinality(Hits(<<e>>, T)) = Bit(e \in T)
      BY HitsOne
  <1> QED
      BY <1>1, <1>2, <1>3, Zenon

LEMMA HitsTail ==
    ASSUME NEW S, NEW s \in Seq(S), s # <<>>, NEW T
    PROVE  Cardinality(Hits(s, T)) = Cardinality(Hits(Tail(s), T)) + Bit(Head(s) \in T)
  <1> DEFINE w == <<Head(s)>> \o Tail(s)
  <1>1. s = w /\ <<Head(s)>> \in Seq(S) /\ Tail(s) \in Seq(S)
      OBVIOUS
  <1>2. Cardinality(Hits(w, T)) = Cardinality(Hits(<<Head(s)>>, T)) + Cardinality(Hits(Tail(s), T))
      BY <1>1, HitsConcat
  <1>3. Cardinality(Hits(<<Head(s)>>, T)) = Bit(Head(s) \in T)
      BY HitsOne
  <1>4. Cardinality(Hits(Tail(s), T)) \in Nat /\ Bit(Head(s) \in T) \in Nat
      BY <1>1, HitsFinite DEF Bit
  <1> HIDE DEF w
  <1>5. \A x, y \in Nat : x + y = y + x
      OBVIOUS
  <1>6. Cardinality(Hits(w, T)) = Cardinality(Hits(Tail(s), T)) + Bit(Head(s) \in T)
      BY <1>2, <1>3, <1>4, <1>5
  <1>7. Hits(s, T) = Hits(w, T)
      BY <1>1, Zenon
  <1> QED
      BY <1>6, <1>7, Zenon

LEMMA BlocksFinite == IsFiniteSet(Blocks)
  <1>1. 0 \in Int /\ NBlocks - 1 \in Int
      BY BlockCacheAssumption
  <1> QED
      BY <1>1, FS_Interval DEF Blocks

LEMMA PacketsFinite ==
    ASSUME NEW S \in SUBSET Blocks
    PROVE  IsFiniteSet(Packets(S)) /\ Weight(S) \in Nat
  <1> DEFINE I == 1..(FullPackets + LastPackets)
  <1>1. IsFiniteSet(I)
    <2>1. 1 \in Int /\ FullPackets + LastPackets \in Int
        BY BlockCacheAssumption
    <2> QED
        BY <2>1, FS_Interval
  <1>2. IsFiniteSet(S)
      BY BlocksFinite, FS_Subset
  <1> HIDE DEF I
  <1>3. IsFiniteSet(S \X I)
      BY <1>1, <1>2, FS_Product
  <1>4. Packets(S) \in SUBSET (S \X I)
      BY DEF Packets, I
  <1>5. IsFiniteSet(Packets(S))
      BY <1>3, <1>4, FS_Subset
  <1> QED
      BY <1>5, FS_CardinalityType DEF Weight

LEMMA WeightUnion ==
    ASSUME NEW S \in SUBSET Blocks, NEW T \in SUBSET Blocks, S \cap T = {}
    PROVE  Weight(S \cup T) = Weight(S) + Weight(T)
  <1>1. Packets(S \cup T) = Packets(S) \cup Packets(T)
      BY DEF Packets
  <1>2. Packets(S) \cap Packets(T) = {}
      BY DEF Packets
  <1>3. IsFiniteSet(Packets(S)) /\ IsFiniteSet(Packets(T))
      BY PacketsFinite
  <1> QED
      BY <1>1, <1>2, <1>3, Disjoint DEF Weight

LEMMA WeightOne ==
    ASSUME NEW b \in Blocks PROVE Weight({b}) = PacketsOf(b) /\ PacketsOf(b) \in Nat \ {0}
  <1> DEFINE n == PacketsOf(b)
             I == 1..n
  <1>1. n \in Nat \ {0} /\ n <= FullPackets + LastPackets
      BY BlockCacheAssumption DEF PacketsOf
  <1>2. Packets({b}) = {b} \X I
    <2>1. \A k \in 1..(FullPackets + LastPackets) : k <= n <=> k \in I
        BY <1>1, BlockCacheAssumption
    <2>2. \A k \in I : k \in 1..(FullPackets + LastPackets)
        BY <1>1, BlockCacheAssumption
    <2> HIDE DEF I
    <2> QED
        BY <2>1, <2>2 DEF Packets
  <1>3. IsFiniteSet(I) /\ Cardinality(I) = n
    <2>1. /\ IsFiniteSet(1..n) /\ Cardinality(1..n) = IF 1 > n THEN 0 ELSE n - 1 + 1
      <3>1. 1 \in Int /\ n \in Int
          BY <1>1
      <3> QED
          BY <3>1, FS_Interval
    <2> QED
        BY <1>1, <2>1
  <1> HIDE DEF I, n
  <1>4. IsFiniteSet({b}) /\ Cardinality({b}) = 1
      BY FS_Singleton
  <1>5. Cardinality({b} \X I) = 1 * n
      BY <1>3, <1>4, FS_Product
  <1> QED
      BY <1>1, <1>2, <1>5 DEF Weight, n

\* The jobs of a queue, exactly.
LEMMA ElemsAppendIs ==
    ASSUME NEW S, NEW s \in Seq(S), NEW e \in S
    PROVE  Elems(Append(s, e)) = Elems(s) \cup {e}
  <1>1. /\ DOMAIN Append(s, e) = 1..(Len(s) + 1) /\ DOMAIN s = 1..Len(s) /\ Len(s) \in Nat
        /\ \A k \in 1..Len(s) : Append(s, e)[k] = s[k]
        /\ Append(s, e)[Len(s) + 1] = e
      OBVIOUS
  <1>2. \A k \in 1..(Len(s) + 1) : k \in 1..Len(s) \/ k = Len(s) + 1
      BY <1>1
  <1>3. \A k \in 1..Len(s) : k \in 1..(Len(s) + 1)
      BY <1>1
  <1>4. Len(s) + 1 \in 1..(Len(s) + 1)
      BY <1>1
  <1> QED
      BY <1>1, <1>2, <1>3, <1>4 DEF Elems

LEMMA ElemsTailIs ==
    ASSUME NEW S, NEW s \in Seq(S), s # <<>>
    PROVE  Elems(s) = {Head(s)} \cup Elems(Tail(s))
  <1>1. /\ DOMAIN s = 1..Len(s) /\ Len(s) \in Nat /\ Len(s) >= 1 /\ Head(s) = s[1]
        /\ DOMAIN Tail(s) = 1..(Len(s) - 1)
        /\ \A k \in 1..(Len(s) - 1) : Tail(s)[k] = s[k + 1]
      OBVIOUS
  <1>2. ASSUME NEW k \in 1..Len(s) PROVE s[k] \in {Head(s)} \cup Elems(Tail(s))
    <2>1. CASE k = 1
        BY <1>1, <2>1
    <2>2. CASE k # 1
      <3>1. k - 1 \in 1..(Len(s) - 1) /\ (k - 1) + 1 = k
          BY <1>1, <2>2
      <3>2. Tail(s)[k - 1] = s[k]
          BY <1>1, <3>1
      <3> QED
          BY <1>1, <3>1, <3>2 DEF Elems
    <2> QED
        BY <2>1, <2>2
  <1>3. ASSUME NEW k \in 1..(Len(s) - 1) PROVE Tail(s)[k] \in Elems(s)
    <2>1. k + 1 \in 1..Len(s)
        BY <1>1
    <2> QED
        BY <1>1, <2>1 DEF Elems
  <1>4. Head(s) \in Elems(s)
      BY <1>1 DEF Elems
  <1>5. \A x \in Elems(s) : x \in {Head(s)} \cup Elems(Tail(s))
      BY <1>1, <1>2 DEF Elems
  <1>6. \A x \in Elems(Tail(s)) : x \in Elems(s)
      BY <1>1, <1>3 DEF Elems
  <1> QED
      BY <1>4, <1>5, <1>6

LEMMA ElemsConcatIs ==
    ASSUME NEW S, NEW s \in Seq(S), NEW t \in Seq(S)
    PROVE  Elems(s) \subseteq Elems(s \o t) /\ Elems(t) \subseteq Elems(s \o t)
  <1>1. /\ DOMAIN (s \o t) = 1..(Len(s) + Len(t)) /\ DOMAIN s = 1..Len(s) /\ DOMAIN t = 1..Len(t)
        /\ Len(s) \in Nat /\ Len(t) \in Nat
        /\ \A k \in 1..Len(s) : (s \o t)[k] = s[k]
        /\ \A k \in 1..Len(t) : (s \o t)[k + Len(s)] = t[k]
      OBVIOUS
  <1>2. \A k \in 1..Len(s) : k \in 1..(Len(s) + Len(t))
      BY <1>1
  <1>3. \A k \in 1..Len(t) : k + Len(s) \in 1..(Len(s) + Len(t))
      BY <1>1
  <1> QED
      BY <1>1, <1>2, <1>3 DEF Elems

\* Expected in terms of the jobs on the wire and on the queue.
Coming(b) == {j \in Elems(wire) \cup Elems(queue) : j.op = "apply" /\ j.blk = b}

LEMMA ExpectedIs ==
    \A b : Expected(b) <=> asked[b] > 0 \/ (\E v \in Versions : readDone[b][v] > 0) \/ Coming(b) # {}
  BY DEF Expected, Coming, Elems

LEMMA ReadBlocksFinite ==
    ASSUME Typed, NEW b \in Blocks
    PROVE  IsFiniteSet(ReadBlocks(b)) /\ Cardinality(ReadBlocks(b)) \in Nat
  <1> DEFINE f == [v \in Versions |-> {v} \X (1..readDone[b][v])]
             U == {f[v] : v \in Versions}
  <1>1. IsFiniteSet(Versions)
    <2>1. 1 \in Int /\ MaxChanges + 1 \in Int
        BY BlockCacheAssumption
    <2> QED
        BY <2>1, FS_Interval DEF Versions
  <1>2. ASSUME NEW v \in Versions PROVE IsFiniteSet(f[v])
    <2>1. readDone[b][v] \in Nat
        BY DEF Typed
    <2>f. 1 \in Int /\ readDone[b][v] \in Int
        BY <2>1
    <2>2. IsFiniteSet(1..readDone[b][v]) /\ IsFiniteSet({v})
        BY <2>f, FS_Interval, FS_Singleton
    <2>3. IsFiniteSet({v} \X (1..readDone[b][v]))
        BY <2>2, FS_Product
    <2> QED
        BY <2>3
  <1>3. IsFiniteSet(U)
    <2>1. DOMAIN f = Versions /\ f = [v \in Versions |-> f[v]]
        OBVIOUS
    <2> HIDE DEF f
    <2> QED
        BY <1>1, <2>1, ImageFinite
  <1>4. IsFiniteSet(UNION U)
    <2> HIDE DEF f
    <2> QED
        BY <1>2, <1>3, FS_UNION
  <1>5. ReadBlocks(b) \in SUBSET UNION U
      BY DEF ReadBlocks
  <1>6. IsFiniteSet(ReadBlocks(b))
    <2> HIDE DEF U
    <2> QED
        BY <1>4, <1>5, FS_Subset
  <1> QED
      BY <1>6, FS_CardinalityType

\* The summands of ToCome are numbers.
LEMMA ToComeType ==
    ASSUME Typed, CTyped, NEW b \in Blocks
    PROVE  /\ asked[b] \in Nat /\ Cardinality(ReadBlocks(b)) \in Nat
           /\ Cardinality(Hits(wire, AnswersTo(b))) \in Nat /\ Cardinality(Hits(queue, AnswersTo(b))) \in Nat
           /\ ToCome(b) \in Nat
  <1>1. asked[b] \in Nat /\ wire \in Seq(JobType) /\ queue \in Seq(JobType)
      BY DEF Typed, CTyped
  <1>2. Cardinality(ReadBlocks(b)) \in Nat
      BY ReadBlocksFinite
  <1>3. Cardinality(Hits(wire, AnswersTo(b))) \in Nat /\ Cardinality(Hits(queue, AnswersTo(b))) \in Nat
      BY <1>1, HitsFinite
  <1> QED
      BY <1>1, <1>2, <1>3 DEF ToCome

\* One summand of four gains or loses one.
LEMMA FourSum ==
    ASSUME NEW a \in Nat, NEW r \in Nat, NEW w \in Nat, NEW q \in Nat
    PROVE  /\ (a + 1) + r + w + q = (a + r + w + q) + 1
           /\ a >= 1 => (a - 1) + r + w + q = (a + r + w + q) - 1
           /\ a >= 1 => (a - 1) + (r + 1) + w + q = a + r + w + q
           /\ r >= 1 => a + (r - 1) + (w + 1) + q = a + r + w + q
           /\ w >= 1 => a + r + (w - 1) + (q + 1) = a + r + w + q
           /\ q >= 1 => a + r + w + (q - 1) = (a + r + w + q) - 1
           /\ a + r + w + q >= q /\ a + r + w + q >= a
  OBVIOUS

\* A step of the server or of the network moves an answer, or drops it.
LEMMA ServerCInv ==
    ASSUME CInv, BInv', CTyped', UNCHANGED <<cacheVars, diskJobs, kernelVars, ghostVars>>,
           \A r \in DOMAIN want :
              Cardinality(Hits(queue', ReadsOf(r))) = Cardinality(Hits(queue, ReadsOf(r))),
           \A b \in Blocks : ToCome(b)' = ToCome(b) \/ (ToCome(b) > 0 /\ ToCome(b)' = ToCome(b) - 1),
           failed \subseteq failed',
           \A b \in Blocks : Expected(b) => Expected(b)' \/ b \in failed'
    PROVE  CInv'
  <1>1. UNCHANGED <<data, status, pending, total, disk, diskJobs, want, reply, waitFor, fresh, raced>>
      BY DEF cacheVars, kernelVars, ghostVars
  <1>2. Held'
      BY <1>1 DEF CInv, Held, PlacesOf, OnDiskThread, AtBlock
  <1>3. Awaited'
      BY <1>1 DEF CInv, Awaited
  <1>4. OneAnswer'
    <2> SUFFICES ASSUME fresh' = 0, NEW b \in Blocks
                 PROVE  /\ ToCome(b)' <= 1
                        /\ b \in InMemory' \/ status'[b] = "NotFound" => ToCome(b)' = 0
        BY DEF OneAnswer
    <2>1. /\ ToCome(b) \in Nat /\ ToCome(b) <= 1
          /\ b \in InMemory \/ status[b] = "NotFound" => ToCome(b) = 0
        BY <1>1, ToComeType DEF CInv, BInv, OneAnswer
    <2>2. b \in InMemory' <=> b \in InMemory
        BY <1>1 DEF InMemory
    <2>3. ToCome(b)' \in Nat /\ ToCome(b)' <= ToCome(b)
        BY <2>1
    <2> QED
        BY <1>1, <2>1, <2>2, <2>3
  <1>5. CountsCover'
    <2>1. Weight(InMemory)' = Weight(InMemory)
        BY <1>1 DEF InMemory, Weight, Packets
    <2> QED
        BY <1>1, <2>1 DEF CInv, CountsCover
  <1> QED
      BY <1>2, <1>3, <1>4, <1>5 DEF CInv

\* What the server sends is no read, and an answer to one block at most.
LEMMA MessageKind ==
    ASSUME NEW j \in JobType
    PROVE  /\ \A r : j.op # "read" => j \notin ReadsOf(r)
           /\ \A b : j \in AnswersTo(b) <=> j.op = "apply" /\ j.blk = b
           /\ \A r : j \in ReadsOf(r) <=> j.op = "read" /\ j.req = r
  BY DEF ReadsOf, AnswersTo

LEMMA ResponseReadFileCInv ==
    ASSUME CInv, NEW b \in Blocks, ResponseReadFile(b) PROVE CInv'
  <1>1. BInv /\ Typed /\ CTyped /\ asked \in [Blocks -> Nat] /\ asked[b] \in Nat /\ asked[b] > 0
        /\ readDone \in [Blocks -> [Versions -> Nat]] /\ version \in Versions /\ wire \in Seq(JobType)
      BY DEF CInv, BInv, Typed, CTyped, ResponseReadFile
  <1>2. BInv'
      BY <1>1, ResponseReadFileBInv
  <1>3. /\ UNCHANGED <<cacheVars, diskJobs, kernelVars, ghostVars>> /\ UNCHANGED <<queue, notices>>
        /\ asked' = [asked EXCEPT ![b] = @ - 1]
      BY DEF ResponseReadFile
  <1>4. /\ asked' \in [Blocks -> Nat] /\ asked'[b] = asked[b] - 1
        /\ \A x \in Blocks : x # b => asked'[x] = asked[x]
      BY <1>1, <1>3
  <1>5. CASE readDone' = [readDone EXCEPT ![b][version] = @ + 1] /\ UNCHANGED <<wire, failed, errors>>
    <2> DEFINE e == <<version, readDone[b][version] + 1>>
    <2>1. CTyped'
        BY <1>1, <1>3, <1>4, <1>5 DEF CTyped, cacheVars, kernelVars, ghostVars
    <2>2. /\ readDone[b][version] \in Nat /\ readDone'[b][version] = readDone[b][version] + 1
          /\ \A x \in Blocks, v \in Versions : x # b \/ v # version => readDone'[x][v] = readDone[x][v]
        BY <1>1, <1>5
    <2>3. ReadBlocks(b)' = ReadBlocks(b) \cup {e} /\ e \notin ReadBlocks(b)
      <3>1. \A k \in Nat : k \in 1..(readDone[b][version] + 1) <=> k \in 1..readDone[b][version] \/ k = readDone[b][version] + 1
          BY <2>2
      <3>2. readDone[b][version] + 1 \notin 1..readDone[b][version] /\ readDone[b][version] + 1 \in Nat
          BY <2>2
      <3>3. e \in Versions \X Nat /\ e[1] = version /\ e[2] = readDone[b][version] + 1
          BY <1>1, <3>2
      <3>4. e \notin ReadBlocks(b)
          BY <3>2, <3>3 DEF ReadBlocks
      <3>5. ASSUME NEW p \in Versions \X Nat
            PROVE  p[2] \in 1..readDone'[b][p[1]] <=> p[2] \in 1..readDone[b][p[1]] \/ p = e
        <4>1. CASE p[1] = version
            BY <2>2, <3>1, <4>1
        <4>2. CASE p[1] # version
            BY <2>2, <3>3, <4>2
        <4> QED
            BY <4>1, <4>2
      <3> HIDE DEF e
      <3> QED
          BY <3>3, <3>4, <3>5 DEF ReadBlocks, Versions
    <2>4. Cardinality(ReadBlocks(b)') = Cardinality(ReadBlocks(b)) + 1
      <3>1. IsFiniteSet(ReadBlocks(b))
          BY <1>1, ReadBlocksFinite
      <3> HIDE DEF e
      <3> QED
          BY <2>3, <3>1, FS_AddElement
    <2>5. \A x \in Blocks : x # b => ReadBlocks(x)' = ReadBlocks(x)
        BY <2>2 DEF ReadBlocks, Versions
    <2>6. ASSUME NEW x \in Blocks PROVE ToCome(x)' = ToCome(x)
      <3>1. CASE x # b
          BY <1>3, <1>4, <1>5, <2>5, <3>1 DEF ToCome, AnswersTo
      <3>2. CASE x = b
        <4>1. ToCome(b)' = (asked[b] - 1) + (Cardinality(ReadBlocks(b)) + 1) + Cardinality(Hits(wire, AnswersTo(b)))
                               + Cardinality(Hits(queue, AnswersTo(b)))
            BY <1>3, <1>4, <1>5, <2>4 DEF ToCome, AnswersTo
        <4>2. /\ Cardinality(ReadBlocks(b)) \in Nat
              /\ Cardinality(Hits(wire, AnswersTo(b))) \in Nat /\ Cardinality(Hits(queue, AnswersTo(b))) \in Nat
            BY <1>1, ToComeType
        <4>3. asked[b] >= 1
            BY <1>1
        <4> QED
            BY <1>1, <3>2, <4>1, <4>2, <4>3, FourSum DEF ToCome
      <3> QED
          BY <3>1, <3>2
    <2>7. ASSUME NEW x \in Blocks, Expected(x) PROVE Expected(x)'
      <3>1. CASE x = b
        <4>1. readDone'[x][version] > 0
            BY <2>2, <3>1
        <4> QED
            BY <1>1, <4>1 DEF Expected, Versions
      <3>2. CASE x # b
          BY <1>3, <1>4, <1>5, <2>2, <2>7, <3>2 DEF Expected, Versions
      <3> QED
          BY <3>1, <3>2
    <2> QED
        BY <1>2, <1>3, <1>5, <2>1, <2>6, <2>7, ServerCInv
  <1>6. CASE /\ errors < MaxErrors /\ errors' = errors + 1 /\ failed' = failed \cup {b}
             /\ wire' = Append(wire, Job("error", NoReq, b, NoRange, {})) /\ UNCHANGED readDone
    <2> DEFINE e == Job("error", NoReq, b, NoRange, {})
    <2>1. CTyped'
      <3>1. errors' \in 0..MaxErrors
          BY <1>1, <1>6, BlockCacheAssumption DEF CTyped
      <3> QED
          BY <1>1, <1>3, <1>4, <1>6, <3>1 DEF CTyped, cacheVars, kernelVars, ghostVars
    <2>2. e \in JobType /\ e.op = "error"
        BY MessageType, BlockCacheAssumption DEF NoRange, Job
    <2>3. ASSUME NEW x \in Blocks PROVE Cardinality(Hits(wire', AnswersTo(x))) = Cardinality(Hits(wire, AnswersTo(x)))
      <3>1. e \notin AnswersTo(x)
          BY <2>2, MessageKind
      <3>2. Cardinality(Hits(wire', AnswersTo(x))) = Cardinality(Hits(wire, AnswersTo(x))) + 0
        <4> HIDE DEF e
        <4> QED
            BY <1>1, <1>6, <2>2, <3>1, HitsAppend DEF Bit, e
      <3> QED
          BY <1>1, <3>2, ToComeType
    <2>4. ASSUME NEW x \in Blocks
          PROVE  ToCome(x)' = ToCome(x) \/ (ToCome(x) > 0 /\ ToCome(x)' = ToCome(x) - 1)
      <3>1. ReadBlocks(x)' = ReadBlocks(x)
          BY <1>6 DEF ReadBlocks, Versions
      <3>2. CASE x # b
          BY <1>3, <1>4, <2>3, <3>1, <3>2 DEF ToCome, AnswersTo
      <3>3. CASE x = b
        <4>1. ToCome(b)' = (asked[b] - 1) + Cardinality(ReadBlocks(b)) + Cardinality(Hits(wire, AnswersTo(b)))
                               + Cardinality(Hits(queue, AnswersTo(b)))
            BY <1>3, <1>4, <2>3, <3>1, <3>3 DEF ToCome, AnswersTo
        <4>2. /\ Cardinality(ReadBlocks(b)) \in Nat /\ ToCome(b) \in Nat
              /\ Cardinality(Hits(wire, AnswersTo(b))) \in Nat /\ Cardinality(Hits(queue, AnswersTo(b))) \in Nat
            BY <1>1, ToComeType
        <4>3. asked[b] >= 1
            BY <1>1
        <4>4. ToCome(b)' = ToCome(b) - 1 /\ ToCome(b) >= asked[b]
            BY <1>1, <4>1, <4>2, <4>3, FourSum DEF ToCome
        <4> QED
            BY <1>1, <3>3, <4>2, <4>3, <4>4
      <3> QED
          BY <3>2, <3>3
    <2>5. ASSUME NEW x \in Blocks, Expected(x) PROVE Expected(x)' \/ x \in failed'
      <3>1. Elems(wire) \subseteq Elems(wire')
        <4> HIDE DEF e
        <4> QED
            BY <1>1, <1>6, <2>2, ElemsAppendIs DEF e
      <3>2. x # b => Coming(x) \subseteq Coming(x)'
          BY <1>3, <3>1 DEF Coming
      <3>3. CASE x = b
          BY <1>6, <3>3
      <3>4. CASE x # b
        <4>1. asked'[x] > 0 \/ (\E v \in Versions : readDone'[x][v] > 0) \/ Coming(x)' # {}
            BY <1>4, <1>6, <2>5, <3>2, <3>4, ExpectedIs
        <4> QED
            BY <4>1 DEF Expected, Coming, Elems, Versions
      <3> QED
          BY <3>3, <3>4
    <2> QED
        BY <1>2, <1>3, <1>6, <2>1, <2>4, <2>5, ServerCInv
  <1> QED
      BY <1>5, <1>6 DEF ResponseReadFile

\* A message on the wire that is no answer changes no count.
LEMMA NoticeCounts ==
    ASSUME NEW s \in Seq(JobType), NEW e \in JobType, e.op # "apply", NEW x
    PROVE  Cardinality(Hits(Append(s, e), AnswersTo(x))) = Cardinality(Hits(s, AnswersTo(x)))
  <1>1. e \notin AnswersTo(x)
      BY MessageKind
  <1>2. Cardinality(Hits(s, AnswersTo(x))) \in Nat
      BY HitsFinite
  <1>3. Cardinality(Hits(Append(s, e), AnswersTo(x))) = Cardinality(Hits(s, AnswersTo(x))) + 0
      BY <1>1, HitsAppend DEF Bit
  <1> QED
      BY <1>2, <1>3

LEMMA SendBlockCInv ==
    ASSUME CInv, NEW b \in Blocks, NEW v \in Versions, SendBlock(b, v) PROVE CInv'
  <1>1. /\ BInv /\ Typed /\ CTyped /\ wire \in Seq(JobType)
        /\ readDone \in [Blocks -> [Versions -> Nat]] /\ readDone[b][v] \in Nat /\ readDone[b][v] > 0
      BY DEF CInv, BInv, Typed, SendBlock
  <1>2. BInv'
      BY <1>1, SendBlockBInv
  <1> DEFINE e == Job("apply", NoReq, b, [ver |-> v, id |-> 0], {})
             l == <<v, readDone[b][v]>>
  <1>3. /\ UNCHANGED <<cacheVars, diskJobs, kernelVars, ghostVars>> /\ UNCHANGED <<queue, notices, asked, failed, errors>>
        /\ readDone' = [readDone EXCEPT ![b][v] = @ - 1] /\ wire' = Append(wire, e)
      BY DEF SendBlock
  <1>4. CTyped'
      BY <1>1, <1>3 DEF CTyped, cacheVars, kernelVars, ghostVars
  <1>5. e \in JobType /\ e.op = "apply" /\ e.blk = b
    <2>1. v \in 0..(MaxChanges + 1) /\ v # 0
        BY BlockCacheAssumption DEF Versions
    <2> QED
        BY <2>1, MessageType DEF Job
  <1> HIDE DEF e
  <1>6. /\ readDone'[b][v] = readDone[b][v] - 1
        /\ \A x \in Blocks, w \in Versions : x # b \/ w # v => readDone'[x][w] = readDone[x][w]
      BY <1>1, <1>3
  <1>7. ReadBlocks(b)' = ReadBlocks(b) \ {l} /\ l \in ReadBlocks(b)
    <2>1. \A k \in Nat : k \in 1..(readDone[b][v] - 1) <=> k \in 1..readDone[b][v] /\ k # readDone[b][v]
        BY <1>1
    <2>2. readDone[b][v] \in 1..readDone[b][v]
        BY <1>1
    <2>3. l \in Versions \X Nat /\ l[1] = v /\ l[2] = readDone[b][v]
        BY <1>1
    <2>4. l \in ReadBlocks(b)
        BY <2>2, <2>3 DEF ReadBlocks
    <2>5. ASSUME NEW p \in Versions \X Nat
          PROVE  p[2] \in 1..readDone'[b][p[1]] <=> p[2] \in 1..readDone[b][p[1]] /\ p # l
      <3>1. CASE p[1] = v
          BY <1>6, <2>1, <3>1
      <3>2. CASE p[1] # v
          BY <1>6, <2>3, <3>2
      <3> QED
          BY <3>1, <3>2
    <2> HIDE DEF l
    <2> QED
        BY <2>3, <2>4, <2>5 DEF ReadBlocks, Versions
  <1>8. /\ Cardinality(ReadBlocks(b)') = Cardinality(ReadBlocks(b)) - 1
        /\ Cardinality(ReadBlocks(b)) >= 1
    <2>1. IsFiniteSet(ReadBlocks(b)) /\ Cardinality(ReadBlocks(b)) \in Nat
        BY <1>1, ReadBlocksFinite
    <2> HIDE DEF l
    <2>2. Cardinality(ReadBlocks(b) \ {l}) = Cardinality(ReadBlocks(b)) - 1 /\ IsFiniteSet(ReadBlocks(b) \ {l})
        BY <1>7, <2>1, FS_RemoveElement
    <2>3. Cardinality(ReadBlocks(b) \ {l}) \in Nat
        BY <2>2, FS_CardinalityType
    <2> QED
        BY <1>7, <2>1, <2>2, <2>3
  <1>9. \A x \in Blocks : x # b => ReadBlocks(x)' = ReadBlocks(x)
      BY <1>6 DEF ReadBlocks, Versions
  <1>10. ASSUME NEW x \in Blocks PROVE ToCome(x)' = ToCome(x)
    <2>1. Cardinality(Hits(wire', AnswersTo(x))) = Cardinality(Hits(wire, AnswersTo(x))) + Bit(x = b)
      <3>1. e \in AnswersTo(x) <=> x = b
          BY <1>5, MessageKind
      <3>2. Cardinality(Hits(wire', AnswersTo(x))) = Cardinality(Hits(wire, AnswersTo(x))) + Bit(e \in AnswersTo(x))
          BY <1>1, <1>3, <1>5, HitsAppend
      <3> QED
          BY <3>1, <3>2 DEF Bit
    <2>2. /\ asked[x] \in Nat /\ Cardinality(ReadBlocks(x)) \in Nat
          /\ Cardinality(Hits(wire, AnswersTo(x))) \in Nat /\ Cardinality(Hits(queue, AnswersTo(x))) \in Nat
        BY <1>1, ToComeType
    <2>3. CASE x # b
      <3>1. Cardinality(Hits(wire', AnswersTo(x))) = Cardinality(Hits(wire, AnswersTo(x)))
          BY <2>1, <2>2, <2>3 DEF Bit
      <3> QED
          BY <1>3, <1>9, <2>3, <3>1 DEF ToCome, AnswersTo
    <2>4. CASE x = b
      <3>1. ToCome(b)' = asked[b] + (Cardinality(ReadBlocks(b)) - 1) + (Cardinality(Hits(wire, AnswersTo(b))) + 1)
                             + Cardinality(Hits(queue, AnswersTo(b)))
          BY <1>3, <1>8, <2>1, <2>4 DEF ToCome, AnswersTo, Bit
      <3> QED
          BY <1>8, <2>2, <2>4, <3>1, FourSum DEF ToCome
    <2> QED
        BY <2>3, <2>4
  <1>11. ASSUME NEW x \in Blocks, Expected(x) PROVE Expected(x)'
    <2>1. Elems(wire') = Elems(wire) \cup {e}
        BY <1>1, <1>3, <1>5, ElemsAppendIs
    <2>2. Coming(x)' = {j \in Elems(wire') \cup Elems(queue) : j.op = "apply" /\ j.blk = x}
        BY <1>3 DEF Coming, Elems
    <2>3. asked'[x] > 0 \/ (\E w \in Versions : readDone'[x][w] > 0) \/ Coming(x)' # {}
      <3>1. CASE x = b
          BY <1>5, <2>1, <2>2, <3>1
      <3>2. CASE x # b
          BY <1>3, <1>6, <1>11, <2>1, <2>2, <3>2, ExpectedIs DEF Coming
      <3> QED
          BY <3>1, <3>2
    <2> QED
        BY <2>3 DEF Expected, Coming, Elems, Versions
  <1> QED
      BY <1>2, <1>3, <1>4, <1>10, <1>11, ServerCInv

LEMMA ModifyCInv == CInv /\ Modify => CInv'
  <1> SUFFICES ASSUME CInv, Modify PROVE CInv'
      OBVIOUS
  <1>1. BInv /\ BInv'
      BY ModifyBInv DEF CInv
  <1>2. /\ UNCHANGED <<cacheVars, diskJobs, kernelVars, ghostVars>>
        /\ UNCHANGED <<queue, asked, failed, errors, readDone, wire>> /\ notices' = notices + 1
      BY DEF Modify
  <1>3. CTyped'
      BY <1>2 DEF CInv, CTyped, cacheVars, kernelVars, ghostVars
  <1>4. \A x \in Blocks : ToCome(x)' = ToCome(x)
      BY <1>2 DEF ToCome, AnswersTo, ReadBlocks, Versions
  <1>5. \A x \in Blocks : Expected(x) => Expected(x)'
      BY <1>2 DEF Expected, Versions
  <1> QED
      BY <1>1, <1>2, <1>3, <1>4, <1>5, ServerCInv

LEMMA SendNotifyCInv == CInv /\ SendNotifyInvalInode => CInv'
  <1> SUFFICES ASSUME CInv, SendNotifyInvalInode PROVE CInv'
      OBVIOUS
  <1> DEFINE e == Job("inval", NoReq, 0, [ver |-> version, id |-> 0], {})
  <1>1. BInv /\ BInv' /\ Typed /\ wire \in Seq(JobType)
      BY SendNotifyBInv DEF CInv, BInv, Typed
  <1>2. /\ UNCHANGED <<cacheVars, diskJobs, kernelVars, ghostVars>>
        /\ UNCHANGED <<queue, asked, failed, errors, readDone>> /\ notices' = notices - 1 /\ notices > 0
        /\ wire' = Append(wire, e)
      BY DEF SendNotifyInvalInode
  <1>3. CTyped'
      BY <1>2 DEF CInv, CTyped, cacheVars, kernelVars, ghostVars
  <1>4. e \in JobType /\ e.op = "inval"
    <2>1. version \in 0..(MaxChanges + 1) /\ version # 0 /\ 0 \in Blocks
        BY <1>1, BlockCacheAssumption DEF Typed, Versions, Blocks
    <2> QED
        BY <2>1, MessageType DEF Job
  <1> HIDE DEF e
  <1>5. ASSUME NEW x \in Blocks PROVE ToCome(x)' = ToCome(x)
    <2>1. Cardinality(Hits(wire', AnswersTo(x))) = Cardinality(Hits(wire, AnswersTo(x)))
        BY <1>1, <1>2, <1>4, NoticeCounts
    <2> QED
        BY <1>2, <2>1 DEF ToCome, AnswersTo, ReadBlocks, Versions
  <1>6. ASSUME NEW x \in Blocks, Expected(x) PROVE Expected(x)'
    <2>1. Elems(wire') = Elems(wire) \cup {e}
        BY <1>1, <1>2, <1>4, ElemsAppendIs
    <2>2. asked'[x] > 0 \/ (\E w \in Versions : readDone'[x][w] > 0) \/ Coming(x)' # {}
        BY <1>2, <1>6, <2>1, ExpectedIs DEF Coming
    <2> QED
        BY <2>2 DEF Expected, Coming, Elems, Versions
  <1> QED
      BY <1>1, <1>2, <1>3, <1>5, <1>6, ServerCInv

LEMMA ReceiveCInv == CInv /\ Receive => CInv'
  <1> SUFFICES ASSUME CInv, Receive PROVE CInv'
      OBVIOUS
  <1> DEFINE e == Head(wire)
  <1>1. BInv /\ BInv' /\ Typed /\ CTyped /\ wire \in Seq(JobType) /\ queue \in Seq(JobType)
      BY ReceiveBInv DEF CInv, BInv, Typed
  <1>2. /\ UNCHANGED <<cacheVars, diskJobs, kernelVars, ghostVars>>
        /\ UNCHANGED <<asked, failed, errors, readDone, notices>>
        /\ wire # <<>> /\ wire' = Tail(wire)
        /\ queue' = IF e.op = "error" THEN queue ELSE Append(queue, e)
      BY DEF Receive, ResponseReadFileIn, NotifyInvalInode, serverVars
  <1>3. CTyped'
      BY <1>1, <1>2 DEF CTyped, cacheVars, kernelVars, ghostVars
  <1>4. e \in JobType /\ e.op \in {"apply", "inval", "error"} /\ e \in Elems(wire)
    <2>1. e \in JobType /\ e \in Elems(wire)
        BY <1>1, <1>2, ElemsTail
    <2> QED
        BY <1>1, <2>1 DEF BInv, WireSound
  <1> HIDE DEF e
  <1>5. ASSUME NEW r \in DOMAIN want
        PROVE  Cardinality(Hits(queue', ReadsOf(r))) = Cardinality(Hits(queue, ReadsOf(r)))
    <2>1. e \notin ReadsOf(r)
        BY <1>4, MessageKind
    <2>2. Cardinality(Hits(queue, ReadsOf(r))) \in Nat
        BY <1>1, HitsFinite
    <2>3. Cardinality(Hits(Append(queue, e), ReadsOf(r))) = Cardinality(Hits(queue, ReadsOf(r))) + 0
        BY <1>1, <1>4, <2>1, HitsAppend DEF Bit
    <2> QED
        BY <1>2, <2>2, <2>3
  <1>6. ASSUME NEW x \in Blocks PROVE ToCome(x)' = ToCome(x)
    <2>1. /\ asked[x] \in Nat /\ Cardinality(ReadBlocks(x)) \in Nat
          /\ Cardinality(Hits(wire, AnswersTo(x))) \in Nat /\ Cardinality(Hits(queue, AnswersTo(x))) \in Nat
        BY <1>1, ToComeType
    <2>2. Cardinality(Hits(wire, AnswersTo(x))) = Cardinality(Hits(wire', AnswersTo(x))) + Bit(e \in AnswersTo(x))
        BY <1>1, <1>2, HitsTail DEF e
    <2>3. Cardinality(Hits(Append(queue, e), AnswersTo(x)))
              = Cardinality(Hits(queue, AnswersTo(x))) + Bit(e \in AnswersTo(x))
        BY <1>1, <1>4, HitsAppend
    <2>4. ReadBlocks(x)' = ReadBlocks(x)
        BY <1>2 DEF ReadBlocks, Versions
    <2>w. wire' \in Seq(JobType)
        BY <1>1, <1>2
    <2>n. Cardinality(Hits(wire', AnswersTo(x))) \in Nat
        BY <2>w, HitsFinite
    <2>5. CASE e \in AnswersTo(x)
      <3>1. e.op # "error"
          BY <1>4, <2>5, MessageKind
      <3>2. /\ Cardinality(Hits(wire', AnswersTo(x))) = Cardinality(Hits(wire, AnswersTo(x))) - 1
            /\ Cardinality(Hits(wire, AnswersTo(x))) >= 1
          BY <2>1, <2>2, <2>n, <2>5 DEF Bit
      <3>3. Cardinality(Hits(queue', AnswersTo(x))) = Cardinality(Hits(queue, AnswersTo(x))) + 1
          BY <1>2, <2>3, <2>5, <3>1 DEF Bit
      <3>4. ToCome(x)' = asked[x] + Cardinality(ReadBlocks(x)) + (Cardinality(Hits(wire, AnswersTo(x))) - 1)
                             + (Cardinality(Hits(queue, AnswersTo(x))) + 1)
          BY <1>2, <2>4, <3>2, <3>3 DEF ToCome, AnswersTo
      <3> QED
          BY <2>1, <3>2, <3>4, FourSum DEF ToCome
    <2>6. CASE e \notin AnswersTo(x)
      <3>1. Cardinality(Hits(wire', AnswersTo(x))) = Cardinality(Hits(wire, AnswersTo(x)))
          BY <2>1, <2>2, <2>n, <2>6 DEF Bit
      <3>2. Cardinality(Hits(queue', AnswersTo(x))) = Cardinality(Hits(queue, AnswersTo(x)))
          BY <1>2, <2>1, <2>3, <2>6 DEF Bit
      <3> QED
          BY <1>2, <2>4, <3>1, <3>2 DEF ToCome, AnswersTo
    <2> QED
        BY <2>5, <2>6
  <1>7. ASSUME NEW x \in Blocks, Expected(x) PROVE Expected(x)'
    <2>1. Elems(wire) = {e} \cup Elems(wire')
        BY <1>1, <1>2, ElemsTailIs DEF e
    <2>2. Elems(queue) \subseteq Elems(queue') /\ (e.op # "error" => e \in Elems(queue'))
        BY <1>1, <1>2, <1>4, ElemsAppendIs
    <2>3. Coming(x) \subseteq {j \in Elems(wire') \cup Elems(queue') : j.op = "apply" /\ j.blk = x}
        BY <2>1, <2>2 DEF Coming
    <2>4. asked'[x] > 0 \/ (\E w \in Versions : readDone'[x][w] > 0)
          \/ {j \in Elems(wire') \cup Elems(queue') : j.op = "apply" /\ j.blk = x} # {}
        BY <1>2, <1>7, <2>3, ExpectedIs
    <2> QED
        BY <2>4 DEF Expected, Elems, Versions
  <1> QED
      BY <1>1, <1>2, <1>3, <1>5, <1>6, <1>7, ServerCInv

LEMMA StutterCInv == CInv /\ UNCHANGED vars => CInv'
  <1> SUFFICES ASSUME CInv, UNCHANGED vars PROVE CInv'
      OBVIOUS
  <1>1. BInv /\ BInv'
      BY StutterBInv DEF CInv
  <1>2. /\ UNCHANGED <<cacheVars, diskJobs, kernelVars, ghostVars>>
        /\ UNCHANGED <<queue, asked, failed, errors, readDone, wire, notices>>
      BY DEF vars, serverVars
  <1>3. CTyped'
      BY <1>2 DEF CInv, CTyped, cacheVars, kernelVars, ghostVars
  <1>4. \A x \in Blocks : ToCome(x)' = ToCome(x)
      BY <1>2 DEF ToCome, AnswersTo, ReadBlocks, Versions
  <1>5. \A x \in Blocks : Expected(x) => Expected(x)'
      BY <1>2 DEF Expected, Versions
  <1> QED
      BY <1>1, <1>2, <1>3, <1>4, <1>5, ServerCInv

-----------------------------------------------------------------------------
(* The steps of the client. *)

\* The positions where a read waits are finitely many.
LEMMA AtBlockFinite ==
    ASSUME Typed, NEW r
    PROVE  IsFiniteSet(AtBlock(r)) /\ Cardinality(AtBlock(r)) \in Nat
  <1> DEFINE f == [b \in Blocks |-> {b} \X DOMAIN pending[b]]
             U == {f[b] : b \in Blocks}
  <1>1. ASSUME NEW b \in Blocks PROVE IsFiniteSet(f[b])
    <2>1. DOMAIN pending[b] = 1..Len(pending[b]) /\ Len(pending[b]) \in Nat
        BY DEF Typed
    <2>f. 1 \in Int /\ Len(pending[b]) \in Int
        BY <2>1
    <2>2. IsFiniteSet(1..Len(pending[b]))
        BY <2>f, FS_Interval
    <2>3. IsFiniteSet(DOMAIN pending[b]) /\ IsFiniteSet({b})
        BY <2>1, <2>2, FS_Singleton
    <2>4. IsFiniteSet({b} \X DOMAIN pending[b])
        BY <2>3, FS_Product
    <2> QED
        BY <2>4
  <1>2. IsFiniteSet(U)
    <2>1. DOMAIN f = Blocks /\ f = [b \in Blocks |-> f[b]]
        OBVIOUS
    <2> HIDE DEF f
    <2> QED
        BY BlocksFinite, <2>1, ImageFinite
  <1>3. IsFiniteSet(UNION U)
    <2> HIDE DEF f
    <2> QED
        BY <1>1, <1>2, FS_UNION
  <1>4. AtBlock(r) \in SUBSET UNION U
      BY DEF AtBlock
  <1>5. IsFiniteSet(AtBlock(r))
    <2> HIDE DEF U
    <2> QED
        BY <1>3, <1>4, FS_Subset
  <1> QED
      BY <1>5, FS_CardinalityType

\* The summands of PlacesOf are numbers.
LEMMA PlacesType ==
    ASSUME Typed, NEW r
    PROVE  /\ IsFiniteSet(Hits(queue, ReadsOf(r))) /\ Cardinality(Hits(queue, ReadsOf(r))) \in Nat
           /\ IsFiniteSet(OnDiskThread(r)) /\ Cardinality(OnDiskThread(r)) \in Nat
           /\ IsFiniteSet(AtBlock(r)) /\ Cardinality(AtBlock(r)) \in Nat
  <1>1. IsFiniteSet(diskJobs) /\ queue \in Seq(JobType) /\ OnDiskThread(r) \in SUBSET diskJobs
      BY DEF Typed, OnDiskThread
  <1>2. IsFiniteSet(OnDiskThread(r))
      BY <1>1, FS_Subset
  <1> QED
      BY <1>1, <1>2, HitsFinite, AtBlockFinite, FS_CardinalityType

LEMMA InitCInv == Init => CInv
  <1> SUFFICES ASSUME Init PROVE CInv
      OBVIOUS
  <1>1. BInv
      BY InitBInv
  <1>2. /\ asked = [b \in Blocks |-> 0] /\ readDone = [b \in Blocks |-> [v \in Versions |-> 0]]
        /\ wire = <<>> /\ queue = <<>> /\ diskJobs = {} /\ want = <<>> /\ reply = <<>> /\ waitFor = {}
        /\ pending = [b \in Blocks |-> <<>>] /\ status = [b \in Blocks |-> "NotFound"]
        /\ data = [b \in Blocks |-> NoRange] /\ total = 0 /\ failed = {} /\ errors = 0 /\ notices = 0 /\ raced = {}
      BY DEF Init
  <1>3. CTyped
      BY <1>2, BlockCacheAssumption DEF CTyped
  <1>4. Held
      BY <1>2 DEF Held
  <1>5. Awaited
      BY <1>2 DEF Awaited
  <1>6. OneAnswer
    <2>1. ASSUME NEW b \in Blocks PROVE ToCome(b) = 0
      <3>1. ReadBlocks(b) = {}
          BY <1>2 DEF ReadBlocks
      <3>2. asked[b] = 0 /\ Cardinality(ReadBlocks(b)) = 0
          BY <1>2, <3>1, FS_EmptySet
      <3>3. Cardinality(Hits(wire, AnswersTo(b))) = 0 /\ Cardinality(Hits(queue, AnswersTo(b))) = 0
          BY <1>2, HitsEmpty
      <3> QED
          BY <3>2, <3>3 DEF ToCome
    <2> QED
        BY <2>1 DEF OneAnswer
  <1>7. CountsCover
    <2>1. InMemory = {}
        BY <1>2 DEF InMemory
    <2>2. Packets(InMemory) = {}
        BY <2>1 DEF Packets
    <2>3. Weight(InMemory) = 0
        BY <2>2, FS_EmptySet DEF Weight
    <2> QED
        BY <1>2, <2>3 DEF CountsCover
  <1> QED
      BY <1>1, <1>3, <1>4, <1>5, <1>6, <1>7 DEF CInv

\* A step of the client that adds and applies no answer: it may ask for blocks that
\* nobody had asked for or write one, and a read may begin to wait for a block that is
\* asked for.
LEMMA RequestCounts ==
    ASSUME CInv, NEW S \in SUBSET Blocks, \A x \in S : status[x] = "NotFound",
           \A x \in Blocks : asked'[x] = IF x \in S THEN asked[x] + 1 ELSE asked[x],
           \A x \in Blocks : \/ status'[x] = IF x \in S THEN "InFlight" ELSE status[x]
                             \/ x \notin S /\ status'[x] = "OnDisk",
           UNCHANGED <<readDone, wire, data, fresh, failed, total>>,
           \A x \in Blocks : Cardinality(Hits(queue', AnswersTo(x))) = Cardinality(Hits(queue, AnswersTo(x))),
           \A j \in Elems(queue) : j.op = "apply" => j \in Elems(queue'),
           \A x \in Blocks : pending'[x] # <<>> => pending[x] # <<>> \/ status'[x] = "InFlight"
    PROVE  Awaited' /\ OneAnswer' /\ CountsCover'
  <1>1. BInv /\ Typed /\ CTyped /\ CacheCoherent
      BY DEF CInv, BInv
  <1>2. ASSUME NEW x \in Blocks
        PROVE  /\ ToCome(x) \in Nat
               /\ x \notin S => ToCome(x)' = ToCome(x)
               /\ x \in S => ToCome(x)' = ToCome(x) + 1
    <2>1. /\ asked[x] \in Nat /\ Cardinality(ReadBlocks(x)) \in Nat /\ ToCome(x) \in Nat
          /\ Cardinality(Hits(wire, AnswersTo(x))) \in Nat /\ Cardinality(Hits(queue, AnswersTo(x))) \in Nat
        BY <1>1, ToComeType
    <2>2. ReadBlocks(x)' = ReadBlocks(x)
        BY DEF ReadBlocks, Versions
    <2>3. ToCome(x)' = asked'[x] + Cardinality(ReadBlocks(x)) + Cardinality(Hits(wire, AnswersTo(x)))
                           + Cardinality(Hits(queue, AnswersTo(x)))
        BY <2>2 DEF ToCome, AnswersTo
    <2>4. CASE x \in S
        BY <2>1, <2>3, <2>4, FourSum DEF ToCome
    <2>5. CASE x \notin S
        BY <2>1, <2>3, <2>5 DEF ToCome
    <2> QED
        BY <2>1, <2>4, <2>5
  <1>3. ASSUME NEW x \in Blocks, Expected(x) \/ x \in S PROVE Expected(x)'
    <2>1. asked[x] \in Nat
        BY <1>1 DEF CTyped
    <2>2. CASE x \in S
      <3>1. asked'[x] > 0
          BY <2>1, <2>2
      <3> QED
          BY <3>1 DEF Expected
    <2>3. CASE x \notin S
      <3>1. asked[x] > 0 \/ (\E v \in Versions : readDone[x][v] > 0) \/ Coming(x) # {}
          BY <1>3, <2>3, ExpectedIs
      <3>2. Coming(x) \subseteq {j \in Elems(wire) \cup Elems(queue') : j.op = "apply" /\ j.blk = x}
          BY DEF Coming
      <3>3. asked'[x] > 0 \/ (\E v \in Versions : readDone'[x][v] > 0)
            \/ {j \in Elems(wire') \cup Elems(queue') : j.op = "apply" /\ j.blk = x} # {}
          BY <2>3, <3>1, <3>2
      <3> QED
          BY <3>3 DEF Expected, Elems, Versions
    <2> QED
        BY <2>2, <2>3
  <1>4. Awaited'
    <2> SUFFICES ASSUME NEW x \in Blocks, status'[x] = "InFlight" \/ pending'[x] # <<>>
                 PROVE  Expected(x)' \/ x \in failed'
        BY DEF Awaited
    <2>1. x \in S \/ status[x] = "InFlight" \/ pending[x] # <<>>
        OBVIOUS
    <2>2. x \in S \/ Expected(x) \/ x \in failed
        BY <2>1 DEF CInv, Awaited
    <2> QED
        BY <1>3, <2>2
  <1>5. OneAnswer'
    <2> SUFFICES ASSUME fresh' = 0, NEW x \in Blocks
                 PROVE  /\ ToCome(x)' <= 1
                        /\ x \in InMemory' \/ status'[x] = "NotFound" => ToCome(x)' = 0
        BY DEF OneAnswer
    <2>1. /\ ToCome(x) <= 1
          /\ x \in InMemory \/ status[x] = "NotFound" => ToCome(x) = 0
        BY DEF CInv, OneAnswer
    <2>2. x \in InMemory' <=> x \in InMemory
        BY DEF InMemory
    <2>3. x \in S => x \notin InMemory
        BY <1>1 DEF CacheCoherent
    <2>4. CASE x \in S
        BY <1>2, <2>1, <2>2, <2>3, <2>4
    <2>5. CASE x \notin S
        BY <1>2, <2>1, <2>2, <2>5
    <2> QED
        BY <2>4, <2>5
  <1>6. CountsCover'
    <2>1. Weight(InMemory)' = Weight(InMemory)
        BY DEF InMemory, Weight, Packets
    <2> QED
        BY <2>1 DEF CInv, CountsCover
  <1> QED
      BY <1>4, <1>5, <1>6

\* A read that the shard takes is not answered yet, and is nowhere else.
LEMMA ReadTaken ==
    ASSUME CInv, queue # <<>>, NEW r, r = Head(queue).req, Head(queue).op = "read"
    PROVE  /\ r \in DOMAIN want /\ reply[r] = {}
           /\ Cardinality(Hits(Tail(queue), ReadsOf(r))) = 0 /\ OnDiskThread(r) = {} /\ AtBlock(r) = {}
           /\ \A x : x # r => Cardinality(Hits(Tail(queue), ReadsOf(x))) = Cardinality(Hits(queue, ReadsOf(x)))
           /\ \A x : Cardinality(Hits(Tail(queue), AnswersTo(x))) = Cardinality(Hits(queue, AnswersTo(x)))
           /\ \A j \in Elems(queue) : j.op = "apply" => j \in Elems(Tail(queue))
           /\ Tail(queue) \in Seq(JobType)
  <1> DEFINE h == Head(queue)
  <1>1. Typed /\ queue \in Seq(JobType) /\ QueueSound
      BY DEF CInv, BInv, Typed
  <1>2. h \in Elems(queue) /\ h \in JobType /\ Tail(queue) \in Seq(JobType) /\ Elems(queue) = {h} \cup Elems(Tail(queue))
      BY <1>1, ElemsTail, ElemsTailIs
  <1>3. \A T : /\ Cardinality(Hits(queue, T)) = Cardinality(Hits(Tail(queue), T)) + Bit(h \in T)
               /\ Cardinality(Hits(queue, T)) \in Nat /\ Cardinality(Hits(Tail(queue), T)) \in Nat
    <2>1. \A T : Cardinality(Hits(queue, T)) = Cardinality(Hits(Tail(queue), T)) + Bit(h \in T)
        BY <1>1, HitsTail
    <2> QED
        BY <1>1, <1>2, <2>1, HitsFinite
  <1> HIDE DEF h
  <1>4. r \in DOMAIN want
      BY <1>1, <1>2 DEF QueueSound, h
  <1>5. h.op = "read" /\ h.req = r
      BY DEF h
  <1>6. /\ h \in ReadsOf(r)
        /\ \A x : x # r => h \notin ReadsOf(x)
        /\ \A x : h \notin AnswersTo(x)
      BY <1>2, <1>5, MessageKind
  <1>7. /\ Cardinality(Hits(queue, ReadsOf(r))) = Cardinality(Hits(Tail(queue), ReadsOf(r))) + 1
        /\ \A x : x # r => Cardinality(Hits(Tail(queue), ReadsOf(x))) = Cardinality(Hits(queue, ReadsOf(x)))
        /\ \A x : Cardinality(Hits(Tail(queue), AnswersTo(x))) = Cardinality(Hits(queue, AnswersTo(x)))
    <2>1. \A T : h \notin T => Cardinality(Hits(Tail(queue), T)) = Cardinality(Hits(queue, T))
        BY <1>3 DEF Bit
    <2>2. \A T : h \in T => Cardinality(Hits(queue, T)) = Cardinality(Hits(Tail(queue), T)) + 1
        BY <1>3 DEF Bit
    <2> QED
        BY <1>6, <2>1, <2>2
  <1>8. /\ Cardinality(OnDiskThread(r)) \in Nat /\ Cardinality(AtBlock(r)) \in Nat
        /\ IsFiniteSet(OnDiskThread(r)) /\ IsFiniteSet(AtBlock(r))
      BY <1>1, PlacesType
  <1>9. PlacesOf(r) = IF reply[r] = {} THEN 1 ELSE 0
      BY <1>4 DEF CInv, Held
  <1>10. /\ reply[r] = {} /\ Cardinality(Hits(Tail(queue), ReadsOf(r))) = 0
         /\ Cardinality(OnDiskThread(r)) = 0 /\ Cardinality(AtBlock(r)) = 0
    <2>1. \A q, d, a \in Nat : \A n \in {0, 1} : (q + 1) + d + a = n => n = 1 /\ q = 0 /\ d = 0 /\ a = 0
        OBVIOUS
    <2>2. (Cardinality(Hits(Tail(queue), ReadsOf(r))) + 1) + Cardinality(OnDiskThread(r)) + Cardinality(AtBlock(r))
             = IF reply[r] = {} THEN 1 ELSE 0
        BY <1>7, <1>9 DEF PlacesOf
    <2>3. Cardinality(Hits(Tail(queue), ReadsOf(r))) \in Nat
        BY <1>3
    <2> QED
        BY <1>8, <2>1, <2>2, <2>3
  <1>11. OnDiskThread(r) = {} /\ AtBlock(r) = {}
      BY <1>8, <1>10, FS_EmptySet
  <1> QED
      BY <1>2, <1>4, <1>5, <1>7, <1>10, <1>11

LEMMA FuseReadCInv ==
    ASSUME CInv, NEW b \in Blocks, NEW n \in {1, 2}, FuseRead(b, n) PROVE CInv'
  <1>1. /\ BInv /\ Typed /\ CTyped /\ queue \in Seq(JobType) /\ want \in Seq(Blocks \X Blocks)
        /\ QueueSound /\ reply \in Seq(SUBSET Nat) /\ Len(reply) = Len(want)
      BY DEF CInv, BInv, Typed, CTyped
  <1>2. BInv'
      BY <1>1, FuseReadBInv
  <1> DEFINE m == Len(want) + 1
             e == ReadJob(m, {})
  <1>3. /\ want' = Append(want, <<b, b + n - 1>>) /\ reply' = Append(reply, {})
        /\ UNCHANGED <<version, notices, asked, readDone, failed, errors, wire, data, status, pending, total, disk,
                       diskJobs, waitFor, fresh, raced>>
      BY DEF FuseRead, serverVars, cacheVars, ghostVars
  <1>w. want' \in Seq(Blocks \X Blocks)
      BY <1>2 DEF BInv, Typed
  <1>4. /\ Len(want) \in Nat /\ Len(want') = m /\ DOMAIN want = 1..Len(want) /\ DOMAIN want' = 1..m
        /\ m \in Nat /\ m \notin DOMAIN want
        /\ \A x \in DOMAIN want' : x \in DOMAIN want \/ x = m
      BY <1>1, <1>3, <1>w
  <1>5. /\ reply' \in Seq(SUBSET Nat) /\ Len(reply') = Len(want') /\ reply'[m] = {}
        /\ \A x \in DOMAIN want : reply'[x] = reply[x]
      BY <1>1, <1>3, <1>4
  <1>6. queue' = Append(queue, e)
      BY <1>4 DEF FuseRead
  <1>7. e \in JobType /\ e.op = "read" /\ e.req = m
      BY <1>4, ReadJobType, NoPins DEF ReadJob, Job
  <1> HIDE DEF m, e
  <1>8. CTyped'
    <2>1. DOMAIN want \subseteq DOMAIN want'
        BY <1>4 DEF m
    <2> QED
        BY <1>1, <1>3, <1>5, <2>1 DEF CTyped
  <1>9. Held'
    <2> SUFFICES ASSUME NEW x \in DOMAIN want'
                 PROVE  PlacesOf(x)' = IF reply'[x] = {} THEN 1 ELSE 0
        BY DEF Held
    <2>1. OnDiskThread(x)' = OnDiskThread(x) /\ AtBlock(x)' = AtBlock(x)
        BY <1>3 DEF OnDiskThread, AtBlock
    <2>2. Cardinality(Hits(queue', ReadsOf(x))) = Cardinality(Hits(queue, ReadsOf(x))) + Bit(e \in ReadsOf(x))
        BY <1>1, <1>6, <1>7, HitsAppend
    <2>3. Cardinality(Hits(queue, ReadsOf(x))) \in Nat
        BY <1>1, HitsFinite
    <2>4. PlacesOf(x)' = Cardinality(Hits(queue', ReadsOf(x))) + Cardinality(OnDiskThread(x)) + Cardinality(AtBlock(x))
        BY <2>1 DEF PlacesOf, ReadsOf
    <2>5. CASE x \in DOMAIN want
      <3>1. e \notin ReadsOf(x)
          BY <1>4, <1>7, <2>5, MessageKind
      <3>2. Cardinality(Hits(queue', ReadsOf(x))) = Cardinality(Hits(queue, ReadsOf(x)))
          BY <2>2, <2>3, <3>1 DEF Bit
      <3>3. PlacesOf(x)' = PlacesOf(x)
          BY <2>4, <3>2 DEF PlacesOf
      <3> QED
          BY <1>5, <2>5, <3>3 DEF CInv, Held
    <2>6. CASE x = m
      <3>1. Hits(queue, ReadsOf(m)) = {}
        <4>1. \A j \in Elems(queue) : j \notin ReadsOf(m)
            BY <1>1, <1>4 DEF QueueSound, ReadsOf
        <4> QED
            BY <4>1 DEF Hits, Elems
      <3>2. OnDiskThread(m) = {}
          BY <1>1, <1>4 DEF OnDiskThread, CTyped
      <3>3. AtBlock(m) = {}
        <4>1. ASSUME NEW p \in AtBlock(m) PROVE FALSE
          <5>1. p[1] \in Blocks /\ p[2] \in DOMAIN pending[p[1]] /\ pending[p[1]][p[2]] = m
              BY DEF AtBlock
          <5>2. pending[p[1]] \in Seq(DOMAIN want)
              BY <1>1, <5>1 DEF Typed
          <5>3. pending[p[1]][p[2]] \in DOMAIN want
              BY <5>1, <5>2
          <5> QED
              BY <1>4, <5>1, <5>3
        <4> QED
            BY <4>1
      <3>4. /\ Cardinality(Hits(queue, ReadsOf(m))) = 0 /\ Cardinality(OnDiskThread(m)) = 0
            /\ Cardinality(AtBlock(m)) = 0
          BY <3>1, <3>2, <3>3, FS_EmptySet
      <3>5. e \in ReadsOf(m)
          BY <1>7, MessageKind
      <3>6. Cardinality(Hits(queue', ReadsOf(m))) = 1
          BY <2>2, <2>6, <3>4, <3>5 DEF Bit
      <3> QED
          BY <1>5, <2>4, <2>6, <3>4, <3>6
    <2> QED
        BY <1>4, <2>5, <2>6
  <1>10. \A x \in Blocks : Cardinality(Hits(queue', AnswersTo(x))) = Cardinality(Hits(queue, AnswersTo(x)))
      BY <1>1, <1>6, <1>7, NoticeCounts
  <1>11. Elems(queue) \subseteq Elems(queue')
      BY <1>1, <1>6, <1>7, ElemsAppendIs
  <1>12. Awaited' /\ OneAnswer' /\ CountsCover'
    <2>1. PICK S \in SUBSET Blocks : S = {}
        OBVIOUS
    <2>2. /\ \A x \in Blocks : asked'[x] = IF x \in S THEN asked[x] + 1 ELSE asked[x]
          /\ \A x \in Blocks : status'[x] = IF x \in S THEN "InFlight" ELSE status[x]
          /\ \A x \in S : status[x] = "NotFound"
        BY <1>3, <2>1
    <2>3. \A x \in Blocks : pending'[x] # <<>> => pending[x] # <<>> \/ status'[x] = "InFlight"
        BY <1>3
    <2>4. \A j \in Elems(queue) : j.op = "apply" => j \in Elems(queue')
        BY <1>11
    <2>5. UNCHANGED <<readDone, wire, data, fresh, failed, total>>
        BY <1>3
    <2> QED
        BY <1>10, <2>2, <2>3, <2>4, <2>5, RequestCounts
  <1> QED
      BY <1>2, <1>8, <1>9, <1>12 DEF CInv

\* A read that begins to wait for a block has one place more, at the block.
LEMMA WaitAtBlock ==
    ASSUME Typed, NEW r \in DOMAIN want, NEW b \in Blocks, pending' = [pending EXCEPT ![b] = Append(@, r)]
    PROVE  /\ AtBlock(r) = {} => Cardinality(AtBlock(r)') = 1
           /\ \A x : x # r => AtBlock(x)' = AtBlock(x)
           /\ \A x \in Blocks : pending'[x] # <<>> => pending[x] # <<>> \/ x = b
  <1> DEFINE n == Len(pending[b]) + 1
             l == <<b, n>>
  <1>1. pending \in [Blocks -> Seq(DOMAIN want)] /\ pending[b] \in Seq(DOMAIN want)
      BY DEF Typed
  <1>2. /\ pending'[b] = Append(pending[b], r)
        /\ \A x \in Blocks : x # b => pending'[x] = pending[x]
      BY <1>1
  <1>3. /\ Len(pending[b]) \in Nat /\ DOMAIN pending[b] = 1..Len(pending[b])
        /\ DOMAIN pending'[b] = 1..n /\ pending'[b][n] = r /\ n \in Nat
        /\ \A k \in DOMAIN pending[b] : pending'[b][k] = pending[b][k]
      BY <1>1, <1>2
  <1>4. \A k \in 1..n : k \in DOMAIN pending[b] \/ k = n
      BY <1>3
  <1>5. \A k \in DOMAIN pending[b] : k \in 1..n /\ k # n
      BY <1>3
  <1>6. n \in 1..n
      BY <1>3
  <1> HIDE DEF n
  <1>7. ASSUME NEW x, NEW p \in Blocks \X Nat
        PROVE  (p[2] \in DOMAIN pending'[p[1]] /\ pending'[p[1]][p[2]] = x)
                  <=> (p[2] \in DOMAIN pending[p[1]] /\ pending[p[1]][p[2]] = x) \/ (p = l /\ x = r)
    <2>1. CASE p[1] # b
        BY <1>2, <2>1
    <2>2. CASE p[1] = b
      <3>1. p = l <=> p[2] = n
          BY <2>2
      <3> QED
          BY <1>3, <1>4, <1>5, <1>6, <2>2, <3>1
    <2> QED
        BY <2>1, <2>2
  <1>8. l \in Blocks \X Nat
      BY <1>3
  <1> HIDE DEF l
  <1>9. AtBlock(r)' = AtBlock(r) \cup {l}
      BY <1>7, <1>8 DEF AtBlock, Blocks
  <1>10. \A x : x # r => AtBlock(x)' = AtBlock(x)
      BY <1>7 DEF AtBlock, Blocks
  <1>11. AtBlock(r) = {} => Cardinality(AtBlock(r)') = 1
    <2>1. AtBlock(r) = {} => AtBlock(r)' = {l}
        BY <1>9
    <2> QED
        BY <2>1, FS_Singleton
  <1> QED
      BY <1>2, <1>10, <1>11

LEMMA FuseReadFileCInv == CInv /\ FuseReadFile => CInv'
  <1> SUFFICES ASSUME CInv, FuseReadFile PROVE CInv'
      OBVIOUS
  <1>1. /\ BInv /\ Typed /\ CTyped /\ queue \in Seq(JobType) /\ want \in Seq(Blocks \X Blocks)
        /\ reply \in Seq(SUBSET Nat) /\ Len(reply) = Len(want) /\ data \in [Blocks -> Ranges]
        /\ asked \in [Blocks -> Nat] /\ status \in [Blocks -> Status] /\ Held
      BY DEF CInv, BInv, Typed, CTyped
  <1>2. BInv'
      BY <1>1, FuseReadFileBInv
  <1>p. PICK r : r = Head(queue).req
      OBVIOUS
  <1> DEFINE b == want[r][1]
             c == want[r][2]
  <1>3. queue # <<>> /\ Head(queue).op = "read"
      BY DEF FuseReadFile, Turn
  <1>4. /\ r \in DOMAIN want /\ reply[r] = {} /\ Tail(queue) \in Seq(JobType)
        /\ Cardinality(Hits(Tail(queue), ReadsOf(r))) = 0 /\ OnDiskThread(r) = {} /\ AtBlock(r) = {}
      BY <1>3, <1>p, ReadTaken
  <1>t. /\ \A x : x # r => Cardinality(Hits(Tail(queue), ReadsOf(x))) = Cardinality(Hits(queue, ReadsOf(x)))
        /\ \A x : Cardinality(Hits(Tail(queue), AnswersTo(x))) = Cardinality(Hits(queue, AnswersTo(x)))
        /\ \A j \in Elems(queue) : j.op = "apply" => j \in Elems(Tail(queue))
      BY <1>3, <1>p, ReadTaken
  <1>u. UNCHANGED <<version, notices, readDone, failed, errors, wire, data, total, disk, want, waitFor, fresh, raced>>
      BY DEF FuseReadFile, ghostVars
  <1>5. \/ \E blks \in SUBSET Blocks, mem \in SUBSET Blocks : blks # {} /\ DiskRead(r, blks, mem)
        \/ \E x \in Blocks, S \in SUBSET Blocks :
              /\ \A y \in S : status[y] = "NotFound"
              /\ status[x] # "OnDisk" /\ FetchBlock(r, x, S) /\ UNCHANGED <<diskJobs, reply>>
        \/ /\ Request(Prefetch(b)) /\ queue' = Tail(queue) /\ UNCHANGED <<pending, diskJobs>>
           /\ reply' = [reply EXCEPT ![r] = {data[b].ver, data[c].ver}]
    <2>1. \A x \in Blocks : Prefetch(x) \in SUBSET Blocks /\ \A y \in Prefetch(x) : status[y] = "NotFound"
        BY DEF Prefetch
    <2>2. want[r] \in Blocks \X Blocks
        BY <1>1, <1>4
    <2>3. b \in Blocks /\ c \in Blocks
        BY <2>2
    <2>4. IF b \notin InMemory
          THEN IF status[b] = "OnDisk"
               THEN IF status[c] = "OnDisk" THEN DiskRead(r, {b, c}, {})
                    ELSE IF c \in InMemory THEN DiskRead(r, {b}, {c})
                    ELSE FetchBlock(r, c, {}) /\ UNCHANGED <<diskJobs, reply>>
               ELSE FetchBlock(r, b, Prefetch(b)) /\ UNCHANGED <<diskJobs, reply>>
          ELSE IF c \notin InMemory
               THEN IF status[c] = "OnDisk" THEN DiskRead(r, {c}, {b})
                    ELSE FetchBlock(r, c, Prefetch(c)) /\ UNCHANGED <<diskJobs, reply>>
               ELSE /\ Request(Prefetch(b))
                    /\ reply' = [reply EXCEPT ![r] = {data[b].ver, data[c].ver}]
                    /\ queue' = Tail(queue)
                    /\ UNCHANGED <<pending, diskJobs>>
        BY <1>p, Zenon DEF FuseReadFile
    <2> HIDE DEF b, c
    <2>5. /\ {} \in SUBSET Blocks /\ {b} \in SUBSET Blocks /\ {c} \in SUBSET Blocks /\ {b, c} \in SUBSET Blocks
          /\ {b} # {} /\ {c} # {} /\ {b, c} # {} /\ \A y \in {} : status[y] = "NotFound"
        BY <2>3
    <2>6. CASE b \notin InMemory /\ status[b] = "OnDisk"
        BY <2>3, <2>4, <2>5, <2>6
    <2>7. CASE b \notin InMemory /\ status[b] # "OnDisk"
        BY <2>1, <2>3, <2>4, <2>7
    <2>8. CASE b \in InMemory
        BY <2>1, <2>3, <2>4, <2>5, <2>8
    <2> QED
        BY <2>6, <2>7, <2>8
  <1>6. b \in Blocks /\ c \in Blocks
    <2>1. want[r] \in Blocks \X Blocks
        BY <1>1, <1>4
    <2> QED
        BY <2>1
  <1> HIDE DEF b, c
  <1>d. DOMAIN want = 1..Len(want) /\ DOMAIN reply = DOMAIN want /\ Len(want) \in Nat /\ r \in Nat
    <2>1. DOMAIN want = 1..Len(want) /\ DOMAIN reply = 1..Len(reply) /\ Len(want) \in Nat
        BY <1>1
    <2> QED
        BY <1>1, <1>4, <2>1
  <1>v. \A x \in Blocks : data[x].ver \in Nat
      BY <1>1, BlockCacheAssumption DEF Ranges
  <1>z. /\ Cardinality(Hits(Tail(queue), ReadsOf(r))) = 0 /\ Cardinality(OnDiskThread(r)) = 0
        /\ Cardinality(AtBlock(r)) = 0
      BY <1>4, FS_EmptySet, Zenon
  <1>y. reply[r] = {}
      BY <1>4
  <1>x. Typed /\ r \in DOMAIN want /\ AtBlock(r) = {}
      BY <1>1, <1>4
  <1>0. PICK None \in SUBSET Blocks : None = {}
      OBVIOUS
  <1>7. CASE \E blks \in SUBSET Blocks, mem \in SUBSET Blocks : blks # {} /\ DiskRead(r, blks, mem)
    <2>1. PICK blks \in SUBSET Blocks, mem \in SUBSET Blocks : blks # {} /\ DiskRead(r, blks, mem)
        BY <1>7
    <2>2. PICK job : /\ job.req = r /\ job.blks = blks /\ job.vers = {data[x].ver : x \in mem}
                     /\ diskJobs' = diskJobs \cup {job}
        BY <2>1 DEF DiskRead
    <2>3. queue' = Tail(queue) /\ UNCHANGED <<status, pending, asked, reply>>
        BY <2>1 DEF DiskRead
    <2>4. CTyped'
      <3>1. job.vers \subseteq Nat /\ job.req \in DOMAIN want /\ job.blks # {}
          BY <1>4, <1>v, <2>1, <2>2
      <3> QED
          BY <1>1, <1>u, <2>2, <2>3, <3>1 DEF CTyped
    <2>5. Held'
      <3> SUFFICES ASSUME NEW x \in DOMAIN want PROVE PlacesOf(x)' = IF reply[x] = {} THEN 1 ELSE 0
          BY <1>u, <2>3 DEF Held
      <3>1. AtBlock(x)' = AtBlock(x)
          BY <2>3 DEF AtBlock
      <3>2. PlacesOf(x)' = Cardinality(Hits(Tail(queue), ReadsOf(x))) + Cardinality(OnDiskThread(x)')
                               + Cardinality(AtBlock(x))
          BY <2>3, <3>1 DEF PlacesOf, ReadsOf
      <3>3. CASE x = r
        <4>1. OnDiskThread(r)' = {job}
          <5>1. \A j \in diskJobs : j.req # r
              BY <1>4 DEF OnDiskThread
          <5>2. \A j \in diskJobs' : j.req = r <=> j = job
              BY <2>2, <5>1
          <5>3. job \in diskJobs'
              BY <2>2
          <5> QED
              BY <5>2, <5>3 DEF OnDiskThread
        <4>2. Cardinality(OnDiskThread(r)') = 1
            BY <4>1, FS_Singleton
        <4>3. PlacesOf(r)' = 0 + 1 + 0
            BY <1>z, <3>2, <3>3, <4>2, Zenon
        <4> QED
            BY <1>y, <3>3, <4>3
      <3>4. CASE x # r
        <4>1. OnDiskThread(x)' = OnDiskThread(x)
            BY <2>2, <3>4 DEF OnDiskThread
        <4>2. PlacesOf(x)' = PlacesOf(x)
            BY <1>t, <3>2, <3>4, <4>1 DEF PlacesOf
        <4> QED
            BY <1>1, <4>2 DEF Held
      <3> QED
          BY <3>3, <3>4
    <2>6. Awaited' /\ OneAnswer' /\ CountsCover'
      <3>1. /\ \A x \in Blocks : asked'[x] = IF x \in None THEN asked[x] + 1 ELSE asked[x]
            /\ \A x \in Blocks : status'[x] = IF x \in None THEN "InFlight" ELSE status[x]
            /\ \A x \in None : status[x] = "NotFound"
          BY <1>0, <2>3
      <3>2. \A x \in Blocks : Cardinality(Hits(queue', AnswersTo(x))) = Cardinality(Hits(queue, AnswersTo(x)))
          BY <1>t, <2>3
      <3>3. \A x \in Blocks : pending'[x] # <<>> => pending[x] # <<>> \/ status'[x] = "InFlight"
          BY <2>3
      <3>4. \A j \in Elems(queue) : j.op = "apply" => j \in Elems(queue')
          BY <1>t, <2>3
      <3> QED
          BY <1>u, <3>1, <3>2, <3>3, <3>4, RequestCounts
    <2> QED
        BY <1>2, <2>4, <2>5, <2>6 DEF CInv
  <1>8. CASE \E x \in Blocks, S \in SUBSET Blocks :
                /\ \A y \in S : status[y] = "NotFound"
                /\ status[x] # "OnDisk" /\ FetchBlock(r, x, S) /\ UNCHANGED <<diskJobs, reply>>
    <2>1. PICK y \in Blocks, S \in SUBSET Blocks :
                /\ \A x \in S : status[x] = "NotFound"
                /\ status[y] # "OnDisk" /\ FetchBlock(r, y, S) /\ UNCHANGED <<diskJobs, reply>>
        BY <1>8
    <2>2. CASE status[y] = "InCache"
      <3> DEFINE e == ReadJob(r, {})
      <3>1. queue' = Append(Tail(queue), e) /\ UNCHANGED <<pending, status, asked>>
          BY <2>1, <2>2 DEF FetchBlock
      <3>2. e \in JobType /\ e.op = "read" /\ e.req = r
          BY <1>d, ReadJobType, NoPins DEF ReadJob, Job
      <3> HIDE DEF e
      <3>3. CTyped'
          BY <1>1, <1>u, <2>1, <3>1 DEF CTyped
      <3>4. Held'
        <4> SUFFICES ASSUME NEW x \in DOMAIN want PROVE PlacesOf(x)' = IF reply[x] = {} THEN 1 ELSE 0
            BY <1>u, <2>1 DEF Held
        <4>1. AtBlock(x)' = AtBlock(x) /\ OnDiskThread(x)' = OnDiskThread(x)
            BY <2>1, <3>1 DEF AtBlock, OnDiskThread
        <4>2. Cardinality(Hits(queue', ReadsOf(x))) = Cardinality(Hits(Tail(queue), ReadsOf(x))) + Bit(e \in ReadsOf(x))
            BY <1>4, <3>1, <3>2, HitsAppend
        <4>3. e \in ReadsOf(x) <=> x = r
            BY <3>2, MessageKind
        <4>4. PlacesOf(x)' = Cardinality(Hits(queue', ReadsOf(x))) + Cardinality(OnDiskThread(x))
                                 + Cardinality(AtBlock(x))
            BY <4>1 DEF PlacesOf, ReadsOf
        <4>5. CASE x = r
          <5>1. Cardinality(Hits(queue', ReadsOf(r))) = 1
              BY <1>z, <4>2, <4>3, <4>5 DEF Bit
          <5>2. PlacesOf(r)' = 1 + 0 + 0
              BY <1>z, <4>4, <4>5, <5>1, Zenon
          <5> QED
              BY <1>y, <4>5, <5>2
        <4>6. CASE x # r
          <5>1. Cardinality(Hits(queue, ReadsOf(x))) \in Nat
              BY <1>1, HitsFinite
          <5>2. Cardinality(Hits(queue', ReadsOf(x))) = Cardinality(Hits(queue, ReadsOf(x)))
              BY <1>t, <4>2, <4>3, <4>6, <5>1 DEF Bit
          <5>3. PlacesOf(x)' = PlacesOf(x)
              BY <4>4, <5>2 DEF PlacesOf
          <5> QED
              BY <1>1, <5>3 DEF Held
        <4> QED
            BY <4>5, <4>6
      <3>5. Awaited' /\ OneAnswer' /\ CountsCover'
        <4>1. /\ \A x \in Blocks : asked'[x] = IF x \in None THEN asked[x] + 1 ELSE asked[x]
              /\ \A x \in Blocks : status'[x] = IF x \in None THEN "InFlight" ELSE status[x]
              /\ \A x \in None : status[x] = "NotFound"
            BY <1>0, <3>1
        <4>2. \A x \in Blocks : Cardinality(Hits(queue', AnswersTo(x))) = Cardinality(Hits(queue, AnswersTo(x)))
          <5>1. \A x \in Blocks : Cardinality(Hits(queue', AnswersTo(x))) = Cardinality(Hits(Tail(queue), AnswersTo(x)))
              BY <1>4, <3>1, <3>2, NoticeCounts
          <5> QED
              BY <1>t, <5>1
        <4>3. \A x \in Blocks : pending'[x] # <<>> => pending[x] # <<>> \/ status'[x] = "InFlight"
            BY <3>1
        <4>4. \A j \in Elems(queue) : j.op = "apply" => j \in Elems(queue')
          <5>1. Elems(Tail(queue)) \subseteq Elems(queue')
              BY <1>4, <3>1, <3>2, ElemsAppendIs
          <5> QED
              BY <1>t, <5>1
        <4> QED
            BY <1>u, <4>1, <4>2, <4>3, <4>4, RequestCounts
      <3> QED
          BY <1>2, <3>3, <3>4, <3>5 DEF CInv
    <2>3. CASE status[y] # "InCache"
      <3>r. PICK R \in SUBSET Blocks : R = IF status[y] = "NotFound" THEN {y} \cup S ELSE {}
          OBVIOUS
      <3>1. /\ queue' = Tail(queue) /\ pending' = [pending EXCEPT ![y] = Append(@, r)]
            /\ Request(R)
          BY <2>1, <2>3, <3>r DEF FetchBlock
      <3>2. /\ \A x \in Blocks : asked'[x] = IF x \in R THEN asked[x] + 1 ELSE asked[x]
            /\ \A x \in Blocks : status'[x] = IF x \in R THEN "InFlight" ELSE status[x]
            /\ \A x \in R : status[x] = "NotFound"
            /\ asked' \in [Blocks -> Nat]
          BY <1>1, <2>1, <3>r, <3>1 DEF Request
      <3>3. status'[y] = "InFlight"
        <4>1. status[y] \in {"NotFound", "InFlight"}
            BY <1>1, <2>1, <2>3 DEF Status
        <4> QED
            BY <3>2, <3>r, <4>1
      <3>4. CTyped'
          BY <1>1, <1>u, <2>1, <3>2 DEF CTyped
      <3>5. /\ Cardinality(AtBlock(r)') = 1
            /\ \A x : x # r => AtBlock(x)' = AtBlock(x)
            /\ \A x \in Blocks : pending'[x] # <<>> => pending[x] # <<>> \/ x = y
        <4>1. pending' = [pending EXCEPT ![y] = Append(@, r)]
            BY <3>1
        <4>2. /\ AtBlock(r) = {} => Cardinality(AtBlock(r)') = 1
              /\ \A x : x # r => AtBlock(x)' = AtBlock(x)
              /\ \A x \in Blocks : pending'[x] # <<>> => pending[x] # <<>> \/ x = y
            BY <1>x, <4>1, WaitAtBlock
        <4> QED
            BY <1>x, <4>2
      <3>6. Held'
        <4> SUFFICES ASSUME NEW x \in DOMAIN want PROVE PlacesOf(x)' = IF reply[x] = {} THEN 1 ELSE 0
            BY <1>u, <2>1 DEF Held
        <4>1. OnDiskThread(x)' = OnDiskThread(x)
            BY <2>1 DEF OnDiskThread
        <4>2. PlacesOf(x)' = Cardinality(Hits(Tail(queue), ReadsOf(x))) + Cardinality(OnDiskThread(x))
                                 + Cardinality(AtBlock(x)')
            BY <3>1, <4>1 DEF PlacesOf, ReadsOf
        <4>3. CASE x = r
          <5>1. Cardinality(AtBlock(r)') = 1
              BY <3>5
          <5>2. PlacesOf(r)' = 0 + 0 + 1
              BY <1>z, <4>2, <4>3, <5>1, Zenon
          <5> QED
              BY <1>y, <4>3, <5>2
        <4>4. CASE x # r
          <5>1. PlacesOf(x)' = PlacesOf(x)
              BY <1>t, <3>5, <4>2, <4>4 DEF PlacesOf
          <5> QED
              BY <1>1, <5>1 DEF Held
        <4> QED
            BY <4>3, <4>4
      <3>7. Awaited' /\ OneAnswer' /\ CountsCover'
        <4>1. \A x \in Blocks : Cardinality(Hits(queue', AnswersTo(x))) = Cardinality(Hits(queue, AnswersTo(x)))
            BY <1>t, <3>1
        <4>2. \A x \in Blocks : pending'[x] # <<>> => pending[x] # <<>> \/ status'[x] = "InFlight"
            BY <3>3, <3>5
        <4>3. \A j \in Elems(queue) : j.op = "apply" => j \in Elems(queue')
            BY <1>t, <3>1
        <4> QED
            BY <1>u, <3>2, <4>1, <4>2, <4>3, RequestCounts
      <3> QED
          BY <1>2, <3>4, <3>6, <3>7 DEF CInv
    <2> QED
        BY <2>2, <2>3
  <1>9. CASE /\ Request(Prefetch(b)) /\ queue' = Tail(queue) /\ UNCHANGED <<pending, diskJobs>>
             /\ reply' = [reply EXCEPT ![r] = {data[b].ver, data[c].ver}]
    <2>r. PICK R \in SUBSET Blocks : R = Prefetch(b)
        BY DEF Prefetch
    <2>1. /\ \A x \in Blocks : asked'[x] = IF x \in R THEN asked[x] + 1 ELSE asked[x]
          /\ \A x \in Blocks : status'[x] = IF x \in R THEN "InFlight" ELSE status[x]
          /\ \A x \in R : status[x] = "NotFound"
          /\ asked' \in [Blocks -> Nat]
        BY <1>1, <1>9, <2>r DEF Request, Prefetch
    <2>a. PICK A \in SUBSET Nat : A = {data[b].ver, data[c].ver} /\ A # {}
        BY <1>6, <1>v
    <2>2. /\ reply' \in Seq(SUBSET Nat) /\ Len(reply') = Len(reply) /\ reply'[r] # {}
          /\ \A x \in DOMAIN want : x # r => reply'[x] = reply[x]
        BY <1>1, <1>4, <1>9, <1>d, <2>a
    <2>3. CTyped'
        BY <1>1, <1>u, <1>9, <2>1, <2>2 DEF CTyped
    <2>4. Held'
      <3> SUFFICES ASSUME NEW x \in DOMAIN want PROVE PlacesOf(x)' = IF reply'[x] = {} THEN 1 ELSE 0
          BY <1>u DEF Held
      <3>1. OnDiskThread(x)' = OnDiskThread(x) /\ AtBlock(x)' = AtBlock(x)
          BY <1>9 DEF OnDiskThread, AtBlock
      <3>2. PlacesOf(x)' = Cardinality(Hits(Tail(queue), ReadsOf(x))) + Cardinality(OnDiskThread(x))
                               + Cardinality(AtBlock(x))
          BY <1>9, <3>1 DEF PlacesOf, ReadsOf
      <3>3. CASE x = r
        <4>1. PlacesOf(r)' = 0 + 0 + 0
            BY <1>z, <3>2, <3>3, Zenon
        <4> QED
            BY <2>2, <3>3, <4>1
      <3>4. CASE x # r
        <4>1. PlacesOf(x)' = PlacesOf(x)
            BY <1>t, <3>2, <3>4 DEF PlacesOf
        <4> QED
            BY <1>1, <2>2, <3>4, <4>1 DEF Held
      <3> QED
          BY <3>3, <3>4
    <2>5. Awaited' /\ OneAnswer' /\ CountsCover'
      <3>1. \A x \in Blocks : Cardinality(Hits(queue', AnswersTo(x))) = Cardinality(Hits(queue, AnswersTo(x)))
          BY <1>t, <1>9
      <3>2. \A x \in Blocks : pending'[x] # <<>> => pending[x] # <<>> \/ status'[x] = "InFlight"
          BY <1>9
      <3>3. \A j \in Elems(queue) : j.op = "apply" => j \in Elems(queue')
          BY <1>t, <1>9
      <3> QED
          BY <1>u, <2>1, <3>1, <3>2, <3>3, RequestCounts
    <2> QED
        BY <1>2, <2>3, <2>4, <2>5 DEF CInv
  <1> QED
      BY <1>5, <1>7, <1>8, <1>9

LEMMA ReplyOnce ==
    ASSUME NEW S, NEW s \in Seq(S), NEW k \in DOMAIN s, NEW e \in S
    PROVE  /\ [s EXCEPT ![k] = e] \in Seq(S) /\ Len([s EXCEPT ![k] = e]) = Len(s)
           /\ [s EXCEPT ![k] = e][k] = e
           /\ \A x \in DOMAIN s : x # k => [s EXCEPT ![k] = e][x] = s[x]
  OBVIOUS

LEMMA ExecuteDiskCInv ==
    ASSUME CInv, NEW j \in diskJobs, ExecuteDisk(j) PROVE CInv'
  <1>1. /\ BInv /\ Typed /\ CTyped /\ queue \in Seq(JobType) /\ want \in Seq(Blocks \X Blocks)
        /\ reply \in Seq(SUBSET Nat) /\ Len(reply) = Len(want) /\ Held
      BY DEF CInv, BInv, Typed, CTyped
  <1>2. BInv'
      BY <1>1, ExecuteDiskBInv
  <1>p. PICK r : r = j.req
      OBVIOUS
  <1>3. /\ reply' = [reply EXCEPT ![r] = j.vers \cup {disk[b] : b \in j.blks}]
        /\ diskJobs' = diskJobs \ {j}
        /\ UNCHANGED <<version, notices, asked, readDone, failed, errors, wire, queue, data, status, pending, total,
                       disk, want, waitFor, fresh, raced>>
      BY <1>p DEF ExecuteDisk, serverVars, cacheVars, ghostVars
  <1>4. r \in DOMAIN want /\ j \in OnDiskThread(r)
      BY <1>1, <1>p DEF CTyped, OnDiskThread
  <1>5. /\ Cardinality(Hits(queue, ReadsOf(r))) = 0 /\ Cardinality(AtBlock(r)) = 0 /\ OnDiskThread(r) = {j}
    <2>1. /\ Cardinality(Hits(queue, ReadsOf(r))) \in Nat /\ Cardinality(AtBlock(r)) \in Nat
          /\ Cardinality(OnDiskThread(r)) \in Nat /\ IsFiniteSet(OnDiskThread(r))
        BY <1>1, PlacesType
    <2>2. PlacesOf(r) = IF reply[r] = {} THEN 1 ELSE 0
        BY <1>1, <1>4 DEF Held
    <2>3. Cardinality(OnDiskThread(r)) # 0
        BY <1>4, <2>1, FS_EmptySet
    <2>4. \A q, d, a \in Nat : \A n \in {0, 1} : d # 0 /\ q + d + a = n => q = 0 /\ d = 1 /\ a = 0
        OBVIOUS
    <2>5. /\ Cardinality(Hits(queue, ReadsOf(r))) = 0 /\ Cardinality(AtBlock(r)) = 0
          /\ Cardinality(OnDiskThread(r)) = 1
        BY <2>1, <2>2, <2>3, <2>4 DEF PlacesOf
    <2>6. PICK y : OnDiskThread(r) = {y}
        BY <2>1, <2>5, FS_Singleton
    <2> QED
        BY <1>4, <2>5, <2>6
  <1>d. DOMAIN want = 1..Len(want) /\ DOMAIN reply = DOMAIN want
    <2>1. DOMAIN want = 1..Len(want) /\ DOMAIN reply = 1..Len(reply)
        BY <1>1
    <2> QED
        BY <1>1, <2>1
  <1>a. PICK A \in SUBSET Nat : A = j.vers \cup {disk[b] : b \in j.blks} /\ A # {}
    <2>1. j.vers \subseteq Nat /\ j.blks # {} /\ j.blks \subseteq Blocks
        BY <1>1 DEF CTyped, Typed
    <2>2. \A b \in Blocks : disk[b] \in Nat
        BY <1>1, BlockCacheAssumption DEF Typed
    <2>3. \A v \in {disk[b] : b \in j.blks} : v \in Nat
        BY <2>1, <2>2
    <2>4. {disk[b] : b \in j.blks} # {}
        BY <2>1
    <2>5. PICK D : D = {disk[b] : b \in j.blks}
        OBVIOUS
    <2> QED
        BY <2>1, <2>3, <2>4, <2>5
  <1>6. /\ reply' \in Seq(SUBSET Nat) /\ Len(reply') = Len(reply) /\ reply'[r] # {}
        /\ \A x \in DOMAIN want : x # r => reply'[x] = reply[x]
    <2>1. reply' = [reply EXCEPT ![r] = A]
        BY <1>3, <1>a
    <2>2. r \in DOMAIN reply
        BY <1>4, <1>d
    <2>3. /\ reply' \in Seq(SUBSET Nat) /\ Len(reply') = Len(reply) /\ reply'[r] = A
          /\ \A x \in DOMAIN reply : x # r => reply'[x] = reply[x]
        BY <1>1, <2>1, <2>2, ReplyOnce
    <2> QED
        BY <1>a, <1>d, <2>3
  <1>7. CTyped'
      BY <1>1, <1>3, <1>6 DEF CTyped
  <1>8. Held'
    <2> SUFFICES ASSUME NEW x \in DOMAIN want PROVE PlacesOf(x)' = IF reply'[x] = {} THEN 1 ELSE 0
        BY <1>3 DEF Held
    <2>1. AtBlock(x)' = AtBlock(x)
        BY <1>3 DEF AtBlock
    <2>2. PlacesOf(x)' = Cardinality(Hits(queue, ReadsOf(x))) + Cardinality(OnDiskThread(x)') + Cardinality(AtBlock(x))
        BY <1>3, <2>1 DEF PlacesOf, ReadsOf
    <2>3. CASE x = r
      <3>1. OnDiskThread(r)' = {}
          BY <1>3, <1>5 DEF OnDiskThread
      <3>2. Cardinality(OnDiskThread(r)') = 0
          BY <3>1, FS_EmptySet
      <3>3. PlacesOf(r)' = 0 + 0 + 0
          BY <1>5, <2>2, <2>3, <3>2, Zenon
      <3> QED
          BY <1>6, <2>3, <3>3
    <2>4. CASE x # r
      <3>1. OnDiskThread(x)' = OnDiskThread(x)
          BY <1>p, <1>3, <2>4 DEF OnDiskThread
      <3>2. PlacesOf(x)' = PlacesOf(x)
          BY <2>2, <3>1 DEF PlacesOf
      <3> QED
          BY <1>1, <1>6, <2>4, <3>2 DEF Held
    <2> QED
        BY <2>3, <2>4
  <1>9. Awaited' /\ OneAnswer' /\ CountsCover'
    <2>1. PICK S \in SUBSET Blocks : S = {}
        OBVIOUS
    <2>2. /\ \A x \in Blocks : asked'[x] = IF x \in S THEN asked[x] + 1 ELSE asked[x]
          /\ \A x \in Blocks : status'[x] = IF x \in S THEN "InFlight" ELSE status[x]
          /\ \A x \in S : status[x] = "NotFound"
        BY <1>3, <2>1
    <2>3. \A x \in Blocks : pending'[x] # <<>> => pending[x] # <<>> \/ status'[x] = "InFlight"
        BY <1>3
    <2>4. \A x \in Elems(queue) : x.op = "apply" => x \in Elems(queue')
        BY <1>3
    <2>5. UNCHANGED <<readDone, wire, data, fresh, failed, total>>
        BY <1>3
    <2>6. \A x \in Blocks : Cardinality(Hits(queue', AnswersTo(x))) = Cardinality(Hits(queue, AnswersTo(x)))
        BY <1>3
    <2> QED
        BY <2>2, <2>3, <2>4, <2>5, <2>6, RequestCounts
  <1> QED
      BY <1>2, <1>7, <1>8, <1>9 DEF CInv

\* A job that is no read leaves the reads where they are.
LEMMA JobTaken ==
    ASSUME Typed, queue # <<>>, Head(queue).op # "read"
    PROVE  /\ Tail(queue) \in Seq(JobType)
           /\ \A r : Cardinality(Hits(Tail(queue), ReadsOf(r))) = Cardinality(Hits(queue, ReadsOf(r)))
           /\ Head(queue).op # "apply" =>
                 /\ \A x : Cardinality(Hits(Tail(queue), AnswersTo(x))) = Cardinality(Hits(queue, AnswersTo(x)))
                 /\ \A j \in Elems(queue) : j.op = "apply" => j \in Elems(Tail(queue))
  <1> DEFINE h == Head(queue)
  <1>1. queue \in Seq(JobType)
      BY DEF Typed
  <1>2. h \in JobType /\ Tail(queue) \in Seq(JobType) /\ Elems(queue) = {h} \cup Elems(Tail(queue))
      BY <1>1, ElemsTail, ElemsTailIs
  <1>3. \A T : /\ Cardinality(Hits(queue, T)) = Cardinality(Hits(Tail(queue), T)) + Bit(h \in T)
               /\ Cardinality(Hits(queue, T)) \in Nat /\ Cardinality(Hits(Tail(queue), T)) \in Nat
    <2>1. \A T : Cardinality(Hits(queue, T)) = Cardinality(Hits(Tail(queue), T)) + Bit(h \in T)
        BY <1>1, HitsTail
    <2> QED
        BY <1>1, <1>2, <2>1, HitsFinite
  <1>4. h.op # "read"
      OBVIOUS
  <1> HIDE DEF h
  <1>5. \A T : h \notin T => Cardinality(Hits(Tail(queue), T)) = Cardinality(Hits(queue, T))
      BY <1>3 DEF Bit
  <1>6. \A r : h \notin ReadsOf(r)
      BY <1>2, <1>4, MessageKind
  <1>7. h.op # "apply" => \A x : h \notin AnswersTo(x)
      BY <1>2, MessageKind
  <1>8. \A r : Cardinality(Hits(Tail(queue), ReadsOf(r))) = Cardinality(Hits(queue, ReadsOf(r)))
      BY <1>5, <1>6
  <1>9. h.op # "apply" =>
            /\ \A x : Cardinality(Hits(Tail(queue), AnswersTo(x))) = Cardinality(Hits(queue, AnswersTo(x)))
            /\ \A j \in Elems(queue) : j.op = "apply" => j \in Elems(Tail(queue))
      BY <1>2, <1>5, <1>7
  <1> QED
      BY <1>2, <1>8, <1>9 DEF h

LEMMA HeldFrame ==
    ASSUME Held, UNCHANGED <<diskJobs, pending, want, reply>>,
           \A r : Cardinality(Hits(queue', ReadsOf(r))) = Cardinality(Hits(queue, ReadsOf(r)))
    PROVE  Held'
  <1>1. ASSUME NEW r PROVE PlacesOf(r)' = PlacesOf(r)
    <2>1. OnDiskThread(r)' = OnDiskThread(r) /\ AtBlock(r)' = AtBlock(r)
        BY DEF OnDiskThread, AtBlock
    <2> QED
        BY <2>1 DEF PlacesOf, ReadsOf
  <1> QED
      BY <1>1 DEF Held

LEMMA WriteFileCacheCInv == CInv /\ WriteFileCache => CInv'
  <1> SUFFICES ASSUME CInv, WriteFileCache PROVE CInv'
      OBVIOUS
  <1>1. /\ BInv /\ Typed /\ CTyped /\ Held /\ status \in [Blocks -> Status]
      BY DEF CInv, BInv, Typed
  <1>2. BInv'
      BY <1>1, WriteFileCacheBInv
  <1>p. PICK y : y = Head(queue).blk
      OBVIOUS
  <1>3. /\ queue # <<>> /\ Head(queue).op = "write" /\ queue' = Tail(queue)
        /\ status' = [status EXCEPT ![y] = "OnDisk"]
        /\ UNCHANGED <<version, notices, asked, readDone, failed, errors, wire, data, pending, total, diskJobs,
                       want, reply, waitFor, fresh, raced>>
      BY <1>p DEF WriteFileCache, Turn, serverVars, kernelVars, ghostVars
  <1>4. CTyped'
      BY <1>1, <1>3 DEF CTyped
  <1>5. /\ \A r : Cardinality(Hits(queue', ReadsOf(r))) = Cardinality(Hits(queue, ReadsOf(r)))
        /\ \A x : Cardinality(Hits(queue', AnswersTo(x))) = Cardinality(Hits(queue, AnswersTo(x)))
        /\ \A j \in Elems(queue) : j.op = "apply" => j \in Elems(queue')
      BY <1>1, <1>3, JobTaken
  <1>6. Held'
      BY <1>1, <1>3, <1>5, HeldFrame
  <1>7. Awaited' /\ OneAnswer' /\ CountsCover'
    <2>1. PICK S \in SUBSET Blocks : S = {}
        OBVIOUS
    <2>2. /\ \A x \in Blocks : asked'[x] = IF x \in S THEN asked[x] + 1 ELSE asked[x]
          /\ \A x \in Blocks : \/ status'[x] = IF x \in S THEN "InFlight" ELSE status[x]
                               \/ x \notin S /\ status'[x] = "OnDisk"
          /\ \A x \in S : status[x] = "NotFound"
        BY <1>1, <1>3, <2>1
    <2>3. \A x \in Blocks : pending'[x] # <<>> => pending[x] # <<>> \/ status'[x] = "InFlight"
        BY <1>3
    <2>4. UNCHANGED <<readDone, wire, data, fresh, failed, total>>
        BY <1>3
    <2> QED
        BY <1>5, <2>2, <2>3, <2>4, RequestCounts
  <1> QED
      BY <1>2, <1>4, <1>6, <1>7 DEF CInv

LEMMA InvalidateCacheLeafCInv == CInv /\ InvalidateCacheLeaf => CInv'
  <1> SUFFICES ASSUME CInv, InvalidateCacheLeaf PROVE CInv'
      OBVIOUS
  <1>1. BInv /\ Typed /\ CTyped /\ Held /\ Awaited
      BY DEF CInv, BInv
  <1>2. BInv'
      BY <1>1, InvalidateCacheLeafBInv
  <1>3. /\ queue # <<>> /\ Head(queue).op = "inval" /\ queue' = Tail(queue)
        /\ data' = [b \in Blocks |-> NoRange] /\ status' = [b \in Blocks |-> "NotFound"]
        /\ waitFor' \in {{}, Outstanding} /\ fresh' = Head(queue).rng.ver
        /\ raced' = raced \cup {b \in Blocks : OnItsWay(b, Head(queue).rng.ver)}
        /\ UNCHANGED <<version, notices, asked, readDone, failed, errors, wire, pending, total, disk, diskJobs,
                       want, reply>>
      BY DEF InvalidateCacheLeaf, Turn, serverVars, InvalidatedStatus
  <1>4. fresh' # 0
    <2>1. Head(queue) \in JobType
        BY <1>1, <1>3, ElemsTail DEF Typed
    <2> QED
        BY <1>3, <2>1 DEF JobType
  <1>5. CTyped'
    <2>1. waitFor' \subseteq DOMAIN want /\ raced' \subseteq Blocks
        BY <1>1, <1>3 DEF Outstanding, CTyped
    <2> QED
        BY <1>1, <1>3, <2>1 DEF CTyped
  <1>6. /\ \A r : Cardinality(Hits(queue', ReadsOf(r))) = Cardinality(Hits(queue, ReadsOf(r)))
        /\ \A j \in Elems(queue) : j.op = "apply" => j \in Elems(queue')
      BY <1>1, <1>3, JobTaken
  <1>7. Held'
      BY <1>1, <1>3, <1>6, HeldFrame
  <1>8. Awaited'
    <2> SUFFICES ASSUME NEW x \in Blocks, status'[x] = "InFlight" \/ pending'[x] # <<>>
                 PROVE  Expected(x)' \/ x \in failed'
        BY DEF Awaited
    <2>1. pending[x] # <<>>
        BY <1>3
    <2>2. Expected(x) \/ x \in failed
        BY <1>1, <2>1 DEF Awaited
    <2>3. ASSUME Expected(x) PROVE Expected(x)'
      <3>1. Coming(x) \subseteq {j \in Elems(wire) \cup Elems(queue') : j.op = "apply" /\ j.blk = x}
          BY <1>6 DEF Coming
      <3>2. asked'[x] > 0 \/ (\E v \in Versions : readDone'[x][v] > 0)
            \/ {j \in Elems(wire') \cup Elems(queue') : j.op = "apply" /\ j.blk = x} # {}
          BY <1>3, <2>3, <3>1, ExpectedIs
      <3> QED
          BY <3>2 DEF Expected, Elems, Versions
    <2> QED
        BY <1>3, <2>2, <2>3
  <1>9. OneAnswer'
      BY <1>4 DEF OneAnswer
  <1>10. CountsCover'
    <2>1. Packets(InMemory)' = {}
        BY <1>3 DEF InMemory, Packets
    <2>2. Weight(InMemory)' = 0
        BY <2>1, FS_EmptySet DEF Weight
    <2> QED
        BY <1>1, <1>3, <1>4, <2>2 DEF CountsCover, CTyped
  <1> QED
      BY <1>2, <1>5, <1>7, <1>8, <1>9, <1>10 DEF CInv

\* The reads that are queued again are those that waited for the block.
LEMMA ExecutedHits ==
    ASSUME Typed, NEW s \in Seq(DOMAIN want), NEW b \in Blocks, NEW d \in [Blocks -> Ranges], NEW x
    PROVE  /\ Hits(Executed(s, b, d), ReadsOf(x)) = Hits(s, {x})
           /\ Hits(Executed(s, b, d), AnswersTo(x)) = {}
  <1> DEFINE run == Executed(s, b, d)
  <1>1. run \in Seq(JobType)
      BY ExecutedJobs
  <1>2. DOMAIN run = DOMAIN s
      BY DEF Executed
  <1>3. ASSUME NEW k \in DOMAIN s PROVE run[k].op = "read" /\ run[k].req = s[k]
      BY DEF Executed, ReadJob, Job
  <1> HIDE DEF run
  <1>4. \A k \in DOMAIN run : run[k] \in JobType
      BY <1>1
  <1>5. \A k \in DOMAIN s : run[k] \in ReadsOf(x) <=> s[k] = x
      BY <1>2, <1>3, <1>4 DEF ReadsOf
  <1>6. \A k \in DOMAIN s : run[k] \notin AnswersTo(x)
      BY <1>2, <1>3, <1>4 DEF AnswersTo
  <1>7. Hits(run, ReadsOf(x)) = Hits(s, {x}) /\ Hits(run, AnswersTo(x)) = {}
      BY <1>2, <1>5, <1>6 DEF Hits
  <1> QED
      BY <1>7 DEF run

\* Leaf::TakePendingJobs takes every read that waits for the block away from it.
LEMMA TakenFromBlock ==
    ASSUME Typed, NEW b \in Blocks, pending' = TakePendingJobs(b), NEW x
    PROVE  Cardinality(AtBlock(x)) = Cardinality(AtBlock(x)') + Cardinality(Hits(pending[b], {x}))
  <1> DEFINE H == Hits(pending[b], {x})
             M == {<<b, k>> : k \in H}
             f == [k \in H |-> <<b, k>>]
  <1>1. pending \in [Blocks -> Seq(DOMAIN want)] /\ pending[b] \in Seq(DOMAIN want)
      BY DEF Typed
  <1>2. pending'[b] = <<>> /\ \A y \in Blocks : y # b => pending'[y] = pending[y]
      BY <1>1 DEF TakePendingJobs
  <1>3. IsFiniteSet(H) /\ H \subseteq Nat
    <2>1. DOMAIN pending[b] = 1..Len(pending[b]) /\ Len(pending[b]) \in Nat
        BY <1>1
    <2>2. IsFiniteSet(H)
        BY <1>1, HitsFinite
    <2> QED
        BY <2>1, <2>2 DEF Hits
  <1>4. AtBlock(x) = AtBlock(x)' \cup M
    <2>1. ASSUME NEW p \in Blocks \X Nat
          PROVE  (p[2] \in DOMAIN pending[p[1]] /\ pending[p[1]][p[2]] = x)
                    <=> (p[2] \in DOMAIN pending'[p[1]] /\ pending'[p[1]][p[2]] = x) \/ p \in M
      <3>1. CASE p[1] = b
        <4>1. DOMAIN pending'[b] = {}
            BY <1>2
        <4>2. p \in M <=> p[2] \in H
            BY <3>1
        <4> QED
            BY <3>1, <4>1, <4>2 DEF Hits
      <3>2. CASE p[1] # b
          BY <1>2, <3>2
      <3> QED
          BY <3>1, <3>2
    <2>2. M \subseteq Blocks \X Nat
        BY <1>3
    <2> HIDE DEF M
    <2> QED
        BY <2>1, <2>2 DEF AtBlock, Blocks
  <1>5. AtBlock(x)' \cap M = {}
    <2>1. \A p \in AtBlock(x)' : p[1] # b
        BY <1>2 DEF AtBlock
    <2> QED
        BY <2>1
  <1>6. IsFiniteSet(M) /\ Cardinality(M) = Cardinality(H)
    <2>1. f \in [H -> M] /\ \A m \in M : \E k \in H : f[k] = m
        OBVIOUS
    <2>2. \A k, l \in H : f[k] = f[l] => k = l
        OBVIOUS
    <2> HIDE DEF f, M, H
    <2> QED
        BY <1>3, <2>1, <2>2, SameSize
  <1>7. IsFiniteSet(AtBlock(x))
      BY AtBlockFinite
  <1> HIDE DEF M, H
  <1>8. IsFiniteSet(AtBlock(x)')
      BY <1>4, <1>7, FS_Subset
  <1> QED
      BY <1>4, <1>5, <1>6, <1>8, Disjoint DEF H

\* The jobs that ApplyBlockCacheJob leaves on the queue.
Requeued(run, w) == queue' = (Tail(queue) \o run) \o w

LEMMA ApplyHits ==
    ASSUME Typed, queue # <<>>, Head(queue).op = "apply", NEW b, b = Head(queue).blk,
           NEW run \in Seq(JobType), NEW w \in Seq(JobType), \A j \in Elems(w) : j.op = "write",
           Requeued(run, w)
    PROVE  /\ \A x : Cardinality(Hits(queue', ReadsOf(x)))
                 = Cardinality(Hits(queue, ReadsOf(x))) + Cardinality(Hits(run, ReadsOf(x)))
           /\ \A x : Hits(run, AnswersTo(x)) = {} =>
                 Cardinality(Hits(queue, AnswersTo(x))) = Cardinality(Hits(queue', AnswersTo(x))) + Bit(x = b)
           /\ \A j \in Elems(queue) : j.op = "apply" /\ j.blk # b => j \in Elems(queue')
  <1> DEFINE h == Head(queue)
             t == Tail(queue)
             u == t \o run
  <1>1. queue \in Seq(JobType)
      BY DEF Typed
  <1>2. h \in JobType /\ t \in Seq(JobType) /\ Elems(queue) = {h} \cup Elems(t)
      BY <1>1, ElemsTail, ElemsTailIs
  <1>3. \A T : Cardinality(Hits(queue, T)) = Cardinality(Hits(t, T)) + Bit(h \in T)
      BY <1>1, HitsTail
  <1>4. h.op = "apply" /\ h.blk = b
      OBVIOUS
  <1> HIDE DEF h, t
  <1>5. u \in Seq(JobType) /\ Elems(t) \subseteq Elems(u)
      BY <1>2, ElemsConcat, ElemsConcatIs
  <1>6. \A T : Cardinality(Hits(u, T)) = Cardinality(Hits(t, T)) + Cardinality(Hits(run, T))
      BY <1>2, HitsConcat
  <1>q. queue' = u \o w
      BY DEF t, Requeued
  <1> HIDE DEF u
  <1>7. Elems(u) \subseteq Elems(queue')
      BY <1>5, <1>q, ElemsConcatIs
  <1>8. \A T : Cardinality(Hits(queue', T)) = Cardinality(Hits(u, T)) + Cardinality(Hits(w, T))
    <2>1. \A T : Cardinality(Hits(u \o w, T)) = Cardinality(Hits(u, T)) + Cardinality(Hits(w, T))
        BY <1>5, HitsConcat
    <2> QED
        BY <1>q, <2>1, Zenon
  <1>9. ASSUME NEW x PROVE Cardinality(Hits(w, ReadsOf(x))) = 0 /\ Cardinality(Hits(w, AnswersTo(x))) = 0
    <2>1. Hits(w, ReadsOf(x)) = {} /\ Hits(w, AnswersTo(x)) = {}
        BY DEF Hits, Elems, ReadsOf, AnswersTo
    <2> QED
        BY <2>1, FS_EmptySet
  <1>10. \A T : /\ Cardinality(Hits(queue, T)) \in Nat /\ Cardinality(Hits(t, T)) \in Nat
                /\ Cardinality(Hits(run, T)) \in Nat /\ Cardinality(Hits(u, T)) \in Nat
                /\ Cardinality(Hits(w, T)) \in Nat
      BY <1>1, <1>2, <1>5, HitsFinite
  <1>11. ASSUME NEW x
         PROVE  Cardinality(Hits(queue', ReadsOf(x))) = Cardinality(Hits(queue, ReadsOf(x))) + Cardinality(Hits(run, ReadsOf(x)))
    <2>1. h \notin ReadsOf(x)
        BY <1>2, <1>4, MessageKind
    <2>2. Cardinality(Hits(queue, ReadsOf(x))) = Cardinality(Hits(t, ReadsOf(x)))
        BY <1>3, <1>10, <2>1 DEF Bit
    <2>3. Cardinality(Hits(queue', ReadsOf(x))) = Cardinality(Hits(u, ReadsOf(x)))
        BY <1>8, <1>9, <1>10
    <2> QED
        BY <1>6, <2>2, <2>3
  <1>12. ASSUME NEW x, Hits(run, AnswersTo(x)) = {}
         PROVE  Cardinality(Hits(queue, AnswersTo(x))) = Cardinality(Hits(queue', AnswersTo(x))) + Bit(x = b)
    <2>1. h \in AnswersTo(x) <=> x = b
        BY <1>2, <1>4, MessageKind
    <2>2. Bit(h \in AnswersTo(x)) = Bit(x = b)
        BY <2>1 DEF Bit
    <2>3. Cardinality(Hits(run, AnswersTo(x))) = 0
        BY <1>12, FS_EmptySet
    <2>4. Cardinality(Hits(u, AnswersTo(x))) = Cardinality(Hits(t, AnswersTo(x)))
        BY <1>6, <1>10, <2>3
    <2>5. Cardinality(Hits(queue', AnswersTo(x))) = Cardinality(Hits(u, AnswersTo(x)))
        BY <1>8, <1>9, <1>10
    <2> QED
        BY <1>3, <2>2, <2>4, <2>5
  <1>13. \A j \in Elems(queue) : j.op = "apply" /\ j.blk # b => j \in Elems(queue')
      BY <1>2, <1>4, <1>5, <1>7
  <1> QED
      BY <1>11, <1>12, <1>13

LEMMA ApplyBlockCacheCInv == CInv /\ ApplyBlockCache => CInv'
  <1> SUFFICES ASSUME CInv, ApplyBlockCache PROVE CInv'
      OBVIOUS
  <1>1. BInv /\ Typed /\ CTyped /\ Held /\ Awaited /\ OneAnswer /\ CountsCover /\ CacheCoherent
      BY DEF CInv, BInv
  <1>2. BInv'
      BY <1>1, ApplyBlockCacheBInv
  <1>3. queue # <<>> /\ Head(queue).op = "apply"
      BY DEF ApplyBlockCache, Turn
  <1> DEFINE b0   == Head(queue).blk
             d0   == AddData(b0, Head(queue).rng.ver)
             run0 == Executed(pending[b0], b0, d0)
             S0   == Evicted(d0, Pins \cup UNION {run0[k].pins : k \in DOMAIN run0}, total + Added(b0))
  <1>e. /\ data' = [x \in Blocks |-> IF x \in S0 THEN NoRange ELSE d0[x]]
        /\ status' = ExtractStatus(b0, S0)
        /\ pending' = TakePendingJobs(b0)
        /\ \E s \in Ascending(S0) : queue' = Tail(queue) \o run0 \o WriteJobs(d0, s)
      BY Zenon DEF ApplyBlockCache
  <1>f. total' = (total + Added(b0)) - Extracted(S0)
      BY Zenon DEF ApplyBlockCache
  <1>p. PICK b, v : b = b0 /\ v = Head(queue).rng.ver
      OBVIOUS
  <1>d. PICK d : d = AddData(b, v) /\ d = d0
      BY <1>p
  <1>r. PICK run : run = Executed(pending[b], b, d) /\ run = run0
      BY <1>p, <1>d
  <1>s. PICK S : S = S0 /\ S = Evicted(d, Pins \cup UNION {run[k].pins : k \in DOMAIN run}, total + Added(b))
      BY <1>p, <1>d, <1>r, Zenon
  <1>h. b = Head(queue).blk /\ v = Head(queue).rng.ver
      BY <1>p
  <1>i. d = AddData(b, v)
      BY <1>d
  <1>j. run = Executed(pending[b], b, d)
      BY <1>r
  <1> HIDE DEF b0, d0, run0, S0
  <1>4. /\ data' = [x \in Blocks |-> IF x \in S THEN NoRange ELSE d[x]]
        /\ status' = ExtractStatus(b, S) /\ pending' = TakePendingJobs(b)
        /\ total' = (total + Added(b)) - Extracted(S)
        /\ \E s \in Ascending(S) : queue' = Tail(queue) \o run \o WriteJobs(d, s)
      BY <1>e, <1>f, <1>p, <1>d, <1>r, <1>s, Zenon
  <1>u. UNCHANGED <<version, notices, asked, readDone, failed, errors, wire, disk, diskJobs, want, reply, waitFor,
                    fresh, raced>>
      BY DEF ApplyBlockCache, serverVars, kernelVars, ghostVars
  <1>5. Head(queue) \in JobType
      BY <1>1, <1>3, ElemsTail DEF Typed
  <1>6. b \in Blocks /\ v \in 0..(MaxChanges + 1) /\ v # 0
      BY <1>3, <1>5, <1>h DEF JobType, Ranges
  <1>7. /\ d \in [Blocks -> Ranges] /\ d[b] # NoRange
        /\ \A x \in Blocks : x # b => d[x] = data[x]
        /\ \A x \in Blocks : d[x] # NoRange => d[x].ver # 0
      BY <1>1, <1>6, <1>i, AddDataEffect
  <1>8. S \in SUBSET Blocks /\ \A x \in S : d[x] # NoRange
      BY <1>s DEF Evicted
  <1>9. pending[b] \in Seq(DOMAIN want)
      BY <1>1, <1>6 DEF Typed
  <1>10. /\ run \in Seq(JobType)
         /\ \A x : Hits(run, ReadsOf(x)) = Hits(pending[b], {x}) /\ Hits(run, AnswersTo(x)) = {}
    <2>1. run \in Seq(JobType)
        BY <1>1, <1>6, <1>7, <1>9, <1>j, ExecutedJobs
    <2>2. ASSUME NEW x PROVE Hits(run, ReadsOf(x)) = Hits(pending[b], {x}) /\ Hits(run, AnswersTo(x)) = {}
      <3>1. Typed /\ d \in [Blocks -> Ranges] /\ b \in Blocks
          BY <1>1, <1>6, <1>7
      <3>2. PICK e \in Seq(DOMAIN want) : e = pending[b]
          BY <1>9, Zenon
      <3>3. /\ Hits(Executed(e, b, d), ReadsOf(x)) = Hits(e, {x})
            /\ Hits(Executed(e, b, d), AnswersTo(x)) = {}
          BY <3>1, ExecutedHits
      <3>4. run = Executed(e, b, d)
          BY <1>j, <3>2, Zenon
      <3> QED
          BY <3>2, <3>3, <3>4, Zenon
    <2> QED
        BY <2>1, <2>2
  <1>w. PICK w \in Seq(JobType) : (\A j \in Elems(w) : j.op = "write") /\ Requeued(run, w)
    <2>1. PICK s \in Ascending(S) : queue' = Tail(queue) \o run \o WriteJobs(d, s)
        BY <1>4, <1>u
    <2>2. \A x \in S : d[x].ver # 0
        BY <1>7, <1>8
    <2>3. /\ WriteJobs(d, s) \in Seq(JobType)
          /\ \A j \in Elems(WriteJobs(d, s)) : j.op = "write"
        BY <1>7, <1>8, <2>2, WriteJobsType
    <2> QED
        BY <2>1, <2>3 DEF Requeued
  <1>11. ASSUME NEW x
         PROVE  /\ Cardinality(Hits(queue', ReadsOf(x)))
                       = Cardinality(Hits(queue, ReadsOf(x))) + Cardinality(Hits(pending[b], {x}))
                /\ Cardinality(Hits(queue, AnswersTo(x))) = Cardinality(Hits(queue', AnswersTo(x))) + Bit(x = b)
    <2>1. Hits(run, ReadsOf(x)) = Hits(pending[b], {x}) /\ Hits(run, AnswersTo(x)) = {} /\ run \in Seq(JobType)
        BY <1>10
    <2>2. /\ \A y : Cardinality(Hits(queue', ReadsOf(y)))
                          = Cardinality(Hits(queue, ReadsOf(y))) + Cardinality(Hits(run, ReadsOf(y)))
          /\ \A y : Hits(run, AnswersTo(y)) = {} =>
                 Cardinality(Hits(queue, AnswersTo(y))) = Cardinality(Hits(queue', AnswersTo(y))) + Bit(y = b)
      <3>1. run \in Seq(JobType)
          BY <2>1
      <3>2. Typed /\ queue # <<>> /\ Head(queue).op = "apply" /\ b = Head(queue).blk
          BY <1>1, <1>3, <1>h
      <3> QED
          BY <1>w, <3>1, <3>2, ApplyHits
    <2> QED
        BY <2>1, <2>2
  <1>12. \A j \in Elems(queue) : j.op = "apply" /\ j.blk # b => j \in Elems(queue')
    <2>1. run \in Seq(JobType)
        BY <1>10
    <2> QED
        BY <1>1, <1>3, <1>h, <1>w, <2>1, ApplyHits
  <1>13. /\ pending'[b] = <<>> /\ \A x \in Blocks : x # b => pending'[x] = pending[x]
      BY <1>1, <1>4, <1>u, <1>6 DEF TakePendingJobs, Typed
  <1>14. /\ \A x \in Blocks : status'[x] = IF x \in S THEN "NotFound"
                                           ELSE IF x = b /\ b \notin InMemory THEN "InCache" ELSE status[x]
      BY <1>4, <1>u DEF ExtractStatus
  <1>15. \A x \in Blocks : x # b => (d[x] # NoRange <=> x \in InMemory)
      BY <1>7 DEF InMemory
  <1>16. \A x \in Blocks : x \in InMemory' <=> x \notin S /\ (x = b \/ x \in InMemory)
      BY <1>4, <1>u, <1>7, <1>15 DEF InMemory
  <1>17. Held'
    <2> SUFFICES ASSUME NEW x \in DOMAIN want PROVE PlacesOf(x)' = PlacesOf(x)
        BY <1>1, <1>4, <1>u DEF Held
    <2>1. OnDiskThread(x)' = OnDiskThread(x)
        BY <1>4, <1>u DEF OnDiskThread
    <2>2. Cardinality(AtBlock(x)) = Cardinality(AtBlock(x)') + Cardinality(Hits(pending[b], {x}))
        BY <1>1, <1>4, <1>u, <1>6, TakenFromBlock
    <2>3. /\ Cardinality(Hits(queue, ReadsOf(x))) \in Nat /\ Cardinality(OnDiskThread(x)) \in Nat
          /\ Cardinality(Hits(pending[b], {x})) \in Nat
        BY <1>1, <1>9, PlacesType, HitsFinite
    <2>t. Typed'
        BY <1>2 DEF BInv
    <2>4. Cardinality(AtBlock(x)') \in Nat
      <3>1. IsFiniteSet(AtBlock(x)) /\ AtBlock(x)' \subseteq AtBlock(x)
        <4>1. \A k : k \notin DOMAIN pending'[b]
            BY <1>13
        <4>2. AtBlock(x)' \subseteq AtBlock(x)
            BY <1>13, <4>1 DEF AtBlock, Blocks
        <4> QED
            BY <1>1, <4>2, AtBlockFinite
      <3> QED
          BY <3>1, FS_Subset, FS_CardinalityType
    <2>5. \A q, k, a, n \in Nat : (q + n) + k + a = q + k + (a + n)
        OBVIOUS
    <2>6. PlacesOf(x)' = (Cardinality(Hits(queue, ReadsOf(x))) + Cardinality(Hits(pending[b], {x})))
                              + Cardinality(OnDiskThread(x)) + Cardinality(AtBlock(x)')
        BY <1>11, <2>1 DEF PlacesOf, ReadsOf
    <2> QED
        BY <2>2, <2>3, <2>4, <2>5, <2>6 DEF PlacesOf
  <1>18. ASSUME NEW x \in Blocks
         PROVE  ToCome(x) \in Nat /\ ToCome(x)' = ToCome(x) - Bit(x = b) /\ ToCome(x) >= Bit(x = b)
    <2>1. /\ asked[x] \in Nat /\ Cardinality(ReadBlocks(x)) \in Nat /\ ToCome(x) \in Nat
          /\ Cardinality(Hits(wire, AnswersTo(x))) \in Nat /\ Cardinality(Hits(queue, AnswersTo(x))) \in Nat
        BY <1>1, ToComeType
    <2>t. queue' \in Seq(JobType)
        BY <1>2 DEF BInv, Typed
    <2>2. Cardinality(Hits(queue', AnswersTo(x))) \in Nat
        BY <2>t, HitsFinite
    <2>3. ReadBlocks(x)' = ReadBlocks(x)
        BY <1>4, <1>u DEF ReadBlocks, Versions
    <2>4. ToCome(x)' = asked[x] + Cardinality(ReadBlocks(x)) + Cardinality(Hits(wire, AnswersTo(x)))
                           + Cardinality(Hits(queue', AnswersTo(x)))
        BY <1>4, <1>u, <2>3 DEF ToCome, AnswersTo
    <2>5. Bit(x = b) \in {0, 1}
        BY DEF Bit
    <2>6. \A a, r, n, q \in Nat : \A k \in {0, 1} :
             a + r + n + q = (a + r + n + (q + k)) - k /\ a + r + n + (q + k) >= k
        OBVIOUS
    <2>7. ToCome(x) = asked[x] + Cardinality(ReadBlocks(x)) + Cardinality(Hits(wire, AnswersTo(x)))
                          + (Cardinality(Hits(queue', AnswersTo(x))) + Bit(x = b))
        BY <1>11 DEF ToCome
    <2> QED
        BY <2>1, <2>2, <2>4, <2>5, <2>6, <2>7
  <1>19. Awaited'
    <2> SUFFICES ASSUME NEW x \in Blocks, status'[x] = "InFlight" \/ pending'[x] # <<>>
                 PROVE  Expected(x)' \/ x \in failed'
        BY DEF Awaited
    <2>1. x # b
      <3> SUFFICES ASSUME x = b PROVE FALSE
          OBVIOUS
      <3>1. status'[b] = "InFlight"
          BY <1>13
      <3>2. b \in InMemory => status[b] # "InFlight"
          BY <1>1, <1>6 DEF CacheCoherent
      <3> QED
          BY <1>6, <1>14, <3>1, <3>2
    <2>2. status[x] = "InFlight" \/ pending[x] # <<>>
        BY <1>13, <1>14, <2>1
    <2>3. Expected(x) \/ x \in failed
        BY <1>1, <2>2 DEF Awaited
    <2>4. ASSUME Expected(x) PROVE Expected(x)'
      <3>1. Coming(x) \subseteq {j \in Elems(wire) \cup Elems(queue') : j.op = "apply" /\ j.blk = x}
          BY <1>12, <2>1 DEF Coming
      <3>2. asked'[x] > 0 \/ (\E n \in Versions : readDone'[x][n] > 0)
            \/ {j \in Elems(wire') \cup Elems(queue') : j.op = "apply" /\ j.blk = x} # {}
          BY <1>4, <1>u, <2>4, <3>1, ExpectedIs
      <3> QED
          BY <3>2 DEF Expected, Elems, Versions
    <2> QED
        BY <1>4, <1>u, <2>3, <2>4
  <1>20. OneAnswer'
    <2> SUFFICES ASSUME fresh' = 0, NEW x \in Blocks
                 PROVE  /\ ToCome(x)' <= 1
                        /\ x \in InMemory' \/ status'[x] = "NotFound" => ToCome(x)' = 0
        BY DEF OneAnswer
    <2>1. /\ ToCome(x) <= 1
          /\ x \in InMemory \/ status[x] = "NotFound" => ToCome(x) = 0
        BY <1>1, <1>4, <1>u DEF OneAnswer
    <2>2. CASE x = b
        BY <1>18, <2>1, <2>2 DEF Bit
    <2>3. CASE x # b
      <3>1. ToCome(x)' = ToCome(x)
          BY <1>18, <2>3 DEF Bit
      <3>2. x \in InMemory' \/ status'[x] = "NotFound" => x \in InMemory \/ status[x] = "NotFound"
          BY <1>8, <1>14, <1>15, <1>16, <2>3
      <3> QED
          BY <2>1, <3>1, <3>2
    <2> QED
        BY <2>2, <2>3
  <1>21. CountsCover' /\ total' \in Nat
    <2>1. InMemory \in SUBSET Blocks /\ total \in Nat /\ total >= Weight(InMemory)
        BY <1>1 DEF InMemory, CTyped, CountsCover
    <2>2. S \in SUBSET (InMemory \cup {b})
        BY <1>8, <1>15
    <2>3. Added(b) \in Nat /\ (b \notin InMemory => Added(b) = PacketsOf(b))
        BY <1>6, WeightOne DEF Added
    <2>4. InMemory' = (InMemory \cup {b}) \ S
        BY <1>6, <1>16 DEF InMemory, Blocks
    <2>m. PICK R : R = (InMemory \cup {b}) \ S
        OBVIOUS
    <2>5. /\ total' >= Weight(R) /\ total' \in Nat
          /\ b \notin InMemory /\ total = Weight(InMemory) => total' = Weight(R)
      <3>1. PICK a \in Nat, t \in Nat, M \in SUBSET Blocks, n \in {total'} :
                a = Added(b) /\ t = total /\ M = InMemory /\ n = total'
          BY <2>1, <2>3
      <3>2. n = (t + a) - Weight(S)
          BY <1>4, <3>1 DEF Extracted
      <3>3. t >= Weight(M) /\ S \in SUBSET (M \cup {b}) /\ R = (M \cup {b}) \ S
          BY <2>1, <2>2, <2>m, <3>1
      <3>4. b \in Blocks /\ (b \notin M => a = PacketsOf(b))
          BY <1>6, <2>3, <3>1
      <3>5. n >= Weight(R) /\ n \in Nat /\ (b \notin M /\ t = Weight(M) => n = Weight(R))
        <4>1. PICK U \in SUBSET Blocks : U = M \cup {b}
            BY <3>4
        <4>2. S \in SUBSET Blocks /\ R \in SUBSET Blocks /\ {b} \in SUBSET Blocks /\ R \cap S = {} /\ U = R \cup S
            BY <1>8, <3>3, <3>4, <4>1
        <4>3. Weight(U) = Weight(R) + Weight(S)
            BY <4>2, WeightUnion
        <4>4. Weight({b}) = PacketsOf(b) /\ PacketsOf(b) \in Nat
            BY <3>4, WeightOne
        <4>5. ASSUME b \notin M PROVE Weight(U) = Weight(M) + PacketsOf(b)
          <5>1. M \cap {b} = {}
              BY <4>5
          <5> QED
              BY <4>1, <4>2, <4>4, <5>1, WeightUnion
        <4>6. b \in M => Weight(U) = Weight(M)
          <5>1. b \in M => U = M
              BY <4>1
          <5> QED
              BY <5>1
        <4>7. Weight(M) \in Nat /\ Weight(R) \in Nat /\ Weight(S) \in Nat
            BY <4>2, PacketsFinite
        <4>8. PICK m \in Nat, r \in Nat, q \in Nat, k \in Nat :
                  m = Weight(M) /\ r = Weight(R) /\ q = Weight(S) /\ k = PacketsOf(b)
            BY <4>4, <4>7, Zenon
        <4>9. /\ n = (t + a) - q /\ t >= m
              /\ b \in M => m = r + q
              /\ b \notin M => a = k /\ m + k = r + q
            BY <3>2, <3>3, <3>4, <4>3, <4>5, <4>6, <4>8
        <4>10. n >= r /\ n \in Nat /\ (b \notin M /\ t = m => n = r)
            BY <4>9
        <4> QED
            BY <4>8, <4>10, Zenon
      <3> QED
          BY <3>1, <3>5, Zenon
    <2>6. Weight(InMemory)' = Weight(R)
        BY <2>4, <2>m DEF Weight, Packets, PacketsOf
    <2>7. fresh = 0 => b \notin InMemory
        BY <1>1, <1>6, <1>18 DEF OneAnswer, Bit
    <2> QED
        BY <1>1, <1>4, <1>u, <2>5, <2>6, <2>7 DEF CountsCover
  <1>22. CTyped'
      BY <1>1, <1>4, <1>u, <1>21 DEF CTyped
  <1> QED
      BY <1>2, <1>17, <1>19, <1>20, <1>21, <1>22 DEF CInv

-----------------------------------------------------------------------------

LEMMA NextCInv == CInv /\ [Next]_vars => CInv'
  <1> SUFFICES ASSUME CInv, [Next]_vars PROVE CInv'
      OBVIOUS
  <1>1. CASE Kernel
      BY <1>1, FuseReadCInv DEF Kernel
  <1>2. CASE Modify
      BY <1>2, ModifyCInv
  <1>3. CASE Workers
      BY <1>3, SendNotifyCInv, FuseReadFileCInv, ApplyBlockCacheCInv, WriteFileCacheCInv,
         InvalidateCacheLeafCInv, ResponseReadFileCInv, SendBlockCInv, ExecuteDiskCInv, ReceiveCInv
         DEF Workers, Shard, ServerDisk, ClientDisk
  <1>4. CASE UNCHANGED vars
      BY <1>4, StutterCInv
  <1> QED
      BY <1>1, <1>2, <1>3, <1>4 DEF Next

LEMMA CInvAlways == Spec => []CInv
  BY InitCInv, NextCInv, PTL DEF Spec

LEMMA CInvTypeOK == CInv => TypeOK
  <1> SUFFICES ASSUME CInv PROVE TypeOK
      OBVIOUS
  <1>1. Typed /\ CTyped
      BY DEF CInv, BInv
  <1>2. \A b \in Blocks : \A k \in DOMAIN pending[b] : pending[b][k] \in DOMAIN want
    <2> SUFFICES ASSUME NEW b \in Blocks, NEW k \in DOMAIN pending[b] PROVE pending[b][k] \in DOMAIN want
        OBVIOUS
    <2>1. pending[b] \in Seq(DOMAIN want)
        BY <1>1 DEF Typed
    <2> QED
        BY <2>1
  <1>3. DOMAIN reply = DOMAIN want
    <2>1. reply \in Seq(SUBSET Nat) /\ want \in Seq(Blocks \X Blocks) /\ Len(reply) = Len(want)
        BY <1>1 DEF Typed, CTyped
    <2>2. DOMAIN reply = 1..Len(reply) /\ DOMAIN want = 1..Len(want)
        BY <2>1
    <2> QED
        BY <2>1, <2>2
  <1> QED
      BY <1>1, <1>2, <1>3 DEF TypeOK, Typed, CTyped

\* Places lists what PlacesOf counts.
LEMMA PlacesCounted ==
    ASSUME Typed, NEW r PROVE Cardinality(Places(r)) = PlacesOf(r)
  <1> DEFINE Q == Hits(queue, ReadsOf(r))
             D == OnDiskThread(r)
             P == AtBlock(r)
             A == {<<"queue", k>> : k \in Q}
             B == {<<"disk", j>> : j \in D}
             C == {<<"block", p[1], p[2]>> : p \in P}
  <1>1. Q = {x \in DOMAIN queue : queue[x].op = "read" /\ queue[x].req = r}
    <2>1. \A x \in DOMAIN queue : queue[x] \in JobType
        BY DEF Typed
    <2> QED
        BY <2>1 DEF Hits, ReadsOf
  <1>2. C = UNION {{<<"block", b, k>> : k \in {x \in DOMAIN pending[b] : pending[b][x] = r}} : b \in Blocks}
    <2> DEFINE V == UNION {{<<"block", b, k>> : k \in {x \in DOMAIN pending[b] : pending[b][x] = r}} : b \in Blocks}
    <2>1. ASSUME NEW p \in P PROVE <<"block", p[1], p[2]>> \in V
        BY DEF AtBlock
    <2>2. ASSUME NEW b \in Blocks, NEW k \in DOMAIN pending[b], pending[b][k] = r PROVE <<"block", b, k>> \in C
      <3>1. DOMAIN pending[b] = 1..Len(pending[b]) /\ Len(pending[b]) \in Nat
          BY DEF Typed
      <3>2. <<b, k>> \in P
          BY <2>2, <3>1 DEF AtBlock
      <3>3. <<"block", <<b, k>>[1], <<b, k>>[2]>> = <<"block", b, k>>
          OBVIOUS
      <3> HIDE DEF P
      <3> QED
          BY <3>2, <3>3
    <2>3. \A z \in V : \E b \in Blocks : \E k \in DOMAIN pending[b] : pending[b][k] = r /\ z = <<"block", b, k>>
        OBVIOUS
    <2>4. \A z \in V : z \in C
      <3> HIDE DEF V, C
      <3> QED
          BY <2>2, <2>3
    <2>5. \A z \in C : z \in V
      <3> HIDE DEF V, P
      <3> QED
          BY <2>1
    <2> HIDE DEF V, C
    <2> QED
        BY <2>4, <2>5 DEF V
  <1>3. Places(r) = A \cup B \cup C
    <2> HIDE DEF Q, C
    <2> QED
        BY <1>1, <1>2 DEF Places, OnDiskThread
  <1>4. IsFiniteSet(Q) /\ IsFiniteSet(D) /\ IsFiniteSet(P)
      BY PlacesType
  <1>p. \A p \in P : p = <<p[1], p[2]>>
      BY DEF AtBlock
  <1> HIDE DEF Q, D, P
  <1>5. IsFiniteSet(A) /\ Cardinality(A) = Cardinality(Q)
    <2> DEFINE f == [k \in Q |-> <<"queue", k>>]
    <2>1. f \in [Q -> A] /\ \A m \in A : \E k \in Q : f[k] = m
        OBVIOUS
    <2>2. \A k, l \in Q : f[k] = f[l] => k = l
        OBVIOUS
    <2> HIDE DEF f, A
    <2> QED
        BY <1>4, <2>1, <2>2, SameSize
  <1>6. IsFiniteSet(B) /\ Cardinality(B) = Cardinality(D)
    <2> DEFINE f == [k \in D |-> <<"disk", k>>]
    <2>1. f \in [D -> B] /\ \A m \in B : \E k \in D : f[k] = m
        OBVIOUS
    <2>2. \A k, l \in D : f[k] = f[l] => k = l
        OBVIOUS
    <2> HIDE DEF f, B
    <2> QED
        BY <1>4, <2>1, <2>2, SameSize
  <1>7. IsFiniteSet(C) /\ Cardinality(C) = Cardinality(P)
    <2> DEFINE f == [p \in P |-> <<"block", p[1], p[2]>>]
    <2>1. f \in [P -> C] /\ \A m \in C : \E p \in P : f[p] = m
        OBVIOUS
    <2>2. \A p, q \in P : f[p] = f[q] => p = q
      <3> SUFFICES ASSUME NEW p \in P, NEW q \in P, f[p] = f[q] PROVE p = q
          OBVIOUS
      <3>1. p[1] = q[1] /\ p[2] = q[2]
          OBVIOUS
      <3> QED
          BY <1>p, <3>1
    <2> HIDE DEF f, C
    <2> QED
        BY <1>4, <2>1, <2>2, SameSize
  <1>8. A \cap B = {} /\ (A \cup B) \cap C = {}
    <2>1. (\A z \in A : z[1] = "queue") /\ (\A z \in B : z[1] = "disk") /\ (\A z \in C : z[1] = "block")
        OBVIOUS
    <2> HIDE DEF A, B, C
    <2> QED
        BY <2>1
  <1> HIDE DEF A, B, C
  <1>9. /\ IsFiniteSet(A \cup B) /\ Cardinality(A \cup B) = Cardinality(A) + Cardinality(B)
      BY <1>5, <1>6, <1>8, Disjoint
  <1>10. Cardinality((A \cup B) \cup C) = Cardinality(A \cup B) + Cardinality(C)
      BY <1>7, <1>8, <1>9, Disjoint
  <1>11. Cardinality(Places(r)) = Cardinality(Q) + Cardinality(D) + Cardinality(P)
      BY <1>3, <1>5, <1>6, <1>7, <1>9, <1>10, Zenon
  <1> QED
      BY <1>11 DEF PlacesOf, Q, D, P

LEMMA CInvHeldOnce == CInv => ReadsHeldOnce
  <1> SUFFICES ASSUME CInv PROVE ReadsHeldOnce
      OBVIOUS
  <1>1. \A r \in DOMAIN want : Cardinality(Places(r)) = PlacesOf(r)
      BY PlacesCounted DEF CInv, BInv
  <1> QED
      BY <1>1 DEF CInv, Held, Awaited, ReadsHeldOnce

\* What FuseReadFileJob, ApplyBlockCacheJob and the others keep of a file stays of its
\* type; the count of cached packets, from which GetFreeData subtracts, never falls
\* below zero.
THEOREM CacheTypes == Spec => []TypeOK
  BY CInvAlways, CInvTypeOK, PTL

\* FileTree's count of cached packets covers the packets in memory, so that the
\* assertion in GetFreeData cannot fail, and is exact until an invalidation drops
\* packets that stay counted.
THEOREM CountsAlwaysCover == Spec => []CountsCover
  <1>1. CInv => CountsCover
      BY DEF CInv
  <1> QED
      BY <1>1, CInvAlways, PTL

\* FuseReadFileJob, TakePendingJobs and the disk threads hand a read on without losing
\* it or answering it twice: until it is answered it is on the queue, with a disk thread
\* or with a block, once in all; and a block that reads wait for has an answer on its
\* way, unless the server could not read it.
THEOREM ReadsAlwaysHeldOnce == Spec => []ReadsHeldOnce
  BY CInvAlways, CInvHeldOnce, PTL
=============================================================================
