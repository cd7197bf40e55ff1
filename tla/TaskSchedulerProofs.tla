-------------------------- MODULE TaskSchedulerProofs --------------------------
(***************************************************************************)
(* No packet leaves its pool while the scheduler runs, but for those that  *)
(* failed reads lose and those that the cache destroys, which are counted: *)
(* for any sizes of the pools, of messages and of writers that have room   *)
(* for a read, any number of requests and any order in which the threads   *)
(* run the jobs.                                                           *)
(***************************************************************************)
EXTENDS TaskScheduler, FiniteSetTheorems, TLAPS

-----------------------------------------------------------------------------
(* Sums over sequences of numbers.                                         *)

LEMMA SameSize ==
    ASSUME NEW S, NEW T, IsFiniteSet(S), NEW f \in [S -> T],
           \A x, y \in S : f[x] = f[y] => x = y, \A t \in T : \E x \in S : f[x] = t
    PROVE  IsFiniteSet(T) /\ Cardinality(T) = Cardinality(S)
  <1>1. f \in Bijection(S, T)
      BY DEF Bijection, Injection, Surjection, IsInjective
  <1>2. ExistsBijection(S, T)
      BY <1>1 DEF ExistsBijection
  <1> QED
      BY <1>2, FS_Bijection

LEMMA Disjoint ==
    ASSUME NEW S, NEW T, IsFiniteSet(S), IsFiniteSet(T), S \cap T = {}
    PROVE  /\ IsFiniteSet(S \cup T)
           /\ Cardinality(S \cup T) = Cardinality(S) + Cardinality(T)
  <1>1. Cardinality(S) \in Nat /\ Cardinality(T) \in Nat
      BY FS_CardinalityType
  <1>2. /\ IsFiniteSet(S \cup T)
        /\ Cardinality(S \cup T) = Cardinality(S) + Cardinality(T) - Cardinality(S \cap T)
      BY FS_Union
  <1>3. Cardinality(S \cap T) = 0
      BY FS_EmptySet
  <1> QED
      BY <1>1, <1>2, <1>3

\* The units of one number.
LEMMA UnitsOfOne ==
    ASSUME NEW k, NEW n \in Nat
    PROVE  IsFiniteSet({k} \X (1..n)) /\ Cardinality({k} \X (1..n)) = n
  <1>1. IsFiniteSet(1..n) /\ Cardinality(1..n) = n
    <2>1. 1 \in Int /\ n \in Int
        OBVIOUS
    <2>2. IsFiniteSet(1..n) /\ Cardinality(1..n) = IF 1 > n THEN 0 ELSE n - 1 + 1
        BY <2>1, FS_Interval
    <2> QED
        BY <2>2
  <1>2. IsFiniteSet({k}) /\ Cardinality({k}) = 1
      BY FS_Singleton
  <1>3. /\ IsFiniteSet({k} \X (1..n))
        /\ Cardinality({k} \X (1..n)) = Cardinality({k}) * Cardinality(1..n)
      BY <1>1, <1>2, FS_Product
  <1> QED
      BY <1>1, <1>2, <1>3

LEMMA UnitsFinite ==
    ASSUME NEW s \in Seq(Nat)
    PROVE  IsFiniteSet(Units(s)) /\ Total(s) \in Nat
  <1> DEFINE f == [k \in DOMAIN s |-> {k} \X (1..s[k])]
             U == {{k} \X (1..s[k]) : k \in DOMAIN s}
  <1>1. IsFiniteSet(DOMAIN s)
    <2>1. DOMAIN s = 1..Len(s) /\ 1 \in Int /\ Len(s) \in Int
        OBVIOUS
    <2> QED
        BY <2>1, FS_Interval
  <1>2. IsFiniteSet(U)
    <2>1. f \in Surjection(DOMAIN s, U)
        BY DEF Surjection
    <2> HIDE DEF f, U
    <2> QED
        BY <1>1, <2>1, FS_Surjection
  <1>3. \A T \in U : IsFiniteSet(T)
    <2>1. ASSUME NEW k \in DOMAIN s PROVE IsFiniteSet({k} \X (1..s[k]))
      <3>1. s[k] \in Nat
          OBVIOUS
      <3> QED
          BY <3>1, UnitsOfOne
    <2> QED
        BY <2>1
  <1>4. IsFiniteSet(UNION U)
    <2> HIDE DEF U
    <2> QED
        BY <1>2, <1>3, FS_UNION
  <1>5. IsFiniteSet(Units(s))
      BY <1>4 DEF Units
  <1> QED
      BY <1>5, FS_CardinalityType DEF Total

\* No number, no units.
LEMMA TotalEmpty == Total(<<>>) = 0
  <1>1. Units(<<>>) = {}
      BY DEF Units
  <1> QED
      BY <1>1, FS_EmptySet DEF Total

\* Scheduling a task adds what it holds,
LEMMA TotalAppend ==
    ASSUME NEW s \in Seq(Nat), NEW n \in Nat
    PROVE  Append(s, n) \in Seq(Nat) /\ Total(Append(s, n)) = Total(s) + n
  <1> DEFINE L == Len(s) + 1
             N == {L} \X (1..n)
  <1>1. /\ Append(s, n) \in Seq(Nat) /\ L \in Nat /\ DOMAIN s = 1..(L - 1)
        /\ DOMAIN Append(s, n) = 1..L
        /\ \A k \in 1..(L - 1) : Append(s, n)[k] = s[k]
        /\ Append(s, n)[L] = n
      OBVIOUS
  <1>2. \A k \in 1..L : k \in 1..(L - 1) \/ k = L
      BY <1>1
  <1>3. L \in 1..L /\ L \notin 1..(L - 1) /\ \A k \in 1..(L - 1) : k \in 1..L
      BY <1>1
  <1> HIDE DEF L
  <1>4. Units(Append(s, n)) \subseteq Units(s) \cup N
      BY <1>1, <1>2 DEF Units
  <1>5. Units(s) \cup N \subseteq Units(Append(s, n))
      BY <1>1, <1>3 DEF Units
  <1>6. Units(s) \cap N = {}
      BY <1>1, <1>3 DEF Units
  <1>7. IsFiniteSet(N) /\ Cardinality(N) = n
      BY UnitsOfOne
  <1>8. Units(Append(s, n)) = Units(s) \cup N
      BY <1>4, <1>5
  <1> HIDE DEF N
  <1>9. Cardinality(Units(s) \cup N) = Cardinality(Units(s)) + Cardinality(N)
      BY <1>6, <1>7, UnitsFinite, Disjoint
  <1> QED
      BY <1>1, <1>7, <1>8, <1>9 DEF Total

\* and running the first one takes it away.
LEMMA TotalTail ==
    ASSUME NEW s \in Seq(Nat), s # <<>>
    PROVE  /\ Head(s) \in Nat /\ Tail(s) \in Seq(Nat)
           /\ Total(s) = Head(s) + Total(Tail(s))
  <1> DEFINE n == Head(s)
             t == Tail(s)
             N == {1} \X (1..n)
             M == {<<u[1] + 1, u[2]>> : u \in Units(t)}
             f == [u \in Units(t) |-> <<u[1] + 1, u[2]>>]
  <1>1. /\ n \in Nat /\ t \in Seq(Nat) /\ Len(s) \in Nat /\ Len(s) >= 1 /\ Len(t) = Len(s) - 1
        /\ DOMAIN s = 1..Len(s) /\ DOMAIN t = 1..Len(t) /\ s[1] = n
        /\ \A k \in 1..Len(t) : t[k] = s[k + 1]
      OBVIOUS
  <1> HIDE DEF n, t
  <1>0. PICK L \in Nat : L = Len(t) /\ DOMAIN s = 1..(L + 1) /\ DOMAIN t = 1..L
    <2>1. Len(t) \in Nat /\ Len(s) = Len(t) + 1
        BY <1>1
    <2> QED
        BY <1>1, <2>1
  <1>2. \A u \in Units(t) :
            u = <<u[1], u[2]>> /\ u[1] \in 1..Len(t) /\ u[2] \in 1..s[u[1] + 1] /\ u[2] \in Nat
    <2> SUFFICES ASSUME NEW u \in Units(t)
                 PROVE  /\ u = <<u[1], u[2]>> /\ u[1] \in 1..Len(t)
                        /\ u[2] \in 1..s[u[1] + 1] /\ u[2] \in Nat
        OBVIOUS
    <2>1. PICK k \in DOMAIN t : u \in {k} \X (1..t[k])
        BY DEF Units
    <2>2. u = <<u[1], u[2]>> /\ u[1] = k /\ u[2] \in 1..t[k]
        BY <2>1
    <2>3. k \in 1..Len(t) /\ t[k] = s[k + 1]
        BY <1>1
    <2>4. u[2] \in Nat
        BY <2>2
    <2> QED
        BY <2>2, <2>3, <2>4
  <1>3. Units(s) \subseteq N \cup M
    <2> SUFFICES ASSUME NEW v \in Units(s), v \notin N PROVE v \in M
        OBVIOUS
    <2>1. PICK k \in DOMAIN s : v \in {k} \X (1..s[k])
        BY DEF Units
    <2>2. v = <<k, v[2]>> /\ v[2] \in 1..s[k] /\ k \in Nat /\ k # 1
      <3>1. v = <<k, v[2]>> /\ v[2] \in 1..s[k]
          BY <2>1
      <3>2. k \in Nat
          BY <1>1
      <3>3. s[1] = n
          BY <1>1
      <3>4. k # 1
          BY <2>1, <3>3, Zenon
      <3> QED
          BY <3>1, <3>2, <3>4
    <2>3. k - 1 \in DOMAIN t /\ (k - 1) + 1 = k /\ k - 1 \in 1..Len(t)
      <3>1. k \in 1..(L + 1) /\ k \in Nat /\ k # 1
          BY <1>0, <2>2
      <3>2. k - 1 \in 1..L /\ (k - 1) + 1 = k
          BY <3>1
      <3> QED
          BY <1>0, <3>2
    <2>4. t[k - 1] = s[k]
        BY <1>1, <2>3
    <2>5. <<k - 1, v[2]>> \in {k - 1} \X (1..t[k - 1])
        BY <2>2, <2>4
    <2>6. <<k - 1, v[2]>> \in Units(t)
        BY <2>3, <2>5 DEF Units
    <2>7. v = <<(k - 1) + 1, v[2]>>
        BY <2>2, <2>3
    <2> QED
        BY <2>6, <2>7
  <1>4. N \cup M \subseteq Units(s)
    <2>1. N \subseteq Units(s)
      <3>1. 1 \in DOMAIN s /\ s[1] = n
          BY <1>1
      <3> QED
          BY <3>1, Zenon DEF Units
    <2>2. ASSUME NEW u \in Units(t) PROVE <<u[1] + 1, u[2]>> \in Units(s)
      <3>1. u[1] + 1 \in DOMAIN s
        <4>1. u[1] \in 1..L
            BY <1>0, <1>2
        <4> QED
            BY <1>0, <4>1
      <3>2. <<u[1] + 1, u[2]>> \in {u[1] + 1} \X (1..s[u[1] + 1])
          BY <1>2
      <3> QED
          BY <3>1, <3>2 DEF Units
    <2> QED
        BY <2>1, <2>2
  <1>5. N \cap M = {}
      BY <1>1, <1>2
  <1>6. IsFiniteSet(N) /\ Cardinality(N) = n
      BY <1>1, UnitsOfOne
  <1>7. IsFiniteSet(Units(t)) /\ Total(t) \in Nat
      BY <1>1, UnitsFinite
  <1>8. IsFiniteSet(M) /\ Cardinality(M) = Cardinality(Units(t))
    <2>1. f \in [Units(t) -> M] /\ \A m \in M : \E u \in Units(t) : f[u] = m
        OBVIOUS
    <2>2. ASSUME NEW x \in Units(t), NEW y \in Units(t), f[x] = f[y] PROVE x = y
      <3>1. x[1] + 1 = y[1] + 1 /\ x[2] = y[2]
          BY <2>2
      <3>2. x[1] = y[1]
          BY <1>1, <1>2, <3>1
      <3> QED
          BY <1>2, <3>1, <3>2
    <2> HIDE DEF f, M
    <2> QED
        BY <1>7, <2>1, <2>2, SameSize
  <1>9. Units(s) = N \cup M
      BY <1>3, <1>4
  <1> HIDE DEF N, M
  <1>10. Cardinality(N \cup M) = Cardinality(N) + Cardinality(M)
      BY <1>5, <1>6, <1>8, Disjoint
  <1>11. Total(s) = n + Total(t)
      BY <1>6, <1>8, <1>9, <1>10 DEF Total
  <1> QED
      BY <1>1, <1>11 DEF n, t

-----------------------------------------------------------------------------
(* The invariant.  A task holds packets of the kind that its job returns.  *)

Kinds    == {"response", "read", "responseIn", "readIn", "notify", "rest"}
Messages == {m \in [kind : Kinds, size : Nat] :
                /\ m.kind = "read" => m.size = 1
                /\ m.kind = "readIn" => m.size > 0}
Tasks    == {t \in [job : Kinds \cup {"fuse", "release", "unused"}, recv : Nat, send : Nat] :
                /\ t.job = "read" => t.recv = 1
                /\ t.job = "readIn" => t.recv > 0
                /\ t.job \in {"fuse", "unused"} => t.recv = 0
                /\ t.job # "unused" => t.send = 0}
Outgoing == [n : Nat, answers : Nat]
Cachings == {t \in [job : {"apply", "write", "invalidate"}, n : Nat] :
                t.job = "invalidate" => t.n = 0}

Typed ==
    /\ readQ \in Seq(Nat) /\ msgs \in Seq(Messages) /\ inbox \in Seq(Messages)
    /\ rest \in Nat /\ recvPool \in Nat
    /\ mainQ \in Seq(Tasks) /\ writeQ \in Seq(Outgoing)
    /\ free \in Nat /\ user \in Nat /\ flight \in Nat /\ lost \in Nat /\ disk \in Nat
    /\ cacheQ \in Seq(Cachings) /\ cached \in Nat /\ dropped \in Nat

PInv == Typed /\ PacketsConserved

\* A function on 1..n with values that are numbers is a sequence of numbers.
LEMMA NumbersSeq ==
    ASSUME NEW f, NEW n \in Nat, f \in [1..n -> Nat]
    PROVE  f \in Seq(Nat) /\ Len(f) = n
  OBVIOUS

LEMMA MainTypes ==
    ASSUME NEW q \in Seq(Tasks)
    PROVE  /\ Sends(q) \in Seq(Nat) /\ Len(Sends(q)) = Len(q)
           /\ Recvs(q) \in Seq(Nat) /\ Len(Recvs(q)) = Len(q)
  <1>1. Len(q) \in Nat /\ DOMAIN q = 1..Len(q) /\ \A k \in DOMAIN q : q[k] \in Tasks
      OBVIOUS
  <1>2. \A t \in Tasks : t.send \in Nat /\ t.recv \in Nat
      BY DEF Tasks
  <1>3. Sends(q) \in [1..Len(q) -> Nat] /\ Recvs(q) \in [1..Len(q) -> Nat]
      BY <1>1, <1>2 DEF Sends, Recvs
  <1> QED
      BY <1>1, <1>3, NumbersSeq

LEMMA WriteTypes ==
    ASSUME NEW q \in Seq(Outgoing)
    PROVE  Sizes(q) \in Seq(Nat) /\ Len(Sizes(q)) = Len(q)
  <1>1. Len(q) \in Nat /\ DOMAIN q = 1..Len(q) /\ \A k \in DOMAIN q : q[k] \in Outgoing
      OBVIOUS
  <1>2. \A w \in Outgoing : w.n \in Nat
      BY DEF Outgoing
  <1>3. Sizes(q) \in [1..Len(q) -> Nat]
      BY <1>1, <1>2 DEF Sizes
  <1> QED
      BY <1>1, <1>3, NumbersSeq

LEMMA CacheTypes ==
    ASSUME NEW q \in Seq(Cachings)
    PROVE  Sizes(q) \in Seq(Nat) /\ Len(Sizes(q)) = Len(q)
  <1>1. Len(q) \in Nat /\ DOMAIN q = 1..Len(q) /\ \A k \in DOMAIN q : q[k] \in Cachings
      OBVIOUS
  <1>2. \A w \in Cachings : w.n \in Nat
      BY DEF Cachings
  <1>3. Sizes(q) \in [1..Len(q) -> Nat]
      BY <1>1, <1>2 DEF Sizes
  <1> QED
      BY <1>1, <1>3, NumbersSeq

LEMMA MainAppend ==
    ASSUME NEW q \in Seq(Tasks), NEW t \in Tasks
    PROVE  /\ Append(q, t) \in Seq(Tasks)
           /\ Total(Sends(Append(q, t))) = Total(Sends(q)) + t.send
           /\ Total(Recvs(Append(q, t))) = Total(Recvs(q)) + t.recv
  <1>1. /\ Append(q, t) \in Seq(Tasks) /\ t.send \in Nat /\ t.recv \in Nat
        /\ Sends(q) \in Seq(Nat) /\ Recvs(q) \in Seq(Nat)
      BY MainTypes DEF Tasks
  <1>2. Sends(Append(q, t)) = Append(Sends(q), t.send)
      BY DEF Sends
  <1>3. Recvs(Append(q, t)) = Append(Recvs(q), t.recv)
      BY DEF Recvs
  <1>4. Total(Append(Sends(q), t.send)) = Total(Sends(q)) + t.send
      BY <1>1, TotalAppend
  <1>5. Total(Append(Recvs(q), t.recv)) = Total(Recvs(q)) + t.recv
      BY <1>1, TotalAppend
  <1> QED
      BY <1>1, <1>2, <1>3, <1>4, <1>5

LEMMA MainTail ==
    ASSUME NEW q \in Seq(Tasks), q # <<>>
    PROVE  /\ Head(q) \in Tasks /\ Tail(q) \in Seq(Tasks)
           /\ Total(Sends(q)) = Head(q).send + Total(Sends(Tail(q)))
           /\ Total(Recvs(q)) = Head(q).recv + Total(Recvs(Tail(q)))
  <1>1. /\ Head(q) \in Tasks /\ Tail(q) \in Seq(Tasks)
        /\ Sends(q) \in Seq(Nat) /\ Recvs(q) \in Seq(Nat)
        /\ Sends(q) # <<>> /\ Recvs(q) # <<>>
      BY MainTypes
  <1>2. Head(Sends(q)) = Head(q).send /\ Tail(Sends(q)) = Sends(Tail(q))
      BY DEF Sends
  <1>3. Head(Recvs(q)) = Head(q).recv /\ Tail(Recvs(q)) = Recvs(Tail(q))
      BY DEF Recvs
  <1>4. Total(Sends(q)) = Head(Sends(q)) + Total(Tail(Sends(q)))
      BY <1>1, TotalTail
  <1>5. Total(Recvs(q)) = Head(Recvs(q)) + Total(Tail(Recvs(q)))
      BY <1>1, TotalTail
  <1> QED
      BY <1>1, <1>2, <1>3, <1>4, <1>5

LEMMA WriteAppend ==
    ASSUME NEW q \in Seq(Outgoing), NEW w \in Outgoing
    PROVE  /\ Append(q, w) \in Seq(Outgoing)
           /\ Total(Sizes(Append(q, w))) = Total(Sizes(q)) + w.n
  <1>1. Append(q, w) \in Seq(Outgoing) /\ w.n \in Nat /\ Sizes(q) \in Seq(Nat)
      BY WriteTypes DEF Outgoing
  <1>2. Sizes(Append(q, w)) = Append(Sizes(q), w.n)
      BY DEF Sizes
  <1>3. Total(Append(Sizes(q), w.n)) = Total(Sizes(q)) + w.n
      BY <1>1, TotalAppend
  <1> QED
      BY <1>1, <1>2, <1>3

LEMMA WriteTail ==
    ASSUME NEW q \in Seq(Outgoing), q # <<>>
    PROVE  /\ Head(q) \in Outgoing /\ Tail(q) \in Seq(Outgoing)
           /\ Total(Sizes(q)) = Head(q).n + Total(Sizes(Tail(q)))
  <1>1. /\ Head(q) \in Outgoing /\ Tail(q) \in Seq(Outgoing)
        /\ Sizes(q) \in Seq(Nat) /\ Sizes(q) # <<>>
      BY WriteTypes
  <1>2. Head(Sizes(q)) = Head(q).n /\ Tail(Sizes(q)) = Sizes(Tail(q))
      BY DEF Sizes
  <1>3. Total(Sizes(q)) = Head(Sizes(q)) + Total(Tail(Sizes(q)))
      BY <1>1, TotalTail
  <1> QED
      BY <1>1, <1>2, <1>3

LEMMA CacheAppend ==
    ASSUME NEW q \in Seq(Cachings), NEW w \in Cachings
    PROVE  /\ Append(q, w) \in Seq(Cachings)
           /\ Total(Sizes(Append(q, w))) = Total(Sizes(q)) + w.n
  <1>1. Append(q, w) \in Seq(Cachings) /\ w.n \in Nat /\ Sizes(q) \in Seq(Nat)
      BY CacheTypes DEF Cachings
  <1>2. Sizes(Append(q, w)) = Append(Sizes(q), w.n)
      BY DEF Sizes
  <1>3. Total(Append(Sizes(q), w.n)) = Total(Sizes(q)) + w.n
      BY <1>1, TotalAppend
  <1> QED
      BY <1>1, <1>2, <1>3

LEMMA CacheTail ==
    ASSUME NEW q \in Seq(Cachings), q # <<>>
    PROVE  /\ Head(q) \in Cachings /\ Tail(q) \in Seq(Cachings)
           /\ Total(Sizes(q)) = Head(q).n + Total(Sizes(Tail(q)))
  <1>1. /\ Head(q) \in Cachings /\ Tail(q) \in Seq(Cachings)
        /\ Sizes(q) \in Seq(Nat) /\ Sizes(q) # <<>>
      BY CacheTypes
  <1>2. Head(Sizes(q)) = Head(q).n /\ Tail(Sizes(q)) = Sizes(Tail(q))
      BY DEF Sizes
  <1>3. Total(Sizes(q)) = Head(Sizes(q)) + Total(Tail(Sizes(q)))
      BY <1>1, TotalTail
  <1> QED
      BY <1>1, <1>2, <1>3

\* FreeRecvPacketsJob is scheduled for the packets of a message, if it has any.
LEMMA FreeRecvTotal ==
    ASSUME Typed, NEW n \in Nat
    PROVE  FreeRecv(n) \in Seq(Nat) /\ Total(FreeRecv(n)) = Total(readQ) + n
  <1>1. CASE n = 0
    <2>1. FreeRecv(n) = readQ /\ readQ \in Seq(Nat) /\ Total(readQ) \in Nat
        BY <1>1, UnitsFinite DEF FreeRecv, Typed
    <2> QED
        BY <1>1, <2>1
  <1>2. CASE n # 0
      BY <1>2, TotalAppend DEF FreeRecv, Typed
  <1> QED
      BY <1>1, <1>2

\* Every term of the two sums is a number.
LEMMA SumsType ==
    ASSUME Typed
    PROVE  /\ Total(readQ) \in Nat /\ Total(Recvs(mainQ)) \in Nat
           /\ Total(Sends(mainQ)) \in Nat /\ Total(Sizes(writeQ)) \in Nat
           /\ Len(inbox) \in Nat /\ Len(msgs) \in Nat
           /\ WriterPackets \in Nat /\ WriterPackets * disk \in Nat
           /\ Total(Sizes(cacheQ)) \in Nat
  <1>1. /\ Recvs(mainQ) \in Seq(Nat) /\ Sends(mainQ) \in Seq(Nat)
      BY MainTypes DEF Typed
  <1>2. Sizes(writeQ) \in Seq(Nat) /\ Sizes(cacheQ) \in Seq(Nat)
      BY WriteTypes, CacheTypes DEF Typed
  <1>3. WriterPackets \in Nat /\ disk \in Nat
      BY SizesNat DEF Typed
  <1>4. WriterPackets * disk \in Nat
      BY <1>3
  <1>5. Len(inbox) \in Nat /\ Len(msgs) \in Nat /\ readQ \in Seq(Nat)
      BY DEF Typed
  <1> QED
      BY <1>1, <1>2, <1>3, <1>4, <1>5, UnitsFinite

LEMMA InitPInv == Init => PInv
  <1> SUFFICES ASSUME Init PROVE PInv
      OBVIOUS
  <1>1. Typed
      BY SizesNat DEF Init, Typed, MessageRead
  <1>2. Total(readQ) = 0
    <2>1. readQ = Append(<<>>, 0) /\ <<>> \in Seq(Nat)
        BY DEF Init, MessageRead
    <2>2. Total(Append(<<>>, 0)) = Total(<<>>) + 0
        BY <2>1, TotalAppend
    <2> QED
        BY <2>1, <2>2, TotalEmpty
  <1>3. /\ Total(Recvs(mainQ)) = 0 /\ Total(Sends(mainQ)) = 0
        /\ Total(Sizes(writeQ)) = 0 /\ Total(Sizes(cacheQ)) = 0
    <2>1. mainQ = <<>> /\ writeQ = <<>> /\ cacheQ = <<>>
        BY DEF Init
    <2>2. /\ Recvs(mainQ) = <<>> /\ Sends(mainQ) = <<>>
          /\ Sizes(writeQ) = <<>> /\ Sizes(cacheQ) = <<>>
        BY <2>1 DEF Recvs, Sends, Sizes
    <2> QED
        BY <2>2, TotalEmpty
  <1>4. Len(inbox) = 0 /\ Len(msgs) = 0 /\ WriterPackets * disk = 0
      BY SizesNat DEF Init
  <1>5. SendSum = SendPackets
      BY <1>3, <1>4, SizesNat DEF Init, SendSum
  <1>6. JobSum = RecvPackets
      BY <1>2, <1>3, <1>4, SizesNat DEF Init, JobSum
  <1>7. CacheSum = 0
      BY <1>3 DEF Init, CacheSum
  <1>8. JobSum + CacheSum = RecvPackets
      BY <1>6, <1>7, SizesNat
  <1> QED
      BY <1>1, <1>5, <1>8 DEF PInv, PacketsConserved

-----------------------------------------------------------------------------
(* The steps, by what they do to the two sums.                             *)

LEMMA Kept ==
    ASSUME PInv, Typed', ~stop' => ~stop, ~stop' => SendSum' = SendSum /\ JobSum' = JobSum,
           UNCHANGED cacheVars
    PROVE  PInv'
  <1>1. CacheSum' = CacheSum
      BY DEF CacheSum, cacheVars
  <1> QED
      BY <1>1 DEF PInv, PacketsConserved

\* What the jobs give to the cache they no longer have.
LEMMA KeptWithCache ==
    ASSUME PInv, Typed', ~stop' => ~stop, SendSum' = SendSum,
           JobSum' + CacheSum' = JobSum + CacheSum
    PROVE  PInv'
  BY DEF PInv, PacketsConserved

LEMMA SendFrame ==
    ASSUME UNCHANGED <<sendVars, disk>>, Total(Sends(mainQ)') = Total(Sends(mainQ))
    PROVE  SendSum' = SendSum
  BY DEF SendSum, sendVars

LEMMA RecvFrame ==
    ASSUME UNCHANGED <<recvVars, disk>>, Total(Recvs(mainQ)') = Total(Recvs(mainQ))
    PROVE  JobSum' = JobSum
  BY DEF JobSum, recvVars

\* A packet arrives in a free one of the connection.
LEMMA InboxPInv ==
    ASSUME PInv, NEW m \in Messages, recvPool > 0, rest' \in Nat,
           inbox' = Append(inbox, m), recvPool' = recvPool - 1,
           UNCHANGED <<ctlVars, readQ, msgs, mainQ, sendVars, diskVars>>
    PROVE  PInv'
  <1>1. Typed
      BY DEF PInv
  <1>2. Typed'
      BY <1>1 DEF Typed, sendVars, diskVars, cacheVars
  <1>3. SendSum' = SendSum
      BY SendFrame DEF diskVars, cacheVars
  <1>4. Len(inbox') = Len(inbox) + 1
      BY <1>1 DEF Typed
  <1>5. JobSum' = JobSum
    <2>1. /\ UNCHANGED <<readQ, mainQ, msgs, disk>> /\ recvPool \in Nat /\ disk \in Nat
          /\ recvPool' = recvPool - 1
        BY <1>1 DEF diskVars, cacheVars, Typed
    <2> QED
        BY <1>1, <1>4, <2>1, SumsType DEF JobSum
  <1> QED
      BY <1>2, <1>3, <1>5, Kept DEF ctlVars, diskVars

LEMMA RequestPInv ==
    ASSUME PInv, NEW kind \in {"response", "read"}, NEW size \in 1..MaxMessage, Request(kind, size)
    PROVE  PInv'
  <1>1. [kind |-> kind, size |-> size] \in Messages /\ size - 1 \in Nat
      BY SizesNat DEF Request, Messages, Kinds
  <1> QED
      BY <1>1, InboxPInv DEF Request, Arrive

LEMMA AnswerPInv ==
    ASSUME PInv, NEW kind \in {"responseIn", "readIn"}, NEW size \in 1..MaxMessage,
           Answer(kind, size)
    PROVE  PInv'
  <1>1. [kind |-> kind, size |-> size] \in Messages /\ size - 1 \in Nat
      BY SizesNat DEF Messages, Kinds
  <1> QED
      BY <1>1, InboxPInv DEF Answer, Arrive

LEMMA NotificationPInv == PInv /\ Notification => PInv'
  <1> SUFFICES ASSUME PInv, Notification PROVE PInv'
      OBVIOUS
  <1>1. [kind |-> "notify", size |-> 1] \in Messages /\ 1 - 1 \in Nat
      BY DEF Messages, Kinds
  <1> QED
      BY <1>1, InboxPInv DEF Notification, Arrive

LEMMA ArriveRestPInv == PInv /\ ArriveRest => PInv'
  <1> SUFFICES ASSUME PInv, ArriveRest PROVE PInv'
      OBVIOUS
  <1>1. [kind |-> "rest", size |-> 0] \in Messages
      BY DEF Messages, Kinds
  <1>2. rest - 1 \in Nat
      BY DEF ArriveRest, PInv, Typed
  <1> QED
      BY <1>1, <1>2, InboxPInv DEF ArriveRest

\* A task without packets is scheduled.
LEMMA NewTaskPInv ==
    ASSUME PInv, NEW job \in {"fuse", "release", "response"}, mainQ' = Append(mainQ, Task(job, 0, 0)),
           UNCHANGED <<ctlVars, recvVars, sendVars, diskVars>>
    PROVE  PInv'
  <1>1. Typed
      BY DEF PInv
  <1>2. Task(job, 0, 0) \in Tasks /\ Task(job, 0, 0).send = 0 /\ Task(job, 0, 0).recv = 0
      BY DEF Task, Tasks, Kinds
  <1>3. mainQ \in Seq(Tasks)
      BY <1>1 DEF Typed
  <1>4. /\ mainQ' \in Seq(Tasks)
        /\ Total(Sends(mainQ')) = Total(Sends(mainQ)) + 0
        /\ Total(Recvs(mainQ')) = Total(Recvs(mainQ)) + 0
      BY <1>2, <1>3, MainAppend
  <1>5. Total(Sends(mainQ')) = Total(Sends(mainQ)) /\ Total(Recvs(mainQ')) = Total(Recvs(mainQ))
      BY <1>1, <1>4, SumsType
  <1>6. Typed'
      BY <1>1, <1>4 DEF Typed, recvVars, sendVars, diskVars, cacheVars
  <1>7. SendSum' = SendSum /\ JobSum' = JobSum
      BY <1>5, SendFrame, RecvFrame DEF diskVars, cacheVars
  <1> QED
      BY <1>6, <1>7, Kept DEF ctlVars, diskVars

LEMMA AckPInv == PInv /\ Ack => PInv'
  <1> SUFFICES ASSUME PInv, Ack PROVE PInv'
      OBVIOUS
  <1>1. Typed
      BY DEF PInv
  <1>2. Typed'
      BY <1>1 DEF Typed, Ack, recvVars, diskVars, cacheVars
  <1>3. JobSum' = JobSum
      BY RecvFrame DEF Ack, diskVars, cacheVars
  <1>4. SendSum' = SendSum
    <2>1. /\ UNCHANGED <<mainQ, free, writeQ, lost, disk>>
          /\ flight' = flight - 1 /\ user' = user + 1
        BY DEF Ack, diskVars, cacheVars
    <2>2. free \in Nat /\ user \in Nat /\ flight \in Nat /\ lost \in Nat
        BY <1>1 DEF Typed
    <2> QED
        BY <1>1, <2>1, <2>2, SumsType DEF SendSum
  <1> QED
      BY <1>2, <1>3, <1>4, Kept DEF Ack, ctlVars, diskVars

\* Steps that move no packet: RequestStop, EndThread, and no step at all.
LEMMA NothingMovesPInv ==
    ASSUME PInv, ~stop' => ~stop, UNCHANGED <<recvVars, mainQ, sendVars, diskVars>>
    PROVE  PInv'
  <1>1. Typed'
      BY DEF PInv, Typed, recvVars, sendVars, diskVars, cacheVars
  <1>2. SendSum' = SendSum /\ JobSum' = JobSum
      BY SendFrame, RecvFrame DEF diskVars, cacheVars
  <1> QED
      BY <1>1, <1>2, Kept DEF diskVars

\* The read thread.
LEMMA RecvFirstPInv == PInv /\ RecvFirst => PInv'
  <1> SUFFICES ASSUME PInv, RecvFirst PROVE PInv'
      OBVIOUS
  <1>1. Typed
      BY DEF PInv
  <1>2. Typed'
      BY <1>1 DEF Typed, RecvFirst, sendVars, diskVars, cacheVars
  <1>3. SendSum' = SendSum
      BY SendFrame DEF RecvFirst, diskVars, cacheVars
  <1>4. Len(msgs) = 0 /\ Len(msgs') = Len(inbox) /\ Len(inbox') = 0
      BY DEF RecvFirst
  <1>5. JobSum' = JobSum
    <2>1. UNCHANGED <<readQ, recvPool, mainQ, disk>> /\ recvPool \in Nat /\ disk \in Nat
        BY <1>1 DEF RecvFirst, diskVars, cacheVars, Typed
    <2> QED
        BY <1>1, <1>4, <2>1, SumsType DEF JobSum
  <1> QED
      BY <1>2, <1>3, <1>5, Kept DEF RecvFirst, ctlVars, diskVars

\* MessageTypeReadJob holds no packets of its own.
LEMMA ReadAgain ==
    ASSUME Typed, ReadsMessage
    PROVE  /\ Append(Tail(readQ), MessageRead) \in Seq(Nat) /\ Tail(readQ) \in Seq(Nat)
           /\ Total(Append(Tail(readQ), MessageRead)) = Total(readQ)
  <1>1. readQ \in Seq(Nat) /\ readQ # <<>> /\ Head(readQ) = 0
      BY DEF Typed, ReadsMessage, ReadRuns, MessageRead
  <1>2. Tail(readQ) \in Seq(Nat) /\ Total(readQ) = 0 + Total(Tail(readQ))
      BY <1>1, TotalTail
  <1>3. /\ Append(Tail(readQ), 0) \in Seq(Nat)
        /\ Total(Append(Tail(readQ), 0)) = Total(Tail(readQ)) + 0
      BY <1>2, TotalAppend
  <1>4. Total(Tail(readQ)) \in Nat
      BY <1>2, UnitsFinite
  <1> QED
      BY <1>2, <1>3, <1>4 DEF MessageRead

LEMMA RecvMorePInv == PInv /\ RecvMore => PInv'
  <1> SUFFICES ASSUME PInv, RecvMore PROVE PInv'
      OBVIOUS
  <1>1. Typed
      BY DEF PInv
  <1>2. readQ' \in Seq(Nat) /\ Total(readQ') = Total(readQ)
      BY <1>1, ReadAgain DEF RecvMore
  <1>3. /\ msgs' \in Seq(Messages) /\ inbox' \in Seq(Messages)
        /\ Len(msgs') = Len(msgs) + Len(inbox) /\ Len(inbox') = 0
      BY <1>1 DEF RecvMore, Typed
  <1>4. Typed'
      BY <1>1, <1>2, <1>3 DEF Typed, RecvMore, sendVars, diskVars, cacheVars
  <1>5. SendSum' = SendSum
      BY SendFrame DEF RecvMore, diskVars, cacheVars
  <1>6. JobSum' = JobSum
    <2>1. UNCHANGED <<recvPool, mainQ, disk>> /\ recvPool \in Nat /\ disk \in Nat
        BY <1>1 DEF RecvMore, diskVars, cacheVars, Typed
    <2> QED
        BY <1>1, <1>2, <1>3, <2>1, SumsType DEF JobSum
  <1> QED
      BY <1>4, <1>5, <1>6, Kept DEF RecvMore, ctlVars, diskVars

\* The packets of a message that is cut short are not counted: stop was requested.
LEMMA RecvStoppedPInv == PInv /\ RecvStopped => PInv'
  <1> SUFFICES ASSUME PInv, RecvStopped PROVE PInv'
      OBVIOUS
  <1>1. Typed
      BY DEF PInv
  <1>2. readQ' \in Seq(Nat)
      BY <1>1, ReadAgain DEF RecvStopped
  <1>3. Typed'
      BY <1>1, <1>2 DEF Typed, RecvStopped, sendVars, diskVars, cacheVars
  <1>4. stop'
      BY DEF RecvStopped, ctlVars
  <1> QED
      BY <1>3, <1>4 DEF PInv, PacketsConserved

LEMMA DispatchPInv == PInv /\ Dispatch => PInv'
  <1> SUFFICES ASSUME PInv, Dispatch PROVE PInv'
      OBVIOUS
  <1>1. Typed
      BY DEF PInv
  <1> DEFINE m == Head(msgs)
             t == Task(m.kind, m.size, 0)
  <1>2. m \in Messages /\ m.size \in Nat /\ Len(msgs) \in Nat /\ m.size <= Len(msgs)
      BY <1>1 DEF Typed, Dispatch, Messages
  <1>3. t \in Tasks /\ t.send = 0 /\ t.recv = m.size
      BY <1>2 DEF Task, Tasks, Messages, Kinds
  <1>4. /\ mainQ' = Append(mainQ, t) /\ msgs' = SubSeq(msgs, m.size + 1, Len(msgs))
        /\ readQ' = Append(Tail(readQ), MessageRead)
      BY DEF Dispatch, Reschedule
  <1>5. readQ' \in Seq(Nat) /\ Total(readQ') = Total(readQ)
      BY <1>1, <1>4, ReadAgain DEF Dispatch
  <1>6. msgs' \in Seq(Messages) /\ Len(msgs') = Len(msgs) - m.size
    <2>1. msgs \in Seq(Messages)
        BY <1>1 DEF Typed
    <2>2. PICK k \in Nat : k = m.size
        BY <1>2
    <2>3. msgs' = SubSeq(msgs, k + 1, Len(msgs)) /\ k <= Len(msgs)
        BY <1>2, <1>4, <2>2
    <2> HIDE DEF m
    <2> QED
        BY <1>2, <2>1, <2>2, <2>3
  <1>7. /\ mainQ' \in Seq(Tasks)
        /\ Total(Sends(mainQ')) = Total(Sends(mainQ)) + 0
        /\ Total(Recvs(mainQ')) = Total(Recvs(mainQ)) + m.size
    <2>1. mainQ \in Seq(Tasks)
        BY <1>1 DEF Typed
    <2> HIDE DEF t
    <2> QED
        BY <1>3, <1>4, <2>1, MainAppend
  <1> HIDE DEF t, m
  <1>8. Typed'
      BY <1>1, <1>5, <1>6, <1>7 DEF Typed, Dispatch, sendVars, diskVars, cacheVars
  <1>9. Total(Sends(mainQ')) = Total(Sends(mainQ))
      BY <1>1, <1>7, SumsType
  <1>10. SendSum' = SendSum
      BY <1>9, SendFrame DEF Dispatch, diskVars, cacheVars
  <1>11. JobSum' = JobSum
    <2>1. UNCHANGED <<recvPool, inbox, disk>> /\ recvPool \in Nat /\ disk \in Nat
        BY <1>1 DEF Dispatch, diskVars, cacheVars, Typed
    <2>2. Len(inbox) \in Nat /\ Total(readQ) \in Nat /\ Total(Recvs(mainQ)) \in Nat
        BY <1>1, SumsType
    <2>3. PICK p, i, g, d, q, r, z \in Nat :
              /\ p = recvPool /\ i = Len(inbox) /\ g = Len(msgs) /\ d = disk
              /\ q = Total(readQ) /\ r = Total(Recvs(mainQ)) /\ z = m.size
        BY <1>2, <2>1, <2>2, Zenon
    <2>4. p + i + (g - z) + d + q + (r + z) = p + i + g + d + q + r
        OBVIOUS
    <2>5. JobSum' = recvPool + Len(inbox) + (Len(msgs) - m.size) + disk + Total(readQ)
                       + (Total(Recvs(mainQ)) + m.size)
        BY <1>5, <1>6, <1>7, <2>1 DEF JobSum
    <2> QED
        BY <2>3, <2>4, <2>5, Zenon DEF JobSum
  <1> QED
      BY <1>8, <1>10, <1>11, Kept DEF Dispatch, ctlVars, diskVars

LEMMA FreeRecvPacketsPInv == PInv /\ FreeRecvPackets => PInv'
  <1> SUFFICES ASSUME PInv, FreeRecvPackets PROVE PInv'
      OBVIOUS
  <1>1. Typed
      BY DEF PInv
  <1>2. readQ \in Seq(Nat) /\ readQ # <<>>
      BY <1>1 DEF Typed, FreeRecvPackets, ReadRuns
  <1>3. /\ Head(readQ) \in Nat /\ readQ' \in Seq(Nat)
        /\ Total(readQ) = Head(readQ) + Total(readQ')
      BY <1>2, TotalTail DEF FreeRecvPackets
  <1>4. Typed'
      BY <1>1, <1>3 DEF Typed, FreeRecvPackets, sendVars, diskVars, cacheVars
  <1>5. SendSum' = SendSum
      BY SendFrame DEF FreeRecvPackets, diskVars, cacheVars
  <1>6. JobSum' = JobSum
    <2>1. /\ UNCHANGED <<inbox, msgs, mainQ, disk>> /\ recvPool \in Nat /\ disk \in Nat
          /\ recvPool' = recvPool + Head(readQ)
        BY <1>1 DEF FreeRecvPackets, diskVars, cacheVars, Typed
    <2>2. Total(readQ') \in Nat
        BY <1>3, UnitsFinite
    <2>3. Len(inbox) \in Nat /\ Len(msgs) \in Nat /\ Total(Recvs(mainQ)) \in Nat
        BY <1>1, SumsType
    <2>4. PICK p, i, g, d, h, q, r \in Nat :
              /\ p = recvPool /\ i = Len(inbox) /\ g = Len(msgs) /\ d = disk
              /\ h = Head(readQ) /\ q = Total(readQ') /\ r = Total(Recvs(mainQ))
        BY <1>3, <2>1, <2>2, <2>3, Zenon
    <2>5. (p + h) + i + g + d + q + r = p + i + g + d + (h + q) + r
        OBVIOUS
    <2>6. JobSum' = (recvPool + Head(readQ)) + Len(inbox) + Len(msgs) + disk + Total(readQ')
                       + Total(Recvs(mainQ))
        BY <2>1 DEF JobSum
    <2> QED
        BY <1>3, <2>4, <2>5, <2>6, Zenon DEF JobSum
  <1> QED
      BY <1>4, <1>5, <1>6, Kept DEF FreeRecvPackets, ctlVars, diskVars

\* The main thread.  A writer's packet goes from the free ones into the message.
LEMMA WritesMoves ==
    ASSUME Typed, NEW asks \in BOOLEAN, NEW answers \in Nat, Writes(asks, answers)
    PROVE  /\ free' \in Nat /\ user' \in Nat /\ writeQ' \in Seq(Outgoing)
           /\ Total(Sizes(writeQ')) \in Nat
           /\ free' + user' + Total(Sizes(writeQ')) = free + user + Total(Sizes(writeQ))
  <1> DEFINE all == free + (IF asks THEN user ELSE 0)
             w == [n |-> 1, answers |-> answers]
  <1>1. /\ free \in Nat /\ user \in Nat /\ writeQ \in Seq(Outgoing)
        /\ Total(Sizes(writeQ)) \in Nat
      BY SumsType DEF Typed
  <1>2. /\ all \in Nat /\ user' \in Nat
        /\ all + user' = free + user
      BY <1>1 DEF Writes
  <1>3. CASE all = 0
    <2>1. free' = free /\ writeQ' = writeQ
        BY <1>3 DEF Writes
    <2>2. free = 0
        BY <1>1, <1>3
    <2> QED
        BY <1>1, <1>2, <1>3, <2>1, <2>2
  <1>4. CASE all # 0
    <2>1. free' = all - 1 /\ writeQ' = Append(writeQ, w)
        BY <1>4 DEF Writes
    <2>2. w \in Outgoing /\ w.n = 1
        BY DEF Outgoing
    <2> HIDE DEF w, all
    <2>3. /\ writeQ' \in Seq(Outgoing)
          /\ Total(Sizes(writeQ')) = Total(Sizes(writeQ)) + 1
        BY <1>1, <2>1, <2>2, WriteAppend
    <2>4. PICK a, b, c, x, y \in Nat :
              /\ a = free /\ b = user /\ c = Total(Sizes(writeQ)) /\ x = all /\ y = user'
        BY <1>1, <1>2, Zenon
    <2>5. x + y = a + b /\ x # 0
        BY <1>2, <1>4, <2>4, Zenon
    <2>6. x - 1 \in Nat /\ c + 1 \in Nat /\ (x - 1) + y + (c + 1) = a + b + c
        BY <2>5
    <2>7. /\ free' = x - 1 /\ user' = y /\ Total(Sizes(writeQ')) = c + 1
          /\ free + user + Total(Sizes(writeQ)) = a + b + c
        BY <2>1, <2>3, <2>4, Zenon
    <2> QED
        BY <2>3, <2>6, <2>7, Zenon
  <1> QED
      BY <1>3, <1>4

\* The task that runs gives up what it holds.
LEMMA JobRuns ==
    ASSUME Typed, MainRuns, mainQ' = Tail(mainQ)
    PROVE  /\ Job \in Tasks /\ mainQ' \in Seq(Tasks)
           /\ Job.send \in Nat /\ Job.recv \in Nat
           /\ Total(Sends(mainQ)) = Job.send + Total(Sends(mainQ'))
           /\ Total(Recvs(mainQ)) = Job.recv + Total(Recvs(mainQ'))
           /\ Total(Sends(mainQ')) \in Nat /\ Total(Recvs(mainQ')) \in Nat
           /\ Job.job # "unused" => Total(Sends(mainQ')) = Total(Sends(mainQ))
           /\ Job.job \in {"fuse", "unused"} => Total(Recvs(mainQ')) = Total(Recvs(mainQ))
  <1>1. mainQ \in Seq(Tasks) /\ mainQ # <<>>
      BY DEF Typed, MainRuns
  <1>2. /\ Job \in Tasks /\ mainQ' \in Seq(Tasks)
        /\ Total(Sends(mainQ)) = Job.send + Total(Sends(mainQ'))
        /\ Total(Recvs(mainQ)) = Job.recv + Total(Recvs(mainQ'))
      BY <1>1, MainTail DEF Job
  <1>3. Total(Sends(mainQ')) \in Nat /\ Total(Recvs(mainQ')) \in Nat
      BY <1>2, MainTypes, UnitsFinite
  <1>4. /\ Job.send \in Nat /\ Job.recv \in Nat
        /\ Job.job # "unused" => Job.send = 0
        /\ Job.job \in {"fuse", "unused"} => Job.recv = 0
      BY <1>2 DEF Tasks
  <1> QED
      BY <1>2, <1>3, <1>4

\* Free packets become a message: the sum stays.
LEMMA WritesSendSum ==
    ASSUME Typed, NEW asks \in BOOLEAN, NEW answers \in Nat, Writes(asks, answers),
           UNCHANGED <<flight, lost, disk>>, Total(Sends(mainQ')) = Total(Sends(mainQ))
    PROVE  SendSum' = SendSum
  <1>1. /\ free' \in Nat /\ user' \in Nat /\ Total(Sizes(writeQ')) \in Nat
        /\ free' + user' + Total(Sizes(writeQ')) = free + user + Total(Sizes(writeQ))
      BY WritesMoves
  <1>2. /\ free \in Nat /\ user \in Nat /\ flight \in Nat /\ lost \in Nat
        /\ Total(Sizes(writeQ)) \in Nat /\ Total(Sends(mainQ)) \in Nat
        /\ WriterPackets * disk \in Nat
      BY SumsType DEF Typed
  <1>3. PICK a, b, c, a1, b1, c1, f, d, l, m \in Nat :
            /\ a = free /\ b = user /\ c = Total(Sizes(writeQ))
            /\ a1 = free' /\ b1 = user' /\ c1 = Total(Sizes(writeQ'))
            /\ f = flight /\ d = WriterPackets * disk /\ l = lost /\ m = Total(Sends(mainQ))
      BY <1>1, <1>2, Zenon
  <1>4. a1 + b1 + c1 = a + b + c
      BY <1>1, <1>3, Zenon
  <1>5. a1 + b1 + f + d + l + c1 + m = a + b + f + d + l + c + m
      BY <1>4
  <1>6. SendSum' = free' + user' + flight + WriterPackets * disk + lost
                     + Total(Sizes(writeQ')) + Total(Sends(mainQ))
      BY DEF SendSum
  <1> QED
      BY <1>3, <1>5, <1>6, Zenon DEF SendSum

\* What the job holds goes to a FreeRecvPacketsJob: the sum stays.
LEMMA JobRecvSum ==
    ASSUME Typed, MainRuns, mainQ' = Tail(mainQ), readQ' = FreeRecv(Job.recv),
           UNCHANGED <<msgs, inbox, recvPool, disk>>
    PROVE  JobSum' = JobSum
  <1>1. /\ Job.recv \in Nat /\ Total(Recvs(mainQ')) \in Nat
        /\ Total(Recvs(mainQ)) = Job.recv + Total(Recvs(mainQ'))
      BY JobRuns
  <1>2. Total(readQ') = Total(readQ) + Job.recv
      BY <1>1, FreeRecvTotal
  <1>3. /\ recvPool \in Nat /\ Len(inbox) \in Nat /\ Len(msgs) \in Nat /\ disk \in Nat
        /\ Total(readQ) \in Nat
      BY SumsType DEF Typed
  <1>4. PICK p, i, g, d, q, r, z \in Nat :
            /\ p = recvPool /\ i = Len(inbox) /\ g = Len(msgs) /\ d = disk
            /\ q = Total(readQ) /\ r = Total(Recvs(mainQ')) /\ z = Job.recv
      BY <1>1, <1>3, Zenon
  <1>5. p + i + g + d + (q + z) + r = p + i + g + d + q + (z + r)
      OBVIOUS
  <1>6. JobSum' = recvPool + Len(inbox) + Len(msgs) + disk + (Total(readQ) + Job.recv)
                     + Total(Recvs(mainQ'))
      BY <1>2 DEF JobSum
  <1> QED
      BY <1>1, <1>4, <1>5, <1>6, Zenon DEF JobSum

LEMMA FuseNetworkPInv == PInv /\ FuseNetwork => PInv'
  <1> SUFFICES ASSUME PInv, FuseNetwork PROVE PInv'
      OBVIOUS
  <1>1. Typed
      BY DEF PInv
  <1>2. MainRuns /\ mainQ' = Tail(mainQ) /\ Job.job = "fuse" /\ Writes(free = 0, 0)
      BY DEF FuseNetwork
  <1>3. /\ mainQ' \in Seq(Tasks) /\ Total(Sends(mainQ')) = Total(Sends(mainQ))
        /\ Total(Recvs(mainQ')) = Total(Recvs(mainQ))
      BY <1>1, <1>2, JobRuns
  <1>4. (free = 0) \in BOOLEAN /\ 0 \in Nat
      OBVIOUS
  <1>5. free' \in Nat /\ user' \in Nat /\ writeQ' \in Seq(Outgoing)
      BY <1>1, <1>2, <1>4, WritesMoves
  <1>6. Typed'
      BY <1>1, <1>3, <1>5 DEF Typed, FuseNetwork, recvVars, diskVars, cacheVars
  <1>7. SendSum' = SendSum
      BY <1>1, <1>2, <1>3, <1>4, WritesSendSum DEF FuseNetwork, diskVars, cacheVars
  <1>8. JobSum' = JobSum
      BY <1>3, RecvFrame DEF FuseNetwork, diskVars, cacheVars
  <1> QED
      BY <1>6, <1>7, <1>8, Kept DEF FuseNetwork, diskVars

LEMMA ResponseFuseNetworkPInv == PInv /\ ResponseFuseNetwork => PInv'
  <1> SUFFICES ASSUME PInv, ResponseFuseNetwork PROVE PInv'
      OBVIOUS
  <1>1. Typed
      BY DEF PInv
  <1>2. PICK answers \in {0, 1} : Writes(free < LowPackets, answers)
      BY DEF ResponseFuseNetwork
  <1>3. /\ MainRuns /\ mainQ' = Tail(mainQ) /\ Job.job = "response"
        /\ readQ' = FreeRecv(Job.recv) /\ UNCHANGED <<msgs, inbox, recvPool, disk, flight, lost>>
      BY DEF ResponseFuseNetwork, diskVars, cacheVars
  <1>4. /\ mainQ' \in Seq(Tasks) /\ Total(Sends(mainQ')) = Total(Sends(mainQ))
        /\ Job.recv \in Nat
      BY <1>1, <1>3, JobRuns
  <1>5. (free < LowPackets) \in BOOLEAN /\ answers \in Nat
      OBVIOUS
  <1>6. free' \in Nat /\ user' \in Nat /\ writeQ' \in Seq(Outgoing)
      BY <1>1, <1>2, <1>5, WritesMoves
  <1>7. readQ' \in Seq(Nat)
      BY <1>1, <1>3, <1>4, FreeRecvTotal
  <1>8. Typed'
      BY <1>1, <1>4, <1>6, <1>7 DEF Typed, ResponseFuseNetwork, diskVars, cacheVars
  <1>9. SendSum' = SendSum
      BY <1>1, <1>2, <1>3, <1>4, <1>5, WritesSendSum
  <1>10. JobSum' = JobSum
      BY <1>1, <1>3, JobRecvSum
  <1> QED
      BY <1>8, <1>9, <1>10, Kept DEF ResponseFuseNetwork, diskVars

\* WriterPackets send packets and the packet of the request go to a disk thread.
LEMMA ResponseReadAllocPInv == PInv /\ ResponseReadAlloc => PInv'
  <1> SUFFICES ASSUME PInv, ResponseReadAlloc PROVE PInv'
      OBVIOUS
  <1>1. Typed
      BY DEF PInv
  <1>2. /\ MainRuns /\ mainQ' = Tail(mainQ) /\ Job.job = "read"
        /\ free + user >= WriterPackets
        /\ free' = free + user - WriterPackets /\ user' = 0
        /\ UNCHANGED <<stop, readQ, msgs, inbox, rest, recvPool, writeQ, flight, lost>>
        /\ UNCHANGED <<cacheQ, cached, dropped>>
      BY DEF ResponseReadAlloc, ctlVars, recvVars, cacheVars
  <1>3. /\ mainQ' \in Seq(Tasks) /\ Total(Sends(mainQ')) = Total(Sends(mainQ))
        /\ Total(Recvs(mainQ')) \in Nat
        /\ Total(Recvs(mainQ)) = Job.recv + Total(Recvs(mainQ')) /\ Job \in Tasks
      BY <1>1, <1>2, JobRuns
  <1>4. Job.recv = 1
      BY <1>2, <1>3 DEF Tasks
  <1>5. free \in Nat /\ user \in Nat /\ WriterPackets \in Nat /\ disk \in Nat
      BY <1>1, SizesNat DEF Typed
  <1>6. free' \in Nat /\ user' \in Nat
      BY <1>2, <1>5
  <1>7. disk' \in Nat /\ (~stop => disk' = disk + 1)
      BY <1>5 DEF ResponseReadAlloc
  <1>8. Typed'
      BY <1>1, <1>2, <1>3, <1>6, <1>7 DEF Typed
  <1>9. /\ flight \in Nat /\ lost \in Nat /\ recvPool \in Nat
        /\ Total(Sizes(writeQ)) \in Nat /\ Total(Sends(mainQ)) \in Nat
        /\ Len(inbox) \in Nat /\ Len(msgs) \in Nat /\ Total(readQ) \in Nat
        /\ WriterPackets * disk \in Nat
      BY <1>1, SumsType DEF Typed
  <1>10. ASSUME ~stop PROVE SendSum' = SendSum
    <2>1. disk' = disk + 1
        BY <1>7, <1>10
    <2>2. WriterPackets * (disk + 1) = WriterPackets * disk + WriterPackets
        BY <1>5
    <2>3. PICK a, b, f, d, l, c, m, w \in Nat :
              /\ a = free /\ b = user /\ f = flight /\ d = WriterPackets * disk /\ l = lost
              /\ c = Total(Sizes(writeQ)) /\ m = Total(Sends(mainQ)) /\ w = WriterPackets
        BY <1>5, <1>9, Zenon
    <2>4. (a + b - w) + 0 + f + (d + w) + l + c + m = a + b + f + d + l + c + m
        OBVIOUS
    <2>5. SendSum' = (free + user - WriterPackets) + 0 + flight + WriterPackets * (disk + 1) + lost
                       + Total(Sizes(writeQ)) + Total(Sends(mainQ))
        BY <1>2, <1>3, <2>1 DEF SendSum
    <2> QED
        BY <2>2, <2>3, <2>4, <2>5, Zenon DEF SendSum
  <1>11. ASSUME ~stop PROVE JobSum' = JobSum
    <2>1. disk' = disk + 1
        BY <1>7, <1>11
    <2>2. PICK p, i, g, d, q, r \in Nat :
              /\ p = recvPool /\ i = Len(inbox) /\ g = Len(msgs) /\ d = disk
              /\ q = Total(readQ) /\ r = Total(Recvs(mainQ'))
        BY <1>3, <1>5, <1>9, Zenon
    <2>3. p + i + g + (d + 1) + q + r = p + i + g + d + q + (1 + r)
        OBVIOUS
    <2>4. JobSum' = recvPool + Len(inbox) + Len(msgs) + (disk + 1) + Total(readQ) + Total(Recvs(mainQ'))
        BY <1>2, <2>1 DEF JobSum
    <2> QED
        BY <1>3, <1>4, <2>2, <2>3, <2>4, Zenon DEF JobSum
  <1> QED
      BY <1>2, <1>8, <1>10, <1>11, Kept DEF ResponseReadAlloc

LEMMA ReturnUnusedPInv == PInv /\ ReturnUnused => PInv'
  <1> SUFFICES ASSUME PInv, ReturnUnused PROVE PInv'
      OBVIOUS
  <1>1. Typed
      BY DEF PInv
  <1>2. /\ MainRuns /\ mainQ' = Tail(mainQ) /\ Job.job = "unused" /\ free' = free + Job.send
        /\ UNCHANGED <<user, writeQ, flight, lost, disk>>
      BY DEF ReturnUnused, diskVars, cacheVars
  <1>3. /\ mainQ' \in Seq(Tasks) /\ Job.send \in Nat /\ Total(Sends(mainQ')) \in Nat
        /\ Total(Sends(mainQ)) = Job.send + Total(Sends(mainQ'))
        /\ Total(Recvs(mainQ')) = Total(Recvs(mainQ))
      BY <1>1, <1>2, JobRuns
  <1>4. free \in Nat /\ free' \in Nat
      BY <1>1, <1>2, <1>3 DEF Typed
  <1>5. Typed'
      BY <1>1, <1>3, <1>4 DEF Typed, ReturnUnused, recvVars, diskVars, cacheVars
  <1>6. /\ user \in Nat /\ flight \in Nat /\ lost \in Nat
        /\ Total(Sizes(writeQ)) \in Nat /\ WriterPackets * disk \in Nat
      BY <1>1, SumsType DEF Typed
  <1>7. SendSum' = SendSum
    <2>1. PICK a, b, f, d, l, c, m, z \in Nat :
              /\ a = free /\ b = user /\ f = flight /\ d = WriterPackets * disk /\ l = lost
              /\ c = Total(Sizes(writeQ)) /\ m = Total(Sends(mainQ')) /\ z = Job.send
        BY <1>3, <1>4, <1>6, Zenon
    <2>2. (a + z) + b + f + d + l + c + m = a + b + f + d + l + c + (z + m)
        OBVIOUS
    <2>3. SendSum' = (free + Job.send) + user + flight + WriterPackets * disk + lost
                       + Total(Sizes(writeQ)) + Total(Sends(mainQ'))
        BY <1>2 DEF SendSum
    <2> QED
        BY <1>3, <2>1, <2>2, <2>3, Zenon DEF SendSum
  <1>8. JobSum' = JobSum
      BY <1>3, RecvFrame DEF ReturnUnused, diskVars, cacheVars
  <1> QED
      BY <1>5, <1>7, <1>8, Kept DEF ReturnUnused, ctlVars, diskVars

\* It goes there in part, and the rest to the cache.
LEMMA JobSplitSum ==
    ASSUME Typed, MainRuns, mainQ' = Tail(mainQ), NEW k \in Nat, NEW z \in Nat,
           Job.recv = k + z, readQ' = FreeRecv(k), UNCHANGED <<msgs, inbox, recvPool, disk>>
    PROVE  JobSum' \in Nat /\ JobSum = JobSum' + z
  <1>1. /\ Total(Recvs(mainQ')) \in Nat
        /\ Total(Recvs(mainQ)) = (k + z) + Total(Recvs(mainQ'))
      BY JobRuns
  <1>2. Total(readQ') = Total(readQ) + k
      BY FreeRecvTotal
  <1>3. /\ recvPool \in Nat /\ Len(inbox) \in Nat /\ Len(msgs) \in Nat /\ disk \in Nat
        /\ Total(readQ) \in Nat
      BY SumsType DEF Typed
  <1>4. PICK p, i, g, d, q, r \in Nat :
            /\ p = recvPool /\ i = Len(inbox) /\ g = Len(msgs) /\ d = disk
            /\ q = Total(readQ) /\ r = Total(Recvs(mainQ'))
      BY <1>1, <1>3, Zenon
  <1>5. /\ p + i + g + d + (q + k) + r \in Nat
        /\ p + i + g + d + q + ((k + z) + r) = (p + i + g + d + (q + k) + r) + z
      OBVIOUS
  <1>6. JobSum' = recvPool + Len(inbox) + Len(msgs) + disk + (Total(readQ) + k)
                     + Total(Recvs(mainQ'))
      BY <1>2 DEF JobSum
  <1> QED
      BY <1>1, <1>4, <1>5, <1>6, Zenon DEF JobSum

\* What the cache gives back goes to a FreeRecvPacketsJob.
LEMMA CacheGivesSum ==
    ASSUME Typed, NEW k \in Nat, readQ' = FreeRecv(k),
           UNCHANGED <<msgs, inbox, recvPool, disk, mainQ>>
    PROVE  readQ' \in Seq(Nat) /\ JobSum' = JobSum + k
  <1>1. readQ' \in Seq(Nat) /\ Total(readQ') = Total(readQ) + k
      BY FreeRecvTotal
  <1>2. /\ recvPool \in Nat /\ Len(inbox) \in Nat /\ Len(msgs) \in Nat /\ disk \in Nat
        /\ Total(readQ) \in Nat /\ Total(Recvs(mainQ)) \in Nat
      BY SumsType DEF Typed
  <1>3. PICK p, i, g, d, q, r \in Nat :
            /\ p = recvPool /\ i = Len(inbox) /\ g = Len(msgs) /\ d = disk
            /\ q = Total(readQ) /\ r = Total(Recvs(mainQ))
      BY <1>2, Zenon
  <1>4. p + i + g + d + (q + k) + r = (p + i + g + d + q + r) + k
      OBVIOUS
  <1>5. JobSum' = recvPool + Len(inbox) + Len(msgs) + disk + (Total(readQ) + k)
                     + Total(Recvs(mainQ))
      BY <1>1 DEF JobSum
  <1> QED
      BY <1>1, <1>3, <1>4, <1>5, Zenon DEF JobSum

LEMMA SumsNat ==
    ASSUME Typed
    PROVE  JobSum \in Nat /\ CacheSum \in Nat
  <1>1. /\ recvPool \in Nat /\ Len(inbox) \in Nat /\ Len(msgs) \in Nat /\ disk \in Nat
        /\ Total(readQ) \in Nat /\ Total(Recvs(mainQ)) \in Nat
        /\ Total(Sizes(cacheQ)) \in Nat /\ cached \in Nat /\ dropped \in Nat
      BY SumsType DEF Typed
  <1>2. JobSum \in Nat
      BY <1>1 DEF JobSum
  <1>3. CacheSum \in Nat
      BY <1>1 DEF CacheSum
  <1> QED
      BY <1>2, <1>3

\* Blocks that are destroyed are counted in dropped.
LEMMA DestroysSum ==
    ASSUME Typed, Destroys, Total(Sizes(cacheQ)') = Total(Sizes(cacheQ))
    PROVE  cached' \in Nat /\ dropped' \in Nat /\ CacheSum' = CacheSum
  <1>1. PICK d \in 0..cached : cached' = cached - d /\ dropped' = dropped + d
      BY DEF Destroys
  <1>2. PICK c, x, q \in Nat : c = cached /\ x = dropped /\ q = Total(Sizes(cacheQ))
      BY SumsType DEF Typed
  <1>3. d \in Nat /\ d <= c
      BY <1>1, <1>2
  <1>4. c - d \in Nat /\ x + d \in Nat /\ q + (c - d) + (x + d) = q + c + x
      BY <1>3
  <1>5. CacheSum' = q + (c - d) + (x + d) /\ CacheSum = q + c + x
      BY <1>1, <1>2 DEF CacheSum
  <1> QED
      BY <1>1, <1>2, <1>4, <1>5

\* A task of the cache tree queue is scheduled.
LEMMA CacheTaskSum ==
    ASSUME Typed, NEW job \in {"apply", "write", "invalidate"}, NEW n \in Nat,
           job = "invalidate" => n = 0,
           cacheQ' = Append(cacheQ, CacheTask(job, n)), UNCHANGED <<cached, dropped>>
    PROVE  cacheQ' \in Seq(Cachings) /\ CacheSum' = CacheSum + n
  <1>1. CacheTask(job, n) \in Cachings /\ CacheTask(job, n).n = n /\ cacheQ \in Seq(Cachings)
      BY DEF CacheTask, Cachings, Typed
  <1>2. cacheQ' \in Seq(Cachings) /\ Total(Sizes(cacheQ')) = Total(Sizes(cacheQ)) + n
      BY <1>1, CacheAppend
  <1>3. PICK c, x, q \in Nat : c = cached /\ x = dropped /\ q = Total(Sizes(cacheQ))
      BY SumsType DEF Typed
  <1>4. CacheSum' = (q + n) + c + x /\ CacheSum = q + c + x
      BY <1>2, <1>3 DEF CacheSum
  <1> QED
      BY <1>2, <1>4

\* The data of a read goes to the cache, and what a notification destroys is there already.
LEMMA ResponseInPInv == PInv /\ ResponseIn => PInv'
  <1> SUFFICES ASSUME PInv, ResponseIn PROVE PInv'
      OBVIOUS
  <1>1. Typed
      BY DEF PInv
  <1>2. /\ MainRuns /\ mainQ' = Tail(mainQ) /\ UNCHANGED <<msgs, inbox, recvPool, disk, stop>>
        /\ Job.job \in InJobs
      BY DEF ResponseIn, ctlVars, InJobs
  <1>3. Job.job # "unused"
      BY <1>2 DEF InJobs
  <1>4. /\ mainQ' \in Seq(Tasks) /\ Total(Sends(mainQ')) = Total(Sends(mainQ))
        /\ Job.recv \in Nat /\ Job \in Tasks
      BY <1>1, <1>2, <1>3, JobRuns
  <1>5. SendSum' = SendSum
      BY <1>4, SendFrame DEF ResponseIn
  <1>6. ASSUME readQ' \in Seq(Nat), cacheQ' \in Seq(Cachings), cached' \in Nat, dropped' \in Nat
        PROVE  Typed'
      BY <1>1, <1>4, <1>6 DEF Typed, ResponseIn, sendVars
  <1>7. /\ cacheQ \in Seq(Cachings) /\ cached \in Nat /\ dropped \in Nat
        /\ JobSum \in Nat /\ CacheSum \in Nat
      BY <1>1, SumsNat DEF Typed
  <1>8. CASE Job.job = "responseIn"
    <2>1. readQ' = FreeRecv(Job.recv) /\ UNCHANGED cacheVars
        BY <1>8 DEF ResponseIn
    <2>2. readQ' \in Seq(Nat) /\ JobSum' = JobSum
        BY <1>1, <1>2, <1>4, <2>1, FreeRecvTotal, JobRecvSum
    <2>3. Typed'
        BY <1>6, <1>7, <2>1, <2>2 DEF cacheVars
    <2> QED
        BY <1>2, <1>5, <2>1, <2>2, <2>3, Kept
  <1>9. CASE Job.job = "readIn"
    <2>1. /\ readQ' = FreeRecv(1) /\ UNCHANGED <<cached, dropped>>
          /\ cacheQ' = Append(cacheQ, CacheTask("apply", Job.recv - 1))
        BY <1>9 DEF ResponseIn
    <2>2. Job.recv > 0
        BY <1>4, <1>9 DEF Tasks
    <2>3. PICK z \in Nat : z = Job.recv - 1
        BY <1>4, <2>2
    <2>4. Job.recv = 1 + z /\ cacheQ' = Append(cacheQ, CacheTask("apply", z))
        BY <1>4, <2>1, <2>3
    <2>5. JobSum' \in Nat /\ JobSum = JobSum' + z /\ readQ' \in Seq(Nat)
        BY <1>1, <1>2, <2>1, <2>4, JobSplitSum, FreeRecvTotal
    <2>6. cacheQ' \in Seq(Cachings) /\ CacheSum' = CacheSum + z
        BY <1>1, <2>1, <2>4, CacheTaskSum
    <2>7. Typed'
        BY <1>6, <1>7, <2>1, <2>5, <2>6
    <2>8. JobSum' + CacheSum' = JobSum + CacheSum
        BY <1>7, <2>5, <2>6
    <2> QED
        BY <1>2, <1>5, <2>7, <2>8, KeptWithCache
  <1>10. ASSUME readQ' = FreeRecv(Job.recv), cacheQ' = Append(cacheQ, CacheTask("invalidate", 0)),
                UNCHANGED <<cached, dropped>>
         PROVE  PInv'
    <2>1. readQ' \in Seq(Nat) /\ JobSum' = JobSum
        BY <1>1, <1>2, <1>4, <1>10, FreeRecvTotal, JobRecvSum
    <2>2. cacheQ' \in Seq(Cachings) /\ CacheSum' = CacheSum + 0
        BY <1>1, <1>10, CacheTaskSum
    <2>3. Typed'
        BY <1>6, <1>7, <1>10, <2>1, <2>2
    <2>4. JobSum' + CacheSum' = JobSum + CacheSum
        BY <1>7, <2>1, <2>2
    <2> QED
        BY <1>2, <1>5, <2>3, <2>4, KeptWithCache
  <1>11. ASSUME readQ' = FreeRecv(Job.recv), Destroys, cacheQ' = cacheQ
         PROVE  PInv'
    <2>1. readQ' \in Seq(Nat) /\ JobSum' = JobSum
        BY <1>1, <1>2, <1>4, <1>11, FreeRecvTotal, JobRecvSum
    <2>2. cached' \in Nat /\ dropped' \in Nat /\ CacheSum' = CacheSum
        BY <1>1, <1>11, DestroysSum
    <2>3. Typed'
        BY <1>6, <1>7, <1>11, <2>1, <2>2
    <2> QED
        BY <1>2, <1>5, <2>1, <2>2, <2>3, KeptWithCache
  <1> QED
      BY <1>8, <1>9, <1>10, <1>11, Zenon DEF ResponseIn

\* The cache threads.  What a task of theirs holds is kept, given back, evicted or destroyed.
LEMMA CacheJobRuns ==
    ASSUME Typed, NEW job, CacheRuns(job)
    PROVE  /\ Head(cacheQ).n \in Nat /\ Tail(cacheQ) \in Seq(Cachings)
           /\ Total(Sizes(Tail(cacheQ))) \in Nat
           /\ Total(Sizes(cacheQ)) = Head(cacheQ).n + Total(Sizes(Tail(cacheQ)))
  <1>1. cacheQ \in Seq(Cachings) /\ cacheQ # <<>>
      BY DEF Typed, CacheRuns
  <1>2. /\ Head(cacheQ) \in Cachings /\ Tail(cacheQ) \in Seq(Cachings)
        /\ Total(Sizes(cacheQ)) = Head(cacheQ).n + Total(Sizes(Tail(cacheQ)))
      BY <1>1, CacheTail
  <1>3. Total(Sizes(Tail(cacheQ))) \in Nat
      BY <1>2, CacheTypes, UnitsFinite
  <1> QED
      BY <1>2, <1>3 DEF Cachings

LEMMA ApplyBlockPInv ==
    ASSUME PInv, NEW r \in AddData(Head(cacheQ).n), NEW e \in Nat, ApplyBlock(r, e)
    PROVE  PInv'
  <1>1. Typed
      BY DEF PInv
  <1> DEFINE rest0 == Tail(cacheQ)
             w == CacheTask("write", e)
  <1>2. PICK n \in Nat : n = Head(cacheQ).n
      BY <1>1, CacheJobRuns DEF ApplyBlock
  <1>3. /\ rest0 \in Seq(Cachings) /\ Total(Sizes(rest0)) \in Nat
        /\ Total(Sizes(cacheQ)) = n + Total(Sizes(rest0))
      BY <1>1, <1>2, CacheJobRuns DEF ApplyBlock
  <1>4. PICK k, b, g \in Nat : /\ k = r.kept /\ b = r.back /\ g = r.gone /\ k + b + g = n
      BY <1>2 DEF AddData
  <1>5. /\ e <= cached + k /\ cached' = cached + k - e /\ dropped' = dropped + g
        /\ readQ' = FreeRecv(b)
        /\ cacheQ' = IF e = 0 THEN rest0 ELSE Append(rest0, w)
        /\ UNCHANGED <<stop, msgs, inbox, rest, recvPool, mainQ, sendVars, disk>>
      BY <1>4 DEF ApplyBlock, ctlVars
  <1>6. PICK c, x, q \in Nat : c = cached /\ x = dropped /\ q = Total(Sizes(rest0))
      BY <1>1, <1>3 DEF Typed
  <1>7. cacheQ' \in Seq(Cachings) /\ Total(Sizes(cacheQ')) = q + e
    <2>1. CASE e = 0
        BY <1>3, <1>5, <1>6, <2>1
    <2>2. CASE e # 0
      <3>1. w \in Cachings /\ w.n = e /\ cacheQ' = Append(rest0, w)
          BY <1>5, <2>2 DEF CacheTask, Cachings
      <3> HIDE DEF w, rest0
      <3> QED
          BY <1>3, <1>6, <3>1, CacheAppend
    <2> QED
        BY <2>1, <2>2
  <1>8. cached' = c + k - e /\ dropped' = x + g /\ e <= c + k
      BY <1>5, <1>6
  <1>9. cached' \in Nat /\ dropped' \in Nat
      BY <1>8
  <1>10. readQ' \in Seq(Nat) /\ JobSum' = JobSum + b
      BY <1>1, <1>5, CacheGivesSum
  <1>11. Typed'
      BY <1>1, <1>5, <1>7, <1>9, <1>10 DEF Typed, sendVars
  <1>12. SendSum' = SendSum
      BY <1>5, SendFrame
  <1>13. CacheSum = (n + q) + c + x
      BY <1>3, <1>6 DEF CacheSum
  <1>14. CacheSum' = (q + e) + (c + k - e) + (x + g)
      BY <1>7, <1>8 DEF CacheSum
  <1>15. PICK j \in Nat : j = JobSum
      BY <1>1, SumsNat
  <1>16. (j + b) + ((q + e) + (c + k - e) + (x + g)) = j + ((n + q) + c + x)
      BY <1>4
  <1>17. JobSum' + CacheSum' = JobSum + CacheSum
      BY <1>10, <1>13, <1>14, <1>15, <1>16, Zenon
  <1> QED
      BY <1>5, <1>11, <1>12, <1>17, KeptWithCache

LEMMA WriteBlockPInv == PInv /\ WriteBlock => PInv'
  <1> SUFFICES ASSUME PInv, WriteBlock PROVE PInv'
      OBVIOUS
  <1>1. Typed
      BY DEF PInv
  <1>2. PICK n \in Nat : n = Head(cacheQ).n
      BY <1>1, CacheJobRuns DEF WriteBlock
  <1>3. /\ cacheQ' \in Seq(Cachings) /\ Total(Sizes(cacheQ')) \in Nat
        /\ Total(Sizes(cacheQ)) = n + Total(Sizes(cacheQ'))
      BY <1>1, <1>2, CacheJobRuns DEF WriteBlock
  <1>4. /\ readQ' = FreeRecv(n)
        /\ UNCHANGED <<stop, msgs, inbox, rest, recvPool, mainQ, sendVars, disk, cached, dropped>>
      BY <1>2 DEF WriteBlock, ctlVars
  <1>5. readQ' \in Seq(Nat) /\ JobSum' = JobSum + n
      BY <1>1, <1>4, CacheGivesSum
  <1>6. Typed'
      BY <1>1, <1>3, <1>4, <1>5 DEF Typed, sendVars
  <1>7. SendSum' = SendSum
      BY <1>4, SendFrame
  <1>8. PICK c, x, q, j \in Nat : /\ c = cached /\ x = dropped
                                  /\ q = Total(Sizes(cacheQ')) /\ j = JobSum
      BY <1>1, <1>3, SumsNat DEF Typed
  <1>9. CacheSum = (n + q) + c + x /\ CacheSum' = q + c + x
      BY <1>3, <1>4, <1>8 DEF CacheSum
  <1>10. (j + n) + (q + c + x) = j + ((n + q) + c + x)
      OBVIOUS
  <1>11. JobSum' + CacheSum' = JobSum + CacheSum
      BY <1>5, <1>8, <1>9, <1>10, Zenon
  <1> QED
      BY <1>4, <1>6, <1>7, <1>11, KeptWithCache

LEMMA InvalidateLeafPInv == PInv /\ InvalidateLeaf => PInv'
  <1> SUFFICES ASSUME PInv, InvalidateLeaf PROVE PInv'
      OBVIOUS
  <1>1. Typed
      BY DEF PInv
  <1>2. PICK n \in Nat : n = Head(cacheQ).n
      BY <1>1, CacheJobRuns DEF InvalidateLeaf
  <1>3. n = 0
    <2>1. cacheQ \in Seq(Cachings) /\ cacheQ # <<>> /\ Head(cacheQ).job = "invalidate"
        BY <1>1 DEF Typed, InvalidateLeaf, CacheRuns
    <2>2. Head(cacheQ) \in Cachings
        BY <2>1, CacheTail
    <2> QED
        BY <1>2, <2>1, <2>2 DEF Cachings
  <1>4. /\ cacheQ' \in Seq(Cachings) /\ Total(Sizes(cacheQ')) \in Nat
        /\ Total(Sizes(cacheQ)) = 0 + Total(Sizes(cacheQ'))
      BY <1>1, <1>2, <1>3, CacheJobRuns DEF InvalidateLeaf
  <1>5. Total(Sizes(cacheQ')) = Total(Sizes(cacheQ))
      BY <1>4
  <1>6. cached' \in Nat /\ dropped' \in Nat /\ CacheSum' = CacheSum
      BY <1>1, <1>5, DestroysSum DEF InvalidateLeaf
  <1>7. Typed'
      BY <1>1, <1>4, <1>6 DEF Typed, InvalidateLeaf, recvVars, sendVars
  <1>8. SendSum' = SendSum /\ JobSum' = JobSum
      BY SendFrame, RecvFrame DEF InvalidateLeaf
  <1> QED
      BY <1>6, <1>7, <1>8, KeptWithCache DEF InvalidateLeaf, ctlVars

\* The disk and the write threads.  What a read took is sent, lost or unused.
LEMMA ReadUses ==
    ASSUME NEW n \in 0..DataPackets
    PROVE  \E x \in Nat : /\ Unused(n) \in Nat /\ n \in Nat
                          /\ x = (IF n = 0 THEN DataPackets ELSE 0)
                          /\ (1 + n) + Unused(n) + x = WriterPackets
  <1>1. DataPackets \in Nat /\ WriterPackets \in Nat /\ DataPackets < WriterPackets
      BY SizesNat, HeaderFits
  <1>2. /\ (IF n = 0 THEN DataPackets ELSE 0) \in Nat /\ Unused(n) \in Nat /\ n \in Nat
        /\ (1 + n) + Unused(n) + (IF n = 0 THEN DataPackets ELSE 0) = WriterPackets
      BY <1>1 DEF Unused
  <1> QED
      BY <1>2

LEMMA UnusedTask ==
    ASSUME Typed, NEW u \in Nat,
           mainQ' = IF u = 0 THEN mainQ ELSE Append(mainQ, Task("unused", 0, u))
    PROVE  /\ mainQ' \in Seq(Tasks)
           /\ Total(Sends(mainQ')) = Total(Sends(mainQ)) + u
           /\ Total(Recvs(mainQ')) = Total(Recvs(mainQ))
  <1>1. /\ mainQ \in Seq(Tasks)
        /\ Total(Sends(mainQ)) \in Nat /\ Total(Recvs(mainQ)) \in Nat
      BY SumsType DEF Typed
  <1>2. CASE u = 0
    <2>1. mainQ' = mainQ
        BY <1>2
    <2> QED
        BY <1>1, <1>2, <2>1
  <1>3. CASE u # 0
    <2>1. mainQ' = Append(mainQ, Task("unused", 0, u))
        BY <1>3
    <2>2. /\ Task("unused", 0, u) \in Tasks
          /\ Task("unused", 0, u).send = u /\ Task("unused", 0, u).recv = 0
        BY DEF Task, Tasks
    <2>3. /\ mainQ' \in Seq(Tasks)
          /\ Total(Sends(mainQ')) = Total(Sends(mainQ)) + u
          /\ Total(Recvs(mainQ')) = Total(Recvs(mainQ)) + 0
        BY <1>1, <2>1, <2>2, MainAppend
    <2> QED
        BY <1>1, <2>3
  <1> QED
      BY <1>2, <1>3

LEMMA ResponseReadFilePInv ==
    ASSUME PInv, NEW n \in 0..DataPackets, ResponseReadFile(n)
    PROVE  PInv'
  <1>1. Typed
      BY DEF PInv
  <1>2. PICK x \in Nat : /\ Unused(n) \in Nat /\ n \in Nat
                         /\ x = (IF n = 0 THEN DataPackets ELSE 0)
                         /\ (1 + n) + Unused(n) + x = WriterPackets
      BY ReadUses, Zenon
  <1>3. PICK u \in Nat : u = Unused(n)
      BY <1>2
  <1> DEFINE w == [n |-> 1 + n, answers |-> 1]
  <1>4. /\ disk > 0 /\ disk' = disk - 1 /\ writeQ' = Append(writeQ, w) /\ readQ' = FreeRecv(1)
        /\ mainQ' = IF u = 0 THEN mainQ ELSE Append(mainQ, Task("unused", 0, u))
        /\ UNCHANGED <<stop, msgs, inbox, rest, recvPool, free, user, flight>>
        /\ UNCHANGED <<cacheQ, cached, dropped>>
      BY <1>3 DEF ResponseReadFile, ctlVars, cacheVars
  <1>5. /\ free \in Nat /\ user \in Nat /\ flight \in Nat /\ lost \in Nat /\ disk \in Nat
        /\ recvPool \in Nat /\ writeQ \in Seq(Outgoing)
      BY <1>1 DEF Typed
  <1>6. lost' = lost + x
      BY <1>2, <1>5 DEF ResponseReadFile
  <1>7. w \in Outgoing /\ w.n = 1 + n
      BY <1>2 DEF Outgoing
  <1> HIDE DEF w
  <1>8. writeQ' \in Seq(Outgoing) /\ Total(Sizes(writeQ')) = Total(Sizes(writeQ)) + (1 + n)
      BY <1>4, <1>5, <1>7, WriteAppend
  <1>9. readQ' \in Seq(Nat) /\ Total(readQ') = Total(readQ) + 1
      BY <1>1, <1>4, FreeRecvTotal
  <1>10. /\ mainQ' \in Seq(Tasks)
         /\ Total(Sends(mainQ')) = Total(Sends(mainQ)) + u
         /\ Total(Recvs(mainQ')) = Total(Recvs(mainQ))
      BY <1>1, <1>4, UnusedTask
  <1>11. disk' \in Nat /\ lost' \in Nat
      BY <1>2, <1>4, <1>5, <1>6
  <1>12. Typed'
      BY <1>1, <1>4, <1>8, <1>9, <1>10, <1>11 DEF Typed
  <1>13. /\ Total(Sizes(writeQ)) \in Nat /\ Total(Sends(mainQ)) \in Nat
         /\ Len(inbox) \in Nat /\ Len(msgs) \in Nat /\ Total(readQ) \in Nat
         /\ Total(Recvs(mainQ)) \in Nat /\ WriterPackets \in Nat
      BY <1>1, SumsType
  <1>14. SendSum' = SendSum
    <2>1. WriterPackets * disk = WriterPackets * (disk - 1) + WriterPackets
        BY <1>5, <1>13
    <2>2. disk - 1 \in Nat /\ WriterPackets * (disk - 1) \in Nat
        BY <1>4, <1>5, <1>13
    <2>3. PICK a, b, f, d, l, c, m, y \in Nat :
              /\ a = free /\ b = user /\ f = flight /\ d = WriterPackets * (disk - 1) /\ l = lost
              /\ c = Total(Sizes(writeQ)) /\ m = Total(Sends(mainQ)) /\ y = WriterPackets
        BY <1>5, <1>13, <2>2, Zenon
    <2>4. (1 + n) + u + x = y
        BY <1>2, <1>3, <2>3, Zenon
    <2>5. a + b + f + d + (l + x) + (c + (1 + n)) + (m + u) = a + b + f + (d + y) + l + c + m
        BY <1>2, <2>4
    <2>6. SendSum' = free + user + flight + WriterPackets * (disk - 1) + (lost + x)
                       + (Total(Sizes(writeQ)) + (1 + n)) + (Total(Sends(mainQ)) + u)
        BY <1>4, <1>6, <1>8, <1>10 DEF SendSum
    <2> QED
        BY <2>1, <2>3, <2>5, <2>6, Zenon DEF SendSum
  <1>15. JobSum' = JobSum
    <2>1. PICK p, i, g, d, q, r \in Nat :
              /\ p = recvPool /\ i = Len(inbox) /\ g = Len(msgs) /\ d = disk
              /\ q = Total(readQ) /\ r = Total(Recvs(mainQ))
        BY <1>5, <1>13, Zenon
    <2>2. p + i + g + (d - 1) + (q + 1) + r = p + i + g + d + q + r
        OBVIOUS
    <2>3. JobSum' = recvPool + Len(inbox) + Len(msgs) + (disk - 1) + (Total(readQ) + 1)
                       + Total(Recvs(mainQ))
        BY <1>4, <1>9, <1>10 DEF JobSum
    <2> QED
        BY <2>1, <2>2, <2>3, Zenon DEF JobSum
  <1> QED
      BY <1>4, <1>12, <1>14, <1>15, Kept DEF ResponseReadFile

LEMMA SendMessagePInv == PInv /\ SendMessage => PInv'
  <1> SUFFICES ASSUME PInv, SendMessage PROVE PInv'
      OBVIOUS
  <1>1. Typed
      BY DEF PInv
  <1>2. /\ writeQ \in Seq(Outgoing) /\ writeQ # <<>> /\ writeQ' = Tail(writeQ)
        /\ flight' = flight + Head(writeQ).n /\ UNCHANGED <<mainQ, free, user, lost, disk>>
      BY <1>1 DEF SendMessage, Typed, diskVars, cacheVars
  <1>3. /\ Head(writeQ).n \in Nat /\ writeQ' \in Seq(Outgoing)
        /\ Total(Sizes(writeQ)) = Head(writeQ).n + Total(Sizes(writeQ'))
      BY <1>2, WriteTail DEF Outgoing
  <1>4. Total(Sizes(writeQ')) \in Nat
      BY <1>3, WriteTypes, UnitsFinite
  <1>5. flight \in Nat /\ flight' \in Nat
      BY <1>1, <1>2, <1>3 DEF Typed
  <1>6. Typed'
      BY <1>1, <1>3, <1>5 DEF Typed, SendMessage, recvVars, diskVars, cacheVars
  <1>7. JobSum' = JobSum
      BY RecvFrame DEF SendMessage, diskVars, cacheVars
  <1>8. SendSum' = SendSum
    <2>1. /\ free \in Nat /\ user \in Nat /\ lost \in Nat
          /\ Total(Sends(mainQ)) \in Nat /\ WriterPackets * disk \in Nat
        BY <1>1, SumsType DEF Typed
    <2>2. PICK a, b, f, d, l, c, m, z \in Nat :
              /\ a = free /\ b = user /\ f = flight /\ d = WriterPackets * disk /\ l = lost
              /\ c = Total(Sizes(writeQ')) /\ m = Total(Sends(mainQ)) /\ z = Head(writeQ).n
        BY <1>3, <1>4, <1>5, <2>1, Zenon
    <2>3. a + b + (f + z) + d + l + c + m = a + b + f + d + l + (z + c) + m
        OBVIOUS
    <2>4. SendSum' = free + user + (flight + Head(writeQ).n) + WriterPackets * disk + lost
                       + Total(Sizes(writeQ')) + Total(Sends(mainQ))
        BY <1>2 DEF SendSum
    <2> QED
        BY <1>3, <2>2, <2>3, <2>4, Zenon DEF SendSum
  <1> QED
      BY <1>6, <1>7, <1>8, Kept DEF SendMessage, ctlVars, diskVars

-----------------------------------------------------------------------------

LEMMA NextPInv == PInv /\ [Next]_vars => PInv'
  <1> SUFFICES ASSUME PInv, [Next]_vars PROVE PInv'
      OBVIOUS
  <1>1. ASSUME NEW kind \in {"response", "read"}, NEW size \in 1..MaxMessage, Request(kind, size)
        PROVE  PInv'
      BY <1>1, RequestPInv
  <1>2. CASE PeerAnswers
      BY <1>2, AnswerPInv DEF PeerAnswers
  <1>3. CASE FuseRelease
      BY <1>3, NewTaskPInv DEF FuseRelease
  <1>4. CASE CacheThread
    <2>1. CASE ApplyAny
      <3>1. Typed /\ CacheRuns("apply")
          BY <2>1 DEF ApplyAny, PInv
      <3>2. cached + Head(cacheQ).n \in Nat
          BY <3>1, CacheJobRuns DEF Typed
      <3>3. PICK r \in AddData(Head(cacheQ).n), e \in 0..(cached + Head(cacheQ).n) : ApplyBlock(r, e)
          BY <2>1 DEF ApplyAny
      <3>4. e \in Nat
          BY <3>2, <3>3
      <3> QED
          BY <3>3, <3>4, ApplyBlockPInv
    <2> QED
        BY <1>4, <2>1, WriteBlockPInv, InvalidateLeafPInv DEF CacheThread
  <1>5. CASE ResponseInAborts
      BY <1>5, NothingMovesPInv DEF ResponseInAborts
  <1>6. CASE Fuse
      BY <1>6, NewTaskPInv DEF Fuse
  <1>7. CASE Inotify
      BY <1>7, NewTaskPInv DEF Inotify
  <1>8. CASE RequestStop
      BY <1>8, NothingMovesPInv DEF RequestStop
  <1>9. CASE ReadThread
      BY <1>9, RecvFirstPInv, RecvMorePInv, RecvStoppedPInv, DispatchPInv, FreeRecvPacketsPInv
         DEF ReadThread
  <1>10. CASE MainThread
      BY <1>10, <1>5, FuseNetworkPInv, ResponseFuseNetworkPInv, ResponseReadAllocPInv, ReturnUnusedPInv,
         ResponseInPInv DEF MainThread
  <1>11. CASE DiskThread
      BY <1>11, ResponseReadFilePInv DEF DiskThread
  <1>12. ASSUME NEW q \in QueueNames, EndThread(q) PROVE PInv'
      BY <1>12, NothingMovesPInv DEF EndThread
  <1>13. CASE UNCHANGED vars
      BY <1>13, NothingMovesPInv DEF vars, ctlVars
  <1> QED
      BY <1>1, <1>2, <1>3, <1>4, <1>5, <1>6, <1>7, <1>8, <1>9, <1>10, <1>11, <1>12, <1>13,
         NotificationPInv, ArriveRestPInv, AckPInv, SendMessagePInv DEF Next

\* Until stop is requested no send packet leaves its pool but for those of reads that read
\* nothing, and no receive packet but for those destroyed with the blocks of the cache,
\* whatever thread a job runs on and whatever it used: for any pools and messages, and any
\* writers with room for the header and the data of a read.
THEOREM PacketsAlwaysConserved == Spec => []PacketsConserved
  <1>1. Spec => []PInv
      BY InitPInv, NextPInv, PTL DEF Spec
  <1>2. PInv => PacketsConserved
      BY DEF PInv
  <1> QED
      BY <1>1, <1>2, PTL
=============================================================================
