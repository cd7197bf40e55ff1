---------------------------- MODULE RemoteTreeProofs ----------------------------
(***************************************************************************)
(* The counts that keep the client's leaves, the index that finds them,   *)
(* and the handles of the open files are right in every order in which the *)
(* kernel, the queues, the disk threads and the watcher run, for any set   *)
(* of files and any number of requests and of changes on the disk.         *)
(***************************************************************************)
EXTENDS RemoteTree, FiniteSetTheorems, TLAPS

-----------------------------------------------------------------------------
(* Sums of numbers.                                                        *)

LEMMA SameSize ==
    ASSUME NEW S, NEW T, IsFiniteSet(S), NEW f \in [S -> T],
           \A x, y \in S : f[x] = f[y] => x = y, \A t \in T : \E x \in S : f[x] = t
    PROVE  IsFiniteSet(T) /\ Cardinality(T) = Cardinality(S)
  <1>1. f \in Bijection(S, T)
      BY DEF Bijection, Injection, Surjection, IsInjective
  <1>2. ExistsBijection(S, T)
      BY <1>1 DEF ExistsBijection
  <1> QED
      BY <1>2, FS_Bijection

LEMMA Disjoint ==
    ASSUME NEW S, NEW T, IsFiniteSet(S), IsFiniteSet(T), S \cap T = {}
    PROVE  /\ IsFiniteSet(S \cup T)
           /\ Cardinality(S \cup T) = Cardinality(S) + Cardinality(T)
  <1>1. Cardinality(S) \in Nat /\ Cardinality(T) \in Nat
      BY FS_CardinalityType
  <1>2. /\ IsFiniteSet(S \cup T)
        /\ Cardinality(S \cup T) = Cardinality(S) + Cardinality(T) - Cardinality(S \cap T)
      BY FS_Union
  <1>3. Cardinality(S \cap T) = 0
      BY FS_EmptySet
  <1> QED
      BY <1>1, <1>2, <1>3

\* The units of one number.
LEMMA UnitsOfOne ==
    ASSUME NEW k, NEW n \in Nat
    PROVE  IsFiniteSet({k} \X (1..n)) /\ Cardinality({k} \X (1..n)) = n
  <1>1. IsFiniteSet(1..n) /\ Cardinality(1..n) = n
    <2>1. 1 \in Int /\ n \in Int
        OBVIOUS
    <2>2. IsFiniteSet(1..n) /\ Cardinality(1..n) = IF 1 > n THEN 0 ELSE n - 1 + 1
        BY <2>1, FS_Interval
    <2> QED
        BY <2>2
  <1>2. IsFiniteSet({k}) /\ Cardinality({k}) = 1
      BY FS_Singleton
  <1>3. /\ IsFiniteSet({k} \X (1..n))
        /\ Cardinality({k} \X (1..n)) = Cardinality({k}) * Cardinality(1..n)
      BY <1>1, <1>2, FS_Product
  <1> QED
      BY <1>1, <1>2, <1>3

\* A function from a finite set to numbers has a sum.
LEMMA UnitsFinite ==
    ASSUME NEW D, IsFiniteSet(D), NEW f \in [D -> Nat]
    PROVE  IsFiniteSet(Units(f)) /\ Total(f) \in Nat
  <1> DEFINE g == [k \in D |-> {k} \X (1..f[k])]
             U == {{k} \X (1..f[k]) : k \in D}
  <1>1. IsFiniteSet(U)
    <2>1. g \in Surjection(D, U)
        BY DEF Surjection
    <2> HIDE DEF g, U
    <2> QED
        BY <2>1, FS_Surjection
  <1>2. \A T \in U : IsFiniteSet(T)
    <2>1. ASSUME NEW k \in D PROVE IsFiniteSet({k} \X (1..f[k]))
      <3>1. f[k] \in Nat
          OBVIOUS
      <3> QED
          BY <3>1, UnitsOfOne
    <2> QED
        BY <2>1
  <1>3. IsFiniteSet(UNION U)
    <2> HIDE DEF U
    <2> QED
        BY <1>1, <1>2, FS_UNION
  <1>4. Units(f) = UNION U
      BY DEF Units
  <1>5. IsFiniteSet(Units(f))
      BY <1>3, <1>4
  <1> QED
      BY <1>5, FS_CardinalityType DEF Total

\* One term is taken out of a sum.
LEMMA TotalSplit ==
    ASSUME NEW D, IsFiniteSet(D), NEW f \in [D -> Nat], NEW e \in D
    PROVE  /\ [k \in D \ {e} |-> f[k]] \in [D \ {e} -> Nat]
           /\ Total([k \in D \ {e} |-> f[k]]) \in Nat
           /\ Total(f) = Total([k \in D \ {e} |-> f[k]]) + f[e]
  <1>1. PICK h \in [D \ {e} -> Nat] : h = [k \in D \ {e} |-> f[k]]
      OBVIOUS
  <1>2. PICK N : N = {e} \X (1..f[e])
      OBVIOUS
  <1>3. IsFiniteSet(N) /\ Cardinality(N) = f[e]
    <2>1. f[e] \in Nat
        OBVIOUS
    <2> QED
        BY <1>2, <2>1, UnitsOfOne
  <1>4. IsFiniteSet(Units(h)) /\ Total(h) \in Nat
    <2>1. IsFiniteSet(D \ {e})
        BY FS_Subset
    <2> QED
        BY <2>1, UnitsFinite
  <1>5. Units(f) = Units(h) \cup N
    <2>1. DOMAIN h = D \ {e} /\ \A k \in D : k # e => h[k] = f[k]
        BY <1>1
    <2>2. Units(f) \subseteq Units(h) \cup N
      <3> SUFFICES ASSUME NEW u \in Units(f), u \notin N PROVE u \in Units(h)
          OBVIOUS
      <3>1. PICK k \in D : u \in {k} \X (1..f[k])
          BY DEF Units
      <3>2. k # e
          BY <1>2, <3>1, Zenon
      <3> QED
          BY <2>1, <3>1, <3>2, Zenon DEF Units
    <2>3. Units(h) \subseteq Units(f)
      <3> SUFFICES ASSUME NEW u \in Units(h) PROVE u \in Units(f)
          OBVIOUS
      <3>1. PICK k \in DOMAIN h : u \in {k} \X (1..h[k])
          BY DEF Units
      <3>2. k \in D /\ h[k] = f[k] /\ DOMAIN f = D
          BY <2>1
      <3> QED
          BY <3>1, <3>2, Zenon DEF Units
    <2>4. N \subseteq Units(f)
      <3>1. DOMAIN f = D
          OBVIOUS
      <3> QED
          BY <1>2, <3>1, Zenon DEF Units
    <2> QED
        BY <2>2, <2>3, <2>4
  <1>6. Units(h) \cap N = {}
    <2> SUFFICES ASSUME NEW u \in Units(h), u \in N PROVE FALSE
        OBVIOUS
    <2>1. PICK k \in DOMAIN h : u \in {k} \X (1..h[k])
        BY DEF Units
    <2>2. k # e
        BY <1>1
    <2>3. u[1] = k
        BY <2>1
    <2>4. u[1] = e
        BY <1>2
    <2> QED
        BY <2>2, <2>3, <2>4
  <1>7. Cardinality(Units(h) \cup N) = Cardinality(Units(h)) + Cardinality(N)
      BY <1>3, <1>4, <1>6, Disjoint
  <1>8. Total(f) = Total(h) + f[e]
      BY <1>3, <1>5, <1>7 DEF Total
  <1> QED
      BY <1>1, <1>4, <1>8

\* No term is more than the sum.
LEMMA TotalMember ==
    ASSUME NEW D, IsFiniteSet(D), NEW f \in [D -> Nat], NEW e \in D
    PROVE  Total(f) \in Nat /\ f[e] <= Total(f)
  <1>1. PICK n : n = Total([k \in D \ {e} |-> f[k]])
      OBVIOUS
  <1>2. n \in Nat /\ Total(f) = n + f[e]
      BY <1>1, TotalSplit
  <1>3. f[e] \in Nat
      OBVIOUS
  <1> QED
      BY <1>2, <1>3

\* Terms that are 0 add nothing.
LEMMA TotalPad ==
    ASSUME NEW D, NEW E, D \subseteq E, NEW f \in [D -> Nat], NEW g \in [E -> Nat],
           \A k \in E : g[k] = IF k \in D THEN f[k] ELSE 0
    PROVE  Total(g) = Total(f)
  <1>1. DOMAIN f = D /\ DOMAIN g = E
      OBVIOUS
  <1>2. ASSUME NEW u \in Units(f) PROVE u \in Units(g)
    <2>1. PICK k \in D : u \in {k} \X (1..f[k])
        BY <1>1 DEF Units
    <2>2. k \in E /\ g[k] = f[k]
        OBVIOUS
    <2> QED
        BY <1>1, <2>1, <2>2, Zenon DEF Units
  <1>3. ASSUME NEW u \in Units(g) PROVE u \in Units(f)
    <2>1. PICK k \in E : u \in {k} \X (1..g[k])
        BY <1>1 DEF Units
    <2>2. u[2] \in 1..g[k]
        BY <2>1
    <2>3. g[k] # 0
        BY <2>2
    <2>4. k \in D /\ g[k] = f[k]
        BY <2>3
    <2> QED
        BY <1>1, <2>1, <2>4, Zenon DEF Units
  <1>4. Units(f) = Units(g)
      BY <1>2, <1>3
  <1> QED
      BY <1>4 DEF Total

LEMMA TotalZero ==
    ASSUME NEW D, NEW f \in [D -> Nat], \A k \in D : f[k] = 0
    PROVE  Total(f) = 0
  <1>1. ASSUME NEW u \in Units(f) PROVE FALSE
    <2>1. PICK k \in D : u \in {k} \X (1..f[k])
        BY DEF Units
    <2>2. u[2] \in 1..f[k] /\ f[k] = 0
        BY <2>1
    <2> QED
        BY <2>2
  <1>2. Units(f) = {}
      BY <1>1
  <1> QED
      BY <1>2, FS_EmptySet DEF Total

\* A sum after one of its terms changed, or a term was added.
LEMMA TotalChange ==
    ASSUME NEW D, NEW E, IsFiniteSet(E), D \subseteq E, NEW f \in [D -> Nat], NEW g \in [E -> Nat],
           NEW e \in E, \A k \in E : k # e => g[k] = IF k \in D THEN f[k] ELSE 0
    PROVE  /\ Total(f) \in Nat /\ Total(g) \in Nat
           /\ e \in D => Total(g) + f[e] = Total(f) + g[e]
           /\ e \notin D => Total(g) = Total(f) + g[e]
  <1>1. PICK h : h = [k \in E \ {e} |-> g[k]]
      OBVIOUS
  <1>2. /\ h \in [E \ {e} -> Nat] /\ Total(h) \in Nat /\ Total(g) = Total(h) + g[e]
      BY <1>1, TotalSplit
  <1>3. IsFiniteSet(D)
      BY FS_Subset
  <1>4. Total(f) \in Nat /\ Total(g) \in Nat /\ g[e] \in Nat
    <2>1. Total(f) \in Nat
        BY <1>3, UnitsFinite
    <2>2. Total(g) \in Nat
        BY UnitsFinite
    <2> QED
        BY <2>1, <2>2
  <1>5. CASE e \in D
    <2>1. PICK m : m = [k \in D \ {e} |-> f[k]]
        OBVIOUS
    <2>2. m \in [D \ {e} -> Nat] /\ Total(m) \in Nat /\ Total(f) = Total(m) + f[e]
      <3>1. /\ [k \in D \ {e} |-> f[k]] \in [D \ {e} -> Nat]
            /\ Total([k \in D \ {e} |-> f[k]]) \in Nat
            /\ Total(f) = Total([k \in D \ {e} |-> f[k]]) + f[e]
          BY <1>3, <1>5, TotalSplit
      <3> QED
          BY <2>1, <3>1, Zenon
    <2>3. D \ {e} \subseteq E \ {e} /\ \A k \in E \ {e} : h[k] = IF k \in D \ {e} THEN m[k] ELSE 0
        BY <1>1, <2>1
    <2>4. Total(h) = Total(m)
        BY <1>2, <2>2, <2>3, TotalPad
    <2>5. f[e] \in Nat
        BY <1>5
    <2> QED
        BY <1>2, <1>4, <1>5, <2>2, <2>4, <2>5
  <1>6. CASE e \notin D
    <2>1. D \subseteq E \ {e} /\ \A k \in E \ {e} : h[k] = IF k \in D THEN f[k] ELSE 0
        BY <1>1, <1>6
    <2>2. Total(h) = Total(f)
        BY <1>2, <2>1, TotalPad
    <2> QED
        BY <1>2, <1>4, <1>6, <2>2
  <1> QED
      BY <1>5, <1>6

\* A sum does not depend on what its terms are called.
Renames(b, D, E, f, g) ==
    /\ IsFiniteSet(D) /\ f \in [D -> Nat] /\ g \in [E -> Nat] /\ b \in [D -> E]
    /\ \A x, y \in D : b[x] = b[y] => x = y
    /\ \A e \in E : \E x \in D : b[x] = e
    /\ \A x \in D : g[b[x]] = f[x]
LEMMA TotalRename ==
    ASSUME NEW b, NEW D, NEW E, NEW f, NEW g, Renames(b, D, E, f, g)
    PROVE  Total(g) = Total(f)
  <1> USE DEF Renames
  <1> DEFINE F == [u \in Units(f) |-> <<b[u[1]], u[2]>>]
  <1>1. ASSUME NEW u \in Units(f)
        PROVE  u = <<u[1], u[2]>> /\ u[1] \in D /\ u[2] \in 1..f[u[1]]
    <2>1. PICK k \in D : u \in {k} \X (1..f[k])
        BY DEF Units
    <2> QED
        BY <2>1
  <1>2. ASSUME NEW u \in Units(f) PROVE <<b[u[1]], u[2]>> \in Units(g)
    <2>1. u[1] \in D /\ u[2] \in 1..f[u[1]]
        BY <1>1
    <2>2. b[u[1]] \in DOMAIN g /\ g[b[u[1]]] = f[u[1]]
        BY <2>1
    <2>3. <<b[u[1]], u[2]>> \in {b[u[1]]} \X (1..g[b[u[1]]])
        BY <2>1, <2>2
    <2> QED
        BY <2>2, <2>3, Zenon DEF Units
  <1>3. F \in [Units(f) -> Units(g)]
      BY <1>2
  <1>4. ASSUME NEW x \in Units(f), NEW y \in Units(f), F[x] = F[y] PROVE x = y
    <2>1. b[x[1]] = b[y[1]] /\ x[2] = y[2]
        BY <1>4
    <2>2. x[1] = y[1]
        BY <1>1, <2>1
    <2>3. x = <<x[1], x[2]>> /\ y = <<y[1], y[2]>>
        BY <1>1
    <2> QED
        BY <2>1, <2>2, <2>3, Zenon
  <1>5. ASSUME NEW v \in Units(g) PROVE \E u \in Units(f) : F[u] = v
    <2>1. PICK e \in E : v \in {e} \X (1..g[e])
        BY DEF Units
    <2>2. PICK k \in D : b[k] = e
        OBVIOUS
    <2>3. g[e] = f[k]
        BY <2>2
    <2>4. v = <<e, v[2]>> /\ v[2] \in 1..f[k]
        BY <2>1, <2>3
    <2>5. <<k, v[2]>> \in {k} \X (1..f[k])
        BY <2>4
    <2>6. k \in DOMAIN f
        OBVIOUS
    <2>7. <<k, v[2]>> \in Units(f)
        BY <2>5, <2>6, Zenon DEF Units
    <2>8. F[<<k, v[2]>>] = <<b[k], v[2]>>
        BY <2>7
    <2> QED
        BY <2>2, <2>4, <2>7, <2>8
  <1>6. IsFiniteSet(Units(f))
      BY UnitsFinite
  <1> HIDE DEF F
  <1>7. Cardinality(Units(g)) = Cardinality(Units(f))
      BY <1>3, <1>4, <1>5, <1>6, SameSize
  <1> QED
      BY <1>7 DEF Total

-----------------------------------------------------------------------------
(* The jobs of the queues.                                                 *)

Names    == Files \cup {""}
Entries  == [name : Names, leaf : Nat]
Notices  == [type : {"Created", "Deleted"}, name : Files, leaf : Nat]
Listings == SUBSET Entries
Payloads == Nat \cup Files \cup Entries \cup Listings \cup Notices
Ops == {"Lookup", "OpenDir", "Open", "ReadDirPlus", "GetAttr", "Read", "Release", "ReleaseDir",
        "LookupIn", "OpenDirIn", "OpenIn", "ReadDirPlusIn", "GetAttrIn", "ReadIn",
        "ReleaseIn", "ReleaseDirIn", "Prefetch", "PrefetchIn", "ReadErrorIn", "ForgetMulti",
        "ForgetMultiIn", "ReleaseLeafRef", "NotifyEntry"}
JobType  == [op : Ops, req : Nat, leaf : Nat, x : Payloads]

\* The jobs that are in a queue, and the sum of what a function gives for each of them.
Jobs(q) == {q[k] : k \in DOMAIN q}
Sum(q, w) == Total([k \in DOMAIN q |-> w[q[k]]])

LEMMA JobFields ==
    ASSUME NEW op \in Ops, NEW req \in Nat, NEW leaf \in Nat, NEW x \in Payloads
    PROVE  /\ Job(op, req, leaf, x) \in JobType
           /\ Job(op, req, leaf, x).op = op /\ Job(op, req, leaf, x).req = req
           /\ Job(op, req, leaf, x).leaf = leaf /\ Job(op, req, leaf, x).x = x
  BY DEF Job, JobType

LEMMA FieldTypes ==
    ASSUME NEW j \in JobType
    PROVE  j.op \in Ops /\ j.req \in Nat /\ j.leaf \in Nat /\ j.x \in Payloads
  BY DEF JobType

LEMMA JobWithLeaf ==
    ASSUME NEW j \in JobType, NEW leaf \in Nat
    PROVE  /\ [j EXCEPT !.leaf = leaf] \in JobType /\ [j EXCEPT !.leaf = leaf].leaf = leaf
           /\ [j EXCEPT !.leaf = leaf].op = j.op /\ [j EXCEPT !.leaf = leaf].req = j.req
           /\ [j EXCEPT !.leaf = leaf].x = j.x
  BY DEF JobType

LEMMA JobWithOp ==
    ASSUME NEW j \in JobType, NEW op \in Ops
    PROVE  /\ [j EXCEPT !.op = op] \in JobType /\ [j EXCEPT !.op = op].op = op
           /\ [j EXCEPT !.op = op].leaf = j.leaf /\ [j EXCEPT !.op = op].req = j.req
           /\ [j EXCEPT !.op = op].x = j.x
  BY DEF JobType

LEMMA PayloadTypes ==
    /\ \A n \in Nat : n \in Payloads
    /\ \A f \in Files : f \in Payloads
    /\ \A e \in Entries : e \in Payloads
    /\ \A S \in Listings : S \in Payloads
    /\ \A m \in Notices : m \in Payloads
  BY DEF Payloads

LEMMA QueueJobs ==
    ASSUME NEW q \in Seq(JobType)
    PROVE  Jobs(q) \subseteq JobType /\ (\A k \in DOMAIN q : q[k] \in Jobs(q)) /\ q \o <<>> = q
  BY DEF Jobs

LEMMA QueueAppend ==
    ASSUME NEW q \in Seq(JobType), NEW j \in JobType
    PROVE  /\ Append(q, j) \in Seq(JobType) /\ q \o <<j>> = Append(q, j)
           /\ Jobs(Append(q, j)) = Jobs(q) \cup {j}
  <1>1. /\ Append(q, j) \in Seq(JobType) /\ q \o <<j>> = Append(q, j)
        /\ DOMAIN Append(q, j) = 1..(Len(q) + 1) /\ DOMAIN q = 1..Len(q) /\ Len(q) \in Nat
        /\ \A k \in 1..Len(q) : Append(q, j)[k] = q[k]
        /\ Append(q, j)[Len(q) + 1] = j
      OBVIOUS
  <1>2. ASSUME NEW i \in Jobs(Append(q, j)) PROVE i \in Jobs(q) \cup {j}
    <2>1. PICK k \in 1..(Len(q) + 1) : i = Append(q, j)[k]
        BY <1>1 DEF Jobs
    <2>2. k \in 1..Len(q) \/ k = Len(q) + 1
        BY <1>1
    <2> QED
        BY <1>1, <2>1, <2>2 DEF Jobs
  <1>3. ASSUME NEW i \in Jobs(q) PROVE i \in Jobs(Append(q, j))
    <2>1. PICK k \in 1..Len(q) : i = q[k]
        BY <1>1 DEF Jobs
    <2>2. k \in 1..(Len(q) + 1)
        BY <1>1
    <2> QED
        BY <1>1, <2>1, <2>2 DEF Jobs
  <1>4. j \in Jobs(Append(q, j))
    <2>1. Len(q) + 1 \in 1..(Len(q) + 1)
        BY <1>1
    <2> QED
        BY <1>1, <2>1 DEF Jobs
  <1> QED
      BY <1>1, <1>2, <1>3, <1>4

LEMMA QueueAppendTwo ==
    ASSUME NEW q \in Seq(JobType), NEW j \in JobType, NEW i \in JobType
    PROVE  q \o <<j, i>> = Append(Append(q, j), i)
  <1>1. /\ q \o <<j, i>> \in Seq(JobType) /\ Append(Append(q, j), i) \in Seq(JobType)
        /\ Len(q \o <<j, i>>) = Len(Append(Append(q, j), i))
        /\ \A k \in 1..Len(q \o <<j, i>>) : (q \o <<j, i>>)[k] = Append(Append(q, j), i)[k]
      OBVIOUS
  <1>2. PICK a \in Seq(JobType) : a = q \o <<j, i>>
      BY <1>1
  <1>3. PICK b \in Seq(JobType) : b = Append(Append(q, j), i)
      BY <1>1
  <1>4. Len(a) = Len(b) /\ \A k \in 1..Len(a) : a[k] = b[k]
      BY <1>1, <1>2, <1>3
  <1>5. a = b
      BY <1>4
  <1> QED
      BY <1>2, <1>3, <1>5

LEMMA QueueTail ==
    ASSUME NEW q \in Seq(JobType), q # <<>>
    PROVE  /\ Head(q) \in JobType /\ Head(q) \in Jobs(q)
           /\ Tail(q) \in Seq(JobType) /\ Jobs(Tail(q)) \subseteq Jobs(q)
  <1>1. /\ Head(q) \in JobType /\ Tail(q) \in Seq(JobType) /\ Len(q) \in Nat /\ Len(q) >= 1
        /\ DOMAIN q = 1..Len(q) /\ Head(q) = q[1]
        /\ DOMAIN Tail(q) = 1..(Len(q) - 1)
        /\ \A k \in 1..(Len(q) - 1) : Tail(q)[k] = q[k + 1]
      OBVIOUS
  <1>2. 1 \in DOMAIN q
      BY <1>1
  <1>3. ASSUME NEW i \in Jobs(Tail(q)) PROVE i \in Jobs(q)
    <2>1. PICK k \in 1..(Len(q) - 1) : i = Tail(q)[k]
        BY <1>1 DEF Jobs
    <2>2. i = q[k + 1] /\ k + 1 \in DOMAIN q
        BY <1>1, <2>1
    <2> QED
        BY <2>2 DEF Jobs
  <1> QED
      BY <1>1, <1>2, <1>3 DEF Jobs

LEMMA SumTerms ==
    ASSUME NEW q \in Seq(JobType), NEW w \in [JobType -> Nat]
    PROVE  /\ IsFiniteSet(DOMAIN q) /\ [k \in DOMAIN q |-> w[q[k]]] \in [DOMAIN q -> Nat]
           /\ Sum(q, w) \in Nat
  <1>1. IsFiniteSet(DOMAIN q)
    <2>1. DOMAIN q = 1..Len(q) /\ 1 \in Int /\ Len(q) \in Int
        OBVIOUS
    <2> QED
        BY <2>1, FS_Interval
  <1>2. [k \in DOMAIN q |-> w[q[k]]] \in [DOMAIN q -> Nat]
      OBVIOUS
  <1>3. Total([k \in DOMAIN q |-> w[q[k]]]) \in Nat
      BY <1>1, <1>2, UnitsFinite
  <1> QED
      BY <1>1, <1>2, <1>3 DEF Sum

LEMMA SumEmpty == \A w : Sum(<<>>, w) = 0
  <1> SUFFICES ASSUME NEW w PROVE Sum(<<>>, w) = 0
      OBVIOUS
  <1>1. PICK f : f = [k \in DOMAIN <<>> |-> w[<<>>[k]]]
      OBVIOUS
  <1>2. f \in [{} -> Nat] /\ \A k \in {} : f[k] = 0
      BY <1>1
  <1>3. Total(f) = 0
      BY <1>2, TotalZero
  <1> QED
      BY <1>1, <1>3 DEF Sum

\* A job that is scheduled adds its part,
LEMMA SumAppend ==
    ASSUME NEW q \in Seq(JobType), NEW j \in JobType, NEW w \in [JobType -> Nat]
    PROVE  Sum(Append(q, j), w) = Sum(q, w) + w[j]
  <1>1. PICK n \in Nat : n = Len(q) + 1
      OBVIOUS
  <1>2. PICK p : p = Append(q, j)
      OBVIOUS
  <1>3. /\ p \in Seq(JobType) /\ DOMAIN p = 1..n /\ DOMAIN q = 1..(n - 1)
        /\ (\A k \in 1..(n - 1) : p[k] = q[k]) /\ p[n] = j
      BY <1>1, <1>2
  <1>4. n \in 1..n /\ (1..n) \ {n} = 1..(n - 1)
      BY <1>1
  <1>5. PICK f : f = [k \in DOMAIN p |-> w[p[k]]]
      OBVIOUS
  <1>6. f \in [1..n -> Nat] /\ IsFiniteSet(1..n) /\ f[n] = w[j]
      BY <1>3, <1>4, <1>5, SumTerms
  <1>7. Total(f) = Total([k \in (1..n) \ {n} |-> f[k]]) + f[n]
    <2>1. PICK D : D = 1..n
        OBVIOUS
    <2>2. IsFiniteSet(D) /\ f \in [D -> Nat] /\ n \in D
        BY <1>4, <1>6, <2>1
    <2>3. Total(f) = Total([k \in D \ {n} |-> f[k]]) + f[n]
        BY <2>2, TotalSplit, Zenon
    <2> QED
        BY <2>1, <2>3, Zenon
  <1>8. [k \in (1..n) \ {n} |-> f[k]] = [k \in DOMAIN q |-> w[q[k]]]
    <2>1. \A k \in 1..(n - 1) : k \in 1..n /\ f[k] = w[q[k]]
        BY <1>3, <1>5
    <2> QED
        BY <1>3, <1>4, <2>1
  <1>9. Sum(p, w) = Total(f)
      BY <1>5 DEF Sum
  <1>10. Sum(q, w) = Total([k \in (1..n) \ {n} |-> f[k]])
      BY <1>8 DEF Sum
  <1> QED
      BY <1>2, <1>6, <1>7, <1>9, <1>10

\* and one that is run takes it away.
LEMMA SumTail ==
    ASSUME NEW q \in Seq(JobType), q # <<>>, NEW w \in [JobType -> Nat]
    PROVE  Sum(q, w) = Sum(Tail(q), w) + w[Head(q)]
  <1>1. PICK n \in Nat : n = Len(q) /\ n >= 1
      OBVIOUS
  <1>2. PICK t : t = Tail(q)
      OBVIOUS
  <1>3. /\ t \in Seq(JobType) /\ DOMAIN q = 1..n /\ DOMAIN t = 1..(n - 1)
        /\ (\A k \in 1..(n - 1) : t[k] = q[k + 1]) /\ q[1] = Head(q)
      BY <1>1, <1>2
  <1>4. PICK f : f = [k \in DOMAIN q |-> w[q[k]]]
      OBVIOUS
  <1>5. PICK g : g = [k \in DOMAIN t |-> w[t[k]]]
      OBVIOUS
  <1>6. f \in [1..n -> Nat] /\ IsFiniteSet(1..n) /\ 1 \in 1..n /\ f[1] = w[Head(q)]
      BY <1>1, <1>3, <1>4, SumTerms
  <1>7. g \in [1..(n - 1) -> Nat] /\ IsFiniteSet(1..(n - 1))
      BY <1>3, <1>5, SumTerms
  <1>8. PICK h : h = [k \in (1..n) \ {1} |-> f[k]]
      OBVIOUS
  <1>9. h \in [(1..n) \ {1} -> Nat] /\ Total(f) = Total(h) + f[1]
    <2>1. PICK D : D = 1..n
        OBVIOUS
    <2>2. IsFiniteSet(D) /\ f \in [D -> Nat] /\ 1 \in D
        BY <1>6, <2>1
    <2>3. /\ [k \in D \ {1} |-> f[k]] \in [D \ {1} -> Nat]
          /\ Total(f) = Total([k \in D \ {1} |-> f[k]]) + f[1]
        BY <2>2, TotalSplit, Zenon
    <2> QED
        BY <1>8, <2>1, <2>3, Zenon
  <1>10. PICK b : b = [k \in 1..(n - 1) |-> k + 1]
      OBVIOUS
  <1>11. /\ b \in [1..(n - 1) -> (1..n) \ {1}]
         /\ \A x, y \in 1..(n - 1) : b[x] = b[y] => x = y
         /\ \A x \in 1..(n - 1) : h[b[x]] = g[x]
    <2>1. \A x \in 1..(n - 1) : x + 1 \in (1..n) \ {1} /\ b[x] = x + 1
        BY <1>1, <1>10
    <2>2. b \in [1..(n - 1) -> (1..n) \ {1}]
        BY <1>10, <2>1
    <2>3. \A x, y \in 1..(n - 1) : b[x] = b[y] => x = y
        BY <1>1, <2>1
    <2>4. ASSUME NEW x \in 1..(n - 1) PROVE h[b[x]] = g[x]
      <3>1. b[x] = x + 1 /\ x + 1 \in (1..n) \ {1}
          BY <2>1
      <3>2. h[x + 1] = w[q[x + 1]]
          BY <1>3, <1>4, <1>8, <3>1
      <3>3. g[x] = w[t[x]] /\ t[x] = q[x + 1]
          BY <1>3, <1>5
      <3> QED
          BY <3>1, <3>2, <3>3
    <2> QED
        BY <2>2, <2>3, <2>4
  <1>12. \A e \in (1..n) \ {1} : \E x \in 1..(n - 1) : b[x] = e
    <2> SUFFICES ASSUME NEW e \in (1..n) \ {1} PROVE \E x \in 1..(n - 1) : b[x] = e
        OBVIOUS
    <2>1. e - 1 \in 1..(n - 1) /\ (e - 1) + 1 = e
        BY <1>1
    <2>2. b[e - 1] = e
        BY <1>10, <2>1
    <2> QED
        BY <2>1, <2>2
  <1>13. Total(h) = Total(g)
    <2>1. PICK D, E : D = 1..(n - 1) /\ E = (1..n) \ {1}
        OBVIOUS
    <2>2. Renames(b, D, E, g, h)
        BY <1>7, <1>9, <1>11, <1>12, <2>1, Zenon DEF Renames
    <2> QED
        BY <2>2, TotalRename
  <1>14. Sum(q, w) = Total(f) /\ Sum(t, w) = Total(g)
      BY <1>4, <1>5 DEF Sum
  <1> QED
      BY <1>2, <1>6, <1>9, <1>13, <1>14

LEMMA SumMember ==
    ASSUME NEW q \in Seq(JobType), NEW w \in [JobType -> Nat], NEW j \in Jobs(q)
    PROVE  w[j] <= Sum(q, w)
  <1>1. PICK i \in DOMAIN q : q[i] = j
      BY DEF Jobs
  <1>2. PICK f : f = [k \in DOMAIN q |-> w[q[k]]]
      OBVIOUS
  <1>3. f \in [DOMAIN q -> Nat] /\ IsFiniteSet(DOMAIN q) /\ f[i] = w[j]
      BY <1>1, <1>2, SumTerms
  <1>4. f[i] <= Total(f)
      BY <1>3, TotalMember
  <1> QED
      BY <1>2, <1>3, <1>4 DEF Sum

LEMMA SumZero ==
    ASSUME NEW q \in Seq(JobType), NEW w \in [JobType -> Nat], \A j \in Jobs(q) : w[j] = 0
    PROVE  Sum(q, w) = 0
  <1>1. PICK f : f = [k \in DOMAIN q |-> w[q[k]]]
      OBVIOUS
  <1>2. f \in [DOMAIN q -> Nat]
      BY <1>1
  <1>3. \A k \in DOMAIN q : f[k] = 0
      BY <1>1, QueueJobs
  <1>4. Total(f) = 0
      BY <1>2, <1>3, TotalZero
  <1> QED
      BY <1>1, <1>4 DEF Sum

LEMMA SumSame ==
    ASSUME NEW q \in Seq(JobType), NEW w, NEW v, \A j \in Jobs(q) : w[j] = v[j]
    PROVE  Sum(q, w) = Sum(q, v)
  <1>1. \A k \in DOMAIN q : w[q[k]] = v[q[k]]
      BY QueueJobs
  <1>2. [k \in DOMAIN q |-> w[q[k]]] = [k \in DOMAIN q |-> v[q[k]]]
      BY <1>1
  <1> QED
      BY <1>2 DEF Sum

-----------------------------------------------------------------------------
(* The trees.                                                              *)

LeafType == [name : Names, linked : BOOLEAN, refs : Nat, server : Nat]
IsTree(t) == t \in Seq(LeafType) /\ Dir \in DOMAIN t

\* No two children of the directory have the same name.
OneOfAName(t) ==
    \A i, k \in DOMAIN t : /\ i # Dir /\ k # Dir /\ t[i].linked /\ t[k].linked
                           /\ t[i].name = t[k].name
                           => i = k

LEMMA LeafFields ==
    ASSUME NEW t, IsTree(t), NEW i \in DOMAIN t
    PROVE  /\ t[i] \in LeafType /\ t[i].name \in Names /\ t[i].linked \in BOOLEAN
           /\ t[i].refs \in Nat /\ t[i].server \in Nat /\ i \in Nat /\ i # None
  <1>1. t[i] \in LeafType /\ i \in Nat /\ i # None
      BY DEF IsTree, None
  <1> QED
      BY <1>1 DEF LeafType

LEMMA NewLeafFields ==
    ASSUME NEW f \in Names
    PROVE  /\ NewLeaf(f) \in LeafType /\ NewLeaf(f).name = f /\ NewLeaf(f).linked
           /\ NewLeaf(f).refs = 0 /\ NewLeaf(f).server = None
  BY DEF NewLeaf, LeafType, None

\* Find gives the child of the name, or nothing when there is none.
LEMMA FindChild ==
    ASSUME NEW t, IsTree(t), NEW f
    PROVE  /\ Find(t, f) # None => /\ Find(t, f) \in DOMAIN t /\ Find(t, f) # Dir
                                   /\ t[Find(t, f)].linked /\ t[Find(t, f)].name = f
           /\ \A i \in DOMAIN t : i # Dir /\ t[i].linked /\ t[i].name = f => Find(t, f) # None
           /\ OneOfAName(t) =>
                \A i \in DOMAIN t : i # Dir /\ t[i].linked /\ t[i].name = f => Find(t, f) = i
  <1>1. \A i \in DOMAIN t : i # None
      BY LeafFields
  <1>2. CASE \E i \in DOMAIN t : i # Dir /\ t[i].linked /\ t[i].name = f
    <2>1. PICK c : c = CHOOSE i \in DOMAIN t : i # Dir /\ t[i].linked /\ t[i].name = f
        OBVIOUS
    <2>2. c \in DOMAIN t /\ c # Dir /\ t[c].linked /\ t[c].name = f
        BY <1>2, <2>1
    <2>3. Find(t, f) = c
        BY <1>2, <2>1, Zenon DEF Find
    <2> QED
        BY <1>1, <2>2, <2>3 DEF OneOfAName
  <1>3. CASE ~\E i \in DOMAIN t : i # Dir /\ t[i].linked /\ t[i].name = f
    <2>1. Find(t, f) = None
        BY <1>3, Zenon DEF Find
    <2> QED
        BY <1>3, <2>1
  <1> QED
      BY <1>2, <1>3

\* A tree with leaves at its end.
Longer(t, n, a, u) == IsTree(t) /\ n \in Nat /\ a \in [1..n -> LeafType] /\ u = t \o a
LEMMA TreeConcat ==
    ASSUME NEW t, NEW n, NEW a, NEW u, Longer(t, n, a, u)
    PROVE  /\ IsTree(u) /\ Len(t) \in Nat
           /\ DOMAIN t \subseteq DOMAIN u
           /\ \A i \in DOMAIN t : u[i] = t[i]
           /\ \A k \in 1..n : Len(t) + k \in DOMAIN u /\ u[Len(t) + k] = a[k]
           /\ \A i \in DOMAIN u : i \notin DOMAIN t => \E k \in 1..n : i = Len(t) + k
  <1>0. IsTree(t) /\ n \in Nat /\ a \in [1..n -> LeafType]
      BY DEF Longer
  <1>1. a \in Seq(LeafType) /\ Len(a) = n /\ DOMAIN a = 1..n
      BY <1>0
  <1>2. t \in Seq(LeafType) /\ DOMAIN t = 1..Len(t) /\ Len(t) \in Nat /\ Dir \in DOMAIN t
      BY <1>0 DEF IsTree
  <1>3. /\ t \o a \in Seq(LeafType) /\ DOMAIN (t \o a) = 1..(Len(t) + n)
        /\ \A i \in 1..(Len(t) + n) : (t \o a)[i] = IF i <= Len(t) THEN t[i] ELSE a[i - Len(t)]
      BY <1>0, <1>1, <1>2
  <1>4. u = t \o a
      BY DEF Longer
  <1>5. PICK m \in Nat : m = Len(t)
      BY <1>2
  <1>6. /\ DOMAIN u = 1..(m + n) /\ DOMAIN t = 1..m
        /\ \A i \in 1..(m + n) : u[i] = IF i <= m THEN t[i] ELSE a[i - m]
      BY <1>2, <1>3, <1>4, <1>5
  <1>7. DOMAIN t \subseteq DOMAIN u /\ \A i \in DOMAIN t : u[i] = t[i]
      BY <1>0, <1>6
  <1>8. \A k \in 1..n : m + k \in DOMAIN u /\ u[m + k] = a[k]
      BY <1>0, <1>6
  <1>9. \A i \in DOMAIN u : i \notin DOMAIN t => \E k \in 1..n : i = m + k
    <2> SUFFICES ASSUME NEW i \in DOMAIN u, i \notin DOMAIN t PROVE \E k \in 1..n : i = m + k
        OBVIOUS
    <2>1. i - m \in 1..n /\ i = m + (i - m)
        BY <1>0, <1>6
    <2> QED
        BY <2>1
  <1>10. IsTree(u)
      BY <1>2, <1>3, <1>4, <1>7 DEF IsTree
  <1> QED
      BY <1>4, <1>5, <1>7, <1>8, <1>9, <1>10

LEMMA AddChildFacts ==
    ASSUME NEW t, IsTree(t), NEW f \in Names
    PROVE  LET u == AddChild(t, f)
               c == Find(u, f)
           IN /\ IsTree(u) /\ DOMAIN t \subseteq DOMAIN u /\ \A i \in DOMAIN t : u[i] = t[i]
              /\ c \in DOMAIN u /\ c # Dir /\ c # None /\ u[c].linked /\ u[c].name = f
              /\ \A i \in DOMAIN u : i \notin DOMAIN t => i = c /\ u[i] = NewLeaf(f)
              /\ OneOfAName(t) => OneOfAName(u)
              /\ c \notin DOMAIN t => Find(t, f) = None
  <1>1. PICK u : u = AddChild(t, f)
      OBVIOUS
  <1>2. PICK c : c = Find(u, f)
      OBVIOUS
  <1>3. CASE Find(t, f) # None
    <2>1. u = t
        BY <1>1, <1>3 DEF AddChild
    <2>2. c \in DOMAIN t /\ c # Dir /\ t[c].linked /\ t[c].name = f
        BY <1>2, <1>3, <2>1, FindChild
    <2>3. c # None
        BY <2>2, LeafFields
    <2> QED
        BY <1>1, <1>2, <2>1, <2>2, <2>3
  <1>4. CASE Find(t, f) = None
    <2>1. u = Append(t, NewLeaf(f)) /\ NewLeaf(f) \in LeafType
        BY <1>1, <1>4, NewLeafFields DEF AddChild
    <2>2. PICK d \in Nat : d = Len(t) + 1
        BY DEF IsTree
    <2>3. /\ t \in Seq(LeafType) /\ DOMAIN t = 1..(d - 1) /\ Dir \in DOMAIN t
        BY <2>2 DEF IsTree
    <2>4. /\ u \in Seq(LeafType) /\ DOMAIN u = 1..d /\ u[d] = NewLeaf(f)
          /\ \A i \in 1..(d - 1) : u[i] = t[i]
        BY <2>1, <2>2, <2>3
    <2>5. /\ d # Dir /\ d # None /\ d \in DOMAIN u /\ d \notin DOMAIN t
          /\ DOMAIN t \subseteq DOMAIN u /\ (\A i \in DOMAIN t : u[i] = t[i])
          /\ \A i \in DOMAIN u : i \notin DOMAIN t => i = d
        BY <2>3, <2>4 DEF Dir, None
    <2>6. IsTree(u)
        BY <2>3, <2>4, <2>5 DEF IsTree
    <2>7. u[d].linked /\ u[d].name = f
        BY <2>4, NewLeafFields
    <2>8. \A i \in DOMAIN t : ~(i # Dir /\ t[i].linked /\ t[i].name = f)
        BY <1>4, FindChild
    <2>9. c \in DOMAIN u /\ c # Dir /\ u[c].linked /\ u[c].name = f
        BY <1>2, <2>5, <2>6, <2>7, FindChild
    <2>10. c = d
        BY <2>5, <2>8, <2>9
    <2>11. OneOfAName(t) => OneOfAName(u)
        BY <2>5, <2>7, <2>8 DEF OneOfAName
    <2> QED
        BY <1>1, <1>2, <1>4, <2>4, <2>5, <2>6, <2>7, <2>10, <2>11
  <1> QED
      BY <1>3, <1>4

LEMMA RemoveChildFacts ==
    ASSUME NEW t, IsTree(t), NEW f
    PROVE  LET u == RemoveChild(t, f)
           IN /\ IsTree(u) /\ DOMAIN u = DOMAIN t
              /\ \A i \in DOMAIN t : /\ u[i].name = t[i].name /\ u[i].refs = t[i].refs
                                     /\ u[i].server = t[i].server
                                     /\ u[i].linked <=> t[i].linked /\ i # Find(t, f)
              /\ OneOfAName(t) => OneOfAName(u)
  <1>1. PICK u : u = RemoveChild(t, f)
      OBVIOUS
  <1>2. PICK c : c = Find(t, f)
      OBVIOUS
  <1>3. u = [i \in DOMAIN t |-> IF i = c THEN [t[i] EXCEPT !.linked = FALSE] ELSE t[i]]
      BY <1>1, <1>2 DEF RemoveChild
  <1>4. \A i \in DOMAIN t : /\ u[i] \in LeafType /\ u[i].name = t[i].name /\ u[i].refs = t[i].refs
                            /\ u[i].server = t[i].server
                            /\ u[i].linked <=> t[i].linked /\ i # c
    <2> SUFFICES ASSUME NEW i \in DOMAIN t
                 PROVE  /\ u[i] \in LeafType /\ u[i].name = t[i].name /\ u[i].refs = t[i].refs
                        /\ u[i].server = t[i].server
                        /\ u[i].linked <=> t[i].linked /\ i # c
        OBVIOUS
    <2>1. t[i] \in LeafType
        BY LeafFields
    <2>2. CASE i = c
      <3>1. u[i] = [t[i] EXCEPT !.linked = FALSE]
          BY <1>3, <2>2
      <3> QED
          BY <2>1, <2>2, <3>1 DEF LeafType
    <2>3. CASE i # c
      <3>1. u[i] = t[i]
          BY <1>3, <2>3
      <3> QED
          BY <2>1, <2>3, <3>1
    <2> QED
        BY <2>2, <2>3
  <1>5. DOMAIN u = DOMAIN t /\ DOMAIN t = 1..Len(t) /\ Len(t) \in Nat
      BY <1>3 DEF IsTree
  <1>6. IsTree(u)
    <2>1. u \in [1..Len(t) -> LeafType]
        BY <1>3, <1>4, <1>5
    <2>2. u \in Seq(LeafType)
        BY <1>5, <2>1
    <2> QED
        BY <1>5, <2>2 DEF IsTree
  <1>7. OneOfAName(t) => OneOfAName(u)
      BY <1>4, <1>5 DEF OneOfAName
  <1> QED
      BY <1>1, <1>2, <1>4, <1>5, <1>6, <1>7

LEMMA AddRefFacts ==
    ASSUME NEW t, IsTree(t), NEW c
    PROVE  /\ IsTree(AddRef(t, c)) /\ DOMAIN AddRef(t, c) = DOMAIN t
           /\ \A i \in DOMAIN t : /\ AddRef(t, c)[i].name = t[i].name
                                  /\ AddRef(t, c)[i].server = t[i].server
                                  /\ AddRef(t, c)[i].linked = t[i].linked
                                  /\ AddRef(t, c)[i].refs = t[i].refs + (IF i = c THEN 1 ELSE 0)
  <1>1. DOMAIN t = 1..Len(t) /\ Len(t) \in Nat /\ t \in Seq(LeafType) /\ Dir \in DOMAIN t
      BY DEF IsTree
  <1>2. PICK u : u = AddRef(t, c)
      OBVIOUS
  <1>3. DOMAIN u = DOMAIN t /\ \A i \in DOMAIN t : u[i] = IF i = c THEN [t[i] EXCEPT !.refs = @ + 1] ELSE t[i]
      BY <1>1, <1>2 DEF AddRef
  <1>4. \A i \in DOMAIN t : /\ u[i] \in LeafType /\ u[i].name = t[i].name
                            /\ u[i].server = t[i].server /\ u[i].linked = t[i].linked
                            /\ u[i].refs = t[i].refs + (IF i = c THEN 1 ELSE 0)
    <2> SUFFICES ASSUME NEW i \in DOMAIN t
                 PROVE  /\ u[i] \in LeafType /\ u[i].name = t[i].name
                        /\ u[i].server = t[i].server /\ u[i].linked = t[i].linked
                        /\ u[i].refs = t[i].refs + (IF i = c THEN 1 ELSE 0)
        OBVIOUS
    <2>1. t[i] \in LeafType /\ t[i].refs \in Nat
        BY LeafFields
    <2>2. i = c => u[i] = [t[i] EXCEPT !.refs = @ + 1]
        BY <1>3
    <2>3. i # c => u[i] = t[i]
        BY <1>3
    <2>4. CASE i = c
      <3>1. PICK m \in Nat : m = t[i].refs + 1
          BY <2>1
      <3>2. u[i] = [t[i] EXCEPT !.refs = m]
          BY <2>2, <2>4, <3>1
      <3>3. /\ u[i] \in LeafType /\ u[i].name = t[i].name
            /\ u[i].server = t[i].server /\ u[i].linked = t[i].linked /\ u[i].refs = m
          BY <2>1, <3>2 DEF LeafType
      <3> QED
          BY <2>4, <3>1, <3>3
    <2>5. CASE i # c
      <3>1. u[i] = t[i]
          BY <2>3, <2>5
      <3> QED
          BY <2>1, <2>5, <3>1
    <2> QED
        BY <2>4, <2>5
  <1>5. IsTree(u)
    <2>1. u \in [1..Len(t) -> LeafType]
        BY <1>1, <1>2, <1>3, <1>4 DEF AddRef
    <2> QED
        BY <1>1, <1>3, <2>1 DEF IsTree
  <1> QED
      BY <1>2, <1>3, <1>4, <1>5

LEMMA ReleaseRefFacts ==
    ASSUME NEW t, IsTree(t), NEW c, NEW n \in Nat, t[c].refs >= n
    PROVE  /\ IsTree(ReleaseRef(t, c, n)) /\ DOMAIN ReleaseRef(t, c, n) = DOMAIN t
           /\ \A i \in DOMAIN t : /\ ReleaseRef(t, c, n)[i].name = t[i].name
                                  /\ ReleaseRef(t, c, n)[i].server = t[i].server
                                  /\ ReleaseRef(t, c, n)[i].linked = t[i].linked
                                  /\ ReleaseRef(t, c, n)[i].refs = t[i].refs - (IF i = c THEN n ELSE 0)
  <1>0. DOMAIN t = 1..Len(t) /\ Len(t) \in Nat /\ t \in Seq(LeafType) /\ Dir \in DOMAIN t
      BY DEF IsTree
  <1>1. PICK v : v = ReleaseRef(t, c, n)
      OBVIOUS
  <1>2. DOMAIN v = DOMAIN t /\ \A i \in DOMAIN t : v[i] = IF i = c THEN [t[i] EXCEPT !.refs = @ - n] ELSE t[i]
      BY <1>0, <1>1 DEF ReleaseRef
  <1>3. \A i \in DOMAIN t : /\ v[i] \in LeafType /\ v[i].name = t[i].name
                            /\ v[i].server = t[i].server /\ v[i].linked = t[i].linked
                            /\ v[i].refs = t[i].refs - (IF i = c THEN n ELSE 0)
    <2> SUFFICES ASSUME NEW i \in DOMAIN t
                 PROVE  /\ v[i] \in LeafType /\ v[i].name = t[i].name
                        /\ v[i].server = t[i].server /\ v[i].linked = t[i].linked
                        /\ v[i].refs = t[i].refs - (IF i = c THEN n ELSE 0)
        OBVIOUS
    <2>1. t[i] \in LeafType /\ t[i].refs \in Nat
        BY LeafFields
    <2>2. i = c => v[i] = [t[i] EXCEPT !.refs = @ - n]
        BY <1>2
    <2>3. i # c => v[i] = t[i]
        BY <1>2
    <2>4. CASE i = c
      <3>1. t[i].refs >= n
          BY <2>4
      <3>2. PICK m \in Nat : m = t[i].refs - n
          BY <2>1, <3>1
      <3>3. v[i] = [t[i] EXCEPT !.refs = m]
          BY <2>2, <2>4, <3>2
      <3>4. /\ v[i] \in LeafType /\ v[i].name = t[i].name
            /\ v[i].server = t[i].server /\ v[i].linked = t[i].linked /\ v[i].refs = m
          BY <2>1, <3>3 DEF LeafType
      <3> QED
          BY <2>4, <3>2, <3>4
    <2>5. CASE i # c
      <3>1. v[i] = t[i]
          BY <2>3, <2>5
      <3> QED
          BY <2>1, <2>5, <3>1
    <2> QED
        BY <2>4, <2>5
  <1>4. v \in [1..Len(t) -> LeafType]
      BY <1>0, <1>1, <1>2, <1>3 DEF ReleaseRef
  <1>5. IsTree(v)
      BY <1>0, <1>2, <1>4 DEF IsTree
  <1> QED
      BY <1>1, <1>2, <1>3, <1>5

LEMMA SetServerFacts ==
    ASSUME NEW t, IsTree(t), NEW c, NEW s \in Nat
    PROVE  LET u == SetServerInode(t, c, s)
           IN /\ IsTree(u) /\ DOMAIN u = DOMAIN t
              /\ \A i \in DOMAIN t : /\ u[i].name = t[i].name /\ u[i].refs = t[i].refs
                                     /\ u[i].linked = t[i].linked
                                     /\ u[i].server = IF i = c THEN s ELSE t[i].server
  <1>1. DOMAIN t = 1..Len(t) /\ Len(t) \in Nat /\ t \in Seq(LeafType) /\ Dir \in DOMAIN t
      BY DEF IsTree
  <1>2. PICK u : u = SetServerInode(t, c, s)
      OBVIOUS
  <1>3. DOMAIN u = DOMAIN t /\ \A i \in DOMAIN t : u[i] = IF i = c THEN [t[i] EXCEPT !.server = s] ELSE t[i]
      BY <1>1, <1>2 DEF SetServerInode
  <1>4. \A i \in DOMAIN t : /\ u[i] \in LeafType /\ u[i].name = t[i].name /\ u[i].refs = t[i].refs
                            /\ u[i].linked = t[i].linked
                            /\ u[i].server = IF i = c THEN s ELSE t[i].server
    <2> SUFFICES ASSUME NEW i \in DOMAIN t
                 PROVE  /\ u[i] \in LeafType /\ u[i].name = t[i].name /\ u[i].refs = t[i].refs
                        /\ u[i].linked = t[i].linked
                        /\ u[i].server = IF i = c THEN s ELSE t[i].server
        OBVIOUS
    <2>1. t[i] \in LeafType
        BY LeafFields
    <2>2. i = c => u[i] = [t[i] EXCEPT !.server = s]
        BY <1>3
    <2>3. i # c => u[i] = t[i]
        BY <1>3
    <2>4. CASE i = c
        BY <2>1, <2>2, <2>4 DEF LeafType
    <2>5. CASE i # c
        BY <2>1, <2>3, <2>5 DEF LeafType
    <2> QED
        BY <2>4, <2>5
  <1>5. u \in [1..Len(t) -> LeafType]
      BY <1>1, <1>2, <1>3, <1>4 DEF SetServerInode
  <1>6. IsTree(u)
      BY <1>1, <1>3, <1>5 DEF IsTree
  <1> QED
      BY <1>2, <1>3, <1>4, <1>6

\* Every element of a finite set has one place in the order.
LEMMA Ordered ==
    ASSUME NEW S, IsFiniteSet(S)
    PROVE  /\ Cardinality(S) \in Nat /\ InOrder(S) \in [1..Cardinality(S) -> S]
           /\ \A e \in S : \E k \in 1..Cardinality(S) : InOrder(S)[k] = e
           /\ \A j, k \in 1..Cardinality(S) : InOrder(S)[j] = InOrder(S)[k] => j = k
  <1>1. Cardinality(S) \in Nat /\ ExistsBijection(1..Cardinality(S), S)
      BY FS_CardinalityType
  <1>2. PICK f : f \in Bijection(1..Cardinality(S), S)
      BY <1>1 DEF ExistsBijection
  <1>3. /\ f \in [1..Cardinality(S) -> S]
        /\ \A e \in S : \E k \in DOMAIN f : f[k] = e
        /\ \A j, k \in DOMAIN f : f[j] = f[k] => j = k
      BY <1>2 DEF Bijection, Injection, Surjection, IsInjective
  <1>4. PICK q : q = InOrder(S)
      OBVIOUS
  <1>5. /\ q \in [1..Cardinality(S) -> S]
        /\ \A e \in S : \E k \in DOMAIN q : q[k] = e
        /\ \A j, k \in DOMAIN q : q[j] = q[k] => j = k
      BY <1>3, <1>4 DEF InOrder
  <1>6. DOMAIN q = 1..Cardinality(S)
      BY <1>5
  <1> QED
      BY <1>1, <1>4, <1>5, <1>6

\* Rescan adds one leaf for each file that has none.
LEMMA RescanFacts ==
    ASSUME IsTree(sLeaf), OneOfAName(sLeaf), disk \subseteq Files
    PROVE  LET u == Rescan
           IN /\ IsTree(u) /\ DOMAIN sLeaf \subseteq DOMAIN u /\ \A i \in DOMAIN sLeaf : u[i] = sLeaf[i]
              /\ \A i \in DOMAIN u : i \notin DOMAIN sLeaf =>
                    i # Dir /\ \E f \in disk : Find(sLeaf, f) = None /\ u[i] = NewLeaf(f)
              /\ OneOfAName(u)
  <1>1. PICK S : S = {f \in disk : Find(sLeaf, f) = None}
      OBVIOUS
  <1>2. PICK order : order = InOrder(S)
      OBVIOUS
  <1>3. PICK n : n = Cardinality(S)
      OBVIOUS
  <1>4. S \subseteq Names /\ S \subseteq disk /\ IsFiniteSet(S)
    <2>1. S \subseteq disk /\ S \subseteq Files
        BY <1>1
    <2>2. IsFiniteSet(S)
        BY <2>1, RemoteTreeAssumption, FS_Subset
    <2> QED
        BY <2>1, <2>2 DEF Names
  <1>5. /\ n \in Nat /\ order \in [1..n -> S]
        /\ \A j, k \in 1..n : order[j] = order[k] => j = k
      BY <1>2, <1>3, <1>4, Ordered
  <1>6. PICK a : a = [k \in 1..n |-> NewLeaf(order[k])]
      OBVIOUS
  <1>7. a \in [1..n -> LeafType]
      BY <1>4, <1>5, <1>6, NewLeafFields
  <1>8. PICK u : u = sLeaf \o a
      OBVIOUS
  <1>9. Rescan = u
    <2>1. DOMAIN order = 1..n
        BY <1>5
    <2> QED
        BY <1>1, <1>2, <1>6, <1>8, <2>1 DEF Rescan
  <1>10. /\ IsTree(u) /\ Len(sLeaf) \in Nat /\ DOMAIN sLeaf \subseteq DOMAIN u
         /\ \A i \in DOMAIN sLeaf : u[i] = sLeaf[i]
         /\ \A k \in 1..n : Len(sLeaf) + k \in DOMAIN u /\ u[Len(sLeaf) + k] = a[k]
         /\ \A i \in DOMAIN u : i \notin DOMAIN sLeaf => \E k \in 1..n : i = Len(sLeaf) + k
    <2>1. Longer(sLeaf, n, a, u)
        BY <1>5, <1>7, <1>8 DEF Longer
    <2> QED
        BY <2>1, TreeConcat
  <1>11. ASSUME NEW i \in DOMAIN u, i \notin DOMAIN sLeaf
         PROVE  i # Dir /\ \E k \in 1..n : i = Len(sLeaf) + k /\ u[i] = NewLeaf(order[k]) /\ order[k] \in S
    <2>1. i # Dir
        BY <1>11 DEF IsTree
    <2>2. PICK k \in 1..n : i = Len(sLeaf) + k
        BY <1>10, <1>11
    <2>3. u[i] = NewLeaf(order[k]) /\ order[k] \in S
        BY <1>5, <1>6, <1>10, <2>2
    <2> QED
        BY <2>1, <2>2, <2>3
  <1>12. \A i \in DOMAIN u : i \notin DOMAIN sLeaf =>
            i # Dir /\ \E f \in disk : Find(sLeaf, f) = None /\ u[i] = NewLeaf(f)
      BY <1>1, <1>11
  <1>13. OneOfAName(u)
    <2> SUFFICES ASSUME NEW i \in DOMAIN u, NEW k \in DOMAIN u, i # Dir, k # Dir, u[i].linked,
                        u[k].linked, u[i].name = u[k].name
                 PROVE  i = k
        BY DEF OneOfAName
    <2>1. ASSUME NEW g \in DOMAIN u, NEW h \in DOMAIN u, g # Dir, u[g].linked, g \in DOMAIN sLeaf,
                 h \notin DOMAIN sLeaf, u[g].name = u[h].name
          PROVE  FALSE
      <3>1. PICK m \in 1..n : u[h] = NewLeaf(order[m]) /\ order[m] \in S
          BY <1>11, <2>1
      <3>2. u[h].name = order[m] /\ Find(sLeaf, order[m]) = None
          BY <1>1, <1>4, <3>1, NewLeafFields
      <3>3. sLeaf[g].linked /\ sLeaf[g].name = order[m]
          BY <1>10, <2>1, <3>2
      <3> QED
          BY <2>1, <3>2, <3>3, FindChild
    <2>2. CASE i \in DOMAIN sLeaf /\ k \in DOMAIN sLeaf
        BY <1>10, <2>2 DEF OneOfAName
    <2>3. CASE i \notin DOMAIN sLeaf /\ k \notin DOMAIN sLeaf
      <3>1. PICK m \in 1..n : i = Len(sLeaf) + m /\ u[i] = NewLeaf(order[m]) /\ order[m] \in S
          BY <1>11, <2>3
      <3>2. PICK l \in 1..n : k = Len(sLeaf) + l /\ u[k] = NewLeaf(order[l]) /\ order[l] \in S
          BY <1>11, <2>3
      <3>3. order[m] = order[l]
          BY <1>4, <3>1, <3>2, NewLeafFields
      <3>4. m = l
          BY <1>5, <3>3
      <3> QED
          BY <3>1, <3>2, <3>4
    <2> QED
        BY <2>1, <2>2, <2>3
  <1> QED
      BY <1>9, <1>10, <1>12, <1>13

\* ResolveClientInode adds one leaf for each entry whose name the tree does not have.
LEMMA ResolveFacts ==
    ASSUME IsTree(cLeaf), OneOfAName(cLeaf), NEW E \in Listings, IsFiniteSet(E),
           \A e, g \in E : e.name = g.name => e = g
    PROVE  LET u == ResolveClientInode(E)
           IN /\ IsTree(u) /\ DOMAIN cLeaf \subseteq DOMAIN u /\ \A i \in DOMAIN cLeaf : u[i] = cLeaf[i]
              /\ \A i \in DOMAIN u : i \notin DOMAIN cLeaf =>
                    i # Dir /\ \E e \in E : /\ Find(cLeaf, e.name) = None /\ u[i].name = e.name
                                            /\ u[i].server = e.leaf /\ u[i].refs = 0 /\ u[i].linked
                                            /\ Find(u, e.name) = i
              /\ OneOfAName(u)
              /\ \A e \in E : /\ Find(u, e.name) \in DOMAIN u /\ Find(u, e.name) # Dir
                              /\ u[Find(u, e.name)].linked /\ u[Find(u, e.name)].name = e.name
                              /\ Find(cLeaf, e.name) = None =>
                                   /\ Find(u, e.name) \notin DOMAIN cLeaf
                                   /\ u[Find(u, e.name)].server = e.leaf
                              /\ Find(cLeaf, e.name) # None => Find(u, e.name) = Find(cLeaf, e.name)
  <1>1. PICK S : S = {e \in E : Find(cLeaf, e.name) = None}
      OBVIOUS
  <1>2. PICK order : order = InOrder(S)
      OBVIOUS
  <1>3. PICK n : n = Cardinality(S)
      OBVIOUS
  <1>4. S \subseteq E /\ IsFiniteSet(S)
      BY <1>1, FS_Subset
  <1>5. \A e \in E : e.name \in Names /\ e.leaf \in Nat
      BY DEF Listings, Entries
  <1>6. /\ n \in Nat /\ order \in [1..n -> S]
        /\ \A e \in S : \E k \in 1..n : order[k] = e
        /\ \A j, k \in 1..n : order[j] = order[k] => j = k
      BY <1>2, <1>3, <1>4, Ordered
  <1>7. PICK a : a = [k \in 1..n |-> [NewLeaf(order[k].name) EXCEPT !.server = order[k].leaf]]
      OBVIOUS
  <1>8. \A k \in 1..n : /\ a[k] \in LeafType /\ a[k].name = order[k].name /\ a[k].linked
                        /\ a[k].refs = 0 /\ a[k].server = order[k].leaf
    <2> SUFFICES ASSUME NEW k \in 1..n
                 PROVE  /\ a[k] \in LeafType /\ a[k].name = order[k].name /\ a[k].linked
                        /\ a[k].refs = 0 /\ a[k].server = order[k].leaf
        OBVIOUS
    <2>1. PICK f \in Names : f = order[k].name
        BY <1>4, <1>5, <1>6
    <2>2. PICK s \in Nat : s = order[k].leaf
        BY <1>4, <1>5, <1>6
    <2>3. a[k] = [NewLeaf(f) EXCEPT !.server = s]
        BY <1>7, <2>1, <2>2
    <2>4. /\ a[k] \in LeafType /\ a[k].name = f /\ a[k].linked /\ a[k].refs = 0 /\ a[k].server = s
      <3>1. PICK l : l = [NewLeaf(f) EXCEPT !.server = s]
          OBVIOUS
      <3>2. /\ l \in LeafType /\ l.name = f /\ l.linked /\ l.refs = 0 /\ l.server = s
          BY <3>1 DEF NewLeaf, LeafType
      <3> QED
          BY <2>3, <3>1, <3>2
    <2> QED
        BY <2>1, <2>2, <2>4
  <1>9. a \in [1..n -> LeafType]
      BY <1>7, <1>8
  <1>10. PICK u : u = cLeaf \o a
      OBVIOUS
  <1>11. ResolveClientInode(E) = u
    <2>1. DOMAIN order = 1..n
        BY <1>6
    <2> QED
        BY <1>1, <1>2, <1>7, <1>10, <2>1 DEF ResolveClientInode
  <1>12. /\ IsTree(u) /\ Len(cLeaf) \in Nat /\ DOMAIN cLeaf \subseteq DOMAIN u
         /\ \A i \in DOMAIN cLeaf : u[i] = cLeaf[i]
         /\ \A k \in 1..n : Len(cLeaf) + k \in DOMAIN u /\ u[Len(cLeaf) + k] = a[k]
         /\ \A i \in DOMAIN u : i \notin DOMAIN cLeaf => \E k \in 1..n : i = Len(cLeaf) + k
    <2>1. Longer(cLeaf, n, a, u)
        BY <1>6, <1>9, <1>10 DEF Longer
    <2> QED
        BY <2>1, TreeConcat
  <1>13. ASSUME NEW i \in DOMAIN u, i \notin DOMAIN cLeaf
         PROVE  i # Dir /\ \E k \in 1..n : /\ i = Len(cLeaf) + k /\ order[k] \in S
                                           /\ u[i].name = order[k].name /\ u[i].server = order[k].leaf
                                           /\ u[i].refs = 0 /\ u[i].linked
    <2>1. i # Dir
        BY <1>13 DEF IsTree
    <2>2. PICK k \in 1..n : i = Len(cLeaf) + k
        BY <1>12, <1>13
    <2>3. order[k] \in S /\ u[i] = a[k]
        BY <1>6, <1>12, <2>2
    <2> QED
        BY <1>8, <2>1, <2>2, <2>3
  <1>14. ASSUME NEW g \in DOMAIN u, NEW h \in DOMAIN u, g # Dir, u[g].linked, g \in DOMAIN cLeaf,
                h \notin DOMAIN cLeaf, u[g].name = u[h].name
         PROVE  FALSE
    <2>1. PICK m \in 1..n : order[m] \in S /\ u[h].name = order[m].name
        BY <1>13, <1>14
    <2>2. Find(cLeaf, order[m].name) = None
        BY <1>1, <2>1
    <2>3. cLeaf[g].linked /\ cLeaf[g].name = order[m].name
        BY <1>12, <1>14, <2>1
    <2> QED
        BY <1>14, <2>2, <2>3, FindChild
  <1>15. OneOfAName(u)
    <2> SUFFICES ASSUME NEW i \in DOMAIN u, NEW k \in DOMAIN u, i # Dir, k # Dir, u[i].linked,
                        u[k].linked, u[i].name = u[k].name
                 PROVE  i = k
        BY DEF OneOfAName
    <2>1. CASE i \in DOMAIN cLeaf /\ k \in DOMAIN cLeaf
        BY <1>12, <2>1 DEF OneOfAName
    <2>2. CASE i \notin DOMAIN cLeaf /\ k \notin DOMAIN cLeaf
      <3>1. PICK m \in 1..n : i = Len(cLeaf) + m /\ u[i].name = order[m].name /\ order[m] \in S
          BY <1>13, <2>2
      <3>2. PICK l \in 1..n : k = Len(cLeaf) + l /\ u[k].name = order[l].name /\ order[l] \in S
          BY <1>13, <2>2
      <3>3. order[m] = order[l]
          BY <1>4, <3>1, <3>2
      <3>4. m = l
          BY <1>6, <3>3
      <3> QED
          BY <3>1, <3>2, <3>4
    <2> QED
        BY <1>14, <2>1, <2>2
  <1>16. ASSUME NEW i \in DOMAIN u, i \notin DOMAIN cLeaf
         PROVE  i # Dir /\ \E e \in E : /\ Find(cLeaf, e.name) = None /\ u[i].name = e.name
                                        /\ u[i].server = e.leaf /\ u[i].refs = 0 /\ u[i].linked
                                        /\ Find(u, e.name) = i
    <2>1. PICK k \in 1..n : /\ order[k] \in S /\ u[i].name = order[k].name
                            /\ u[i].server = order[k].leaf /\ u[i].refs = 0 /\ u[i].linked
        BY <1>13, <1>16
    <2>2. i # Dir
        BY <1>13, <1>16
    <2>3. Find(u, order[k].name) = i
        BY <1>12, <1>15, <2>1, <2>2, FindChild
    <2>4. order[k] \in E /\ Find(cLeaf, order[k].name) = None
        BY <1>1, <2>1
    <2> QED
        BY <2>1, <2>2, <2>3, <2>4
  <1>17. ASSUME NEW e \in E
         PROVE  /\ Find(u, e.name) \in DOMAIN u /\ Find(u, e.name) # Dir
                /\ u[Find(u, e.name)].linked /\ u[Find(u, e.name)].name = e.name
                /\ Find(cLeaf, e.name) = None => /\ Find(u, e.name) \notin DOMAIN cLeaf
                                                 /\ u[Find(u, e.name)].server = e.leaf
                /\ Find(cLeaf, e.name) # None => Find(u, e.name) = Find(cLeaf, e.name)
    <2>1. CASE Find(cLeaf, e.name) = None
      <3>1. e \in S
          BY <1>1, <2>1
      <3>2. PICK k \in 1..n : order[k] = e
          BY <1>6, <3>1
      <3>3. PICK i : i = Len(cLeaf) + k
          OBVIOUS
      <3>4. i \in DOMAIN u /\ u[i] = a[k]
          BY <1>12, <3>3
      <3>5. u[i].name = e.name /\ u[i].linked /\ u[i].server = e.leaf
          BY <1>8, <3>2, <3>4
      <3>6. i \notin DOMAIN cLeaf /\ i # Dir
        <4>1. DOMAIN cLeaf = 1..Len(cLeaf) /\ Dir \in DOMAIN cLeaf
            BY DEF IsTree
        <4>2. i \notin 1..Len(cLeaf)
            BY <1>12, <3>3
        <4> QED
            BY <4>1, <4>2
      <3>7. Find(u, e.name) = i
          BY <1>12, <1>15, <3>4, <3>5, <3>6, FindChild
      <3> QED
          BY <2>1, <3>4, <3>5, <3>6, <3>7
    <2>2. CASE Find(cLeaf, e.name) # None
      <3>1. PICK i : i = Find(cLeaf, e.name)
          OBVIOUS
      <3>2. i \in DOMAIN cLeaf /\ i # Dir /\ cLeaf[i].linked /\ cLeaf[i].name = e.name
          BY <2>2, <3>1, FindChild
      <3>3. i \in DOMAIN u /\ u[i].linked /\ u[i].name = e.name
          BY <1>12, <3>2
      <3>4. Find(u, e.name) = i
          BY <1>12, <1>15, <3>2, <3>3, FindChild
      <3> QED
          BY <2>2, <3>1, <3>2, <3>3, <3>4
    <2> QED
        BY <2>1, <2>2
  <1> QED
      BY <1>11, <1>12, <1>15, <1>16, <1>17

-----------------------------------------------------------------------------
(* The invariant.                                                          *)

\* The jobs that serve a request of the kernel, and those that use a handle or give it up.
RequestOps == {"Lookup", "OpenDir", "Open", "ReadDirPlus", "GetAttr", "Read", "Release", "ReleaseDir"}
AnswerOps  == {"LookupIn", "OpenDirIn", "OpenIn", "ReadDirPlusIn", "GetAttrIn", "ReadIn",
               "ReleaseIn", "ReleaseDirIn"}
DirOps     == {"Lookup", "OpenDir", "ReadDirPlus", "ReleaseDir"}
Answers(a, op) ==
    \/ a = "LookupIn" /\ op = "Lookup"
    \/ a = "OpenDirIn" /\ op = "OpenDir"
    \/ a = "OpenIn" /\ op = "Open"
    \/ a = "ReadDirPlusIn" /\ op = "ReadDirPlus"
    \/ a = "GetAttrIn" /\ op = "GetAttr"
    \/ a = "ReadIn" /\ op = "Read"
    \/ a = "ReleaseIn" /\ op = "Release"
    \/ a = "ReleaseDirIn" /\ op = "ReleaseDir"
Live(j)  == j.op \in RequestOps \cup AnswerOps
ReadsHandle(j) == \/ j.op \in {"Read", "ReadIn", "ReadDirPlus"}
                  \/ j.op = "GetAttr" /\ j.x # None
Releases(j) == j.op \in {"Release", "ReleaseDir"}
Opens(j) == j.op \in {"OpenIn", "OpenDirIn"} /\ j.x # None

DiskType ==
    /\ disk \subseteq Files /\ deleted \subseteq Files /\ recreated \in BOOLEAN
    /\ events \in Seq([type : {"Created", "Deleted"}, name : Files])
QueueType ==
    /\ cQueue \in Seq(JobType) /\ sQueue \in Seq(JobType) /\ applying \in Seq(JobType)
    /\ sReads \subseteq JobType /\ IsFiniteSet(sReads)
KernelType ==
    /\ sHandles \subseteq Nat /\ requests \in Nat /\ leaked \in Nat
    /\ DOMAIN known \subseteq DOMAIN cLeaf /\ known \in [DOMAIN known -> Nat \ {0}]
    /\ reqs \subseteq [req : 1..requests, op : RequestOps, leaf : DOMAIN known]
    /\ opened \subseteq [leaf : DOMAIN known, handle : 1..requests] /\ IsFiniteSet(opened)
    /\ forgetting \subseteq [leaf : DOMAIN cLeaf, n : Nat \ {0}] /\ IsFiniteSet(forgetting)
\* What the variables hold.
TypeInv == DiskType /\ IsTree(sLeaf) /\ IsTree(cLeaf) /\ QueueType /\ KernelType

\* A server leaf that goes with a name has that name.
Named(e) == e.leaf \in DOMAIN sLeaf /\ e.leaf # Dir /\ sLeaf[e.leaf].name = e.name

\* What a job carries.
Sound(j) ==
    /\ j.op \in DirOps => j.leaf = Dir
    /\ j.op = "Lookup" => j.x \in Files
    /\ j.op = "LookupIn" => /\ j.leaf = Dir /\ j.x \in Entries
                            /\ j.x.leaf = None \/ Named(j.x)
    /\ j.op = "ReadDirPlusIn" => /\ j.x \in Listings /\ IsFiniteSet(j.x)
                                 /\ \A e \in j.x : Named(e)
                                 /\ \A e, g \in j.x : e.name = g.name => e = g
    /\ j.op = "NotifyEntry" => j.x \in Notices /\ (j.x.type = "Created" => Named(j.x))
    /\ j.op = "ForgetMulti" => j.leaf \in DOMAIN sLeaf /\ j.x \in Nat \ {0}
    /\ j.op \in {"ForgetMulti", "ForgetMultiIn"} => j.req = 0
    /\ j.op = "ReleaseLeafRef" => j.leaf \in DOMAIN cLeaf /\ j.x \in Nat \ {0}
SoundInv == \A j \in Jobs(cQueue) \cup Jobs(sQueue) : Sound(j)

\* A client leaf stands for a server leaf of its name, and is found by it while it is linked.
Stands == \A c \in DOMAIN cLeaf :
    c # Dir => /\ cLeaf[c].server \in DOMAIN sLeaf /\ cLeaf[c].server # Dir
               /\ sLeaf[cLeaf[c].server].name = cLeaf[c].name
TreeInv ==
    /\ OneOfAName(sLeaf) /\ OneOfAName(cLeaf)
    /\ cLeaf[Dir].server = Dir /\ cLeaf[Dir].linked
    /\ Stands /\ IndexAgrees

\* Every job that serves a request serves one that the kernel waits for, and no other job
\* serves it; what it uses is open.
LiveW(n) == [j \in JobType |-> IF Live(j) /\ j.req = n THEN 1 ELSE 0]
Serves(j, r) ==
    /\ j.req = r.req /\ (j.op = r.op \/ Answers(j.op, r.op))
    /\ j.op \in {"Read", "ReadIn"} => j.leaf = r.leaf
    /\ ReadsHandle(j) => [leaf |-> r.leaf, handle |-> j.x] \in opened
ServedByClient(j) ==
    Live(j) => \E r \in reqs : Serves(j, r) /\ (j.op \in RequestOps => j.leaf = r.leaf)
Served(j) == Live(j) => \E r \in reqs : Serves(j, r)
LiveSum(n, q, p, a, S) ==
    Sum(q, LiveW(n)) + Sum(p, LiveW(n)) + Sum(a, LiveW(n)) + Total([j \in S |-> LiveW(n)[j]])
LiveCount(n) == LiveSum(n, cQueue, sQueue, applying, sReads)
RequestInv ==
    /\ \A r, p \in reqs : r.req = p.req => r = p
    /\ \A r \in reqs : r.leaf = Dir <=> r.op \in DirOps
    /\ \A j \in Jobs(cQueue) : ServedByClient(j)
    /\ \A j \in Jobs(sQueue) \cup sReads \cup Jobs(applying) : Served(j)
    /\ \A n \in Nat : LiveCount(n) <= 1

\* A handle that the kernel has open, or gives up, exists, and has one owner.
ReleaseW(n) == [j \in JobType |-> IF Releases(j) /\ j.x = n THEN 1 ELSE 0]
Owned(j) ==
    /\ Releases(j) => j.x \in sHandles /\ j.x \in 1..requests /\ \A r \in reqs : j.x # r.req
    /\ Opens(j) => j.x = j.req /\ j.x \in sHandles
OwnerSum(n, q, p, O) ==
    Sum(q, ReleaseW(n)) + Sum(p, ReleaseW(n)) + Cardinality({h \in O : h.handle = n})
Owners(n) == OwnerSum(n, cQueue, sQueue, opened)
HandleInv ==
    /\ \A h \in opened : h.handle \in sHandles
    /\ \A h \in opened, r \in reqs : h.handle # r.req
    /\ \A j \in Jobs(cQueue) \cup Jobs(sQueue) : Owned(j)
    /\ \A n \in Nat : Owners(n) <= 1

\* The client's counts.
PendingW(i) ==
    [j \in JobType |-> IF j.op = "ReleaseLeafRef" /\ j.leaf = i /\ j.x \in Nat THEN j.x ELSE 0]
RefInv ==
    /\ \A i \in DOMAIN cLeaf : cLeaf[i].refs = Lookups(i) + Sum(cQueue, PendingW(i))
    /\ fault # "clientRefs"

Inv == TypeInv /\ SoundInv /\ TreeInv /\ RequestInv /\ HandleInv /\ RefInv

LEMMA WeightTypes ==
    /\ \A n : LiveW(n) \in [JobType -> Nat]
    /\ \A n : ReleaseW(n) \in [JobType -> Nat]
    /\ \A i : PendingW(i) \in [JobType -> Nat]
  <1>1. \A n : LiveW(n) \in [JobType -> Nat]
      BY DEF LiveW
  <1>2. \A n : ReleaseW(n) \in [JobType -> Nat]
      BY DEF ReleaseW
  <1>3. \A i : PendingW(i) \in [JobType -> Nat]
      BY DEF PendingW
  <1> QED
      BY <1>1, <1>2, <1>3

LEMMA Weights ==
    ASSUME NEW j \in JobType, NEW n
    PROVE  /\ LiveW(n)[j] = IF Live(j) /\ j.req = n THEN 1 ELSE 0
           /\ ReleaseW(n)[j] = IF Releases(j) /\ j.x = n THEN 1 ELSE 0
           /\ PendingW(n)[j] = IF j.op = "ReleaseLeafRef" /\ j.leaf = n /\ j.x \in Nat THEN j.x ELSE 0
  BY DEF LiveW, ReleaseW, PendingW

\* Jobs that come to a set and leave it.
LEMMA SetAdded ==
    ASSUME NEW S, S \subseteq JobType, IsFiniteSet(S), NEW i \in JobType, NEW w \in [JobType -> Nat]
    PROVE  /\ Total([j \in S |-> w[j]]) \in Nat /\ Total([j \in S \cup {i} |-> w[j]]) \in Nat
           /\ Total([j \in S \cup {i} |-> w[j]]) <= Total([j \in S |-> w[j]]) + w[i]
           /\ i \notin S => Total([j \in S \cup {i} |-> w[j]]) = Total([j \in S |-> w[j]]) + w[i]
  <1>1. PICK f : f = [j \in S |-> w[j]]
      OBVIOUS
  <1>2. PICK g : g = [j \in S \cup {i} |-> w[j]]
      OBVIOUS
  <1>3. PICK T : T = S \cup {i}
      OBVIOUS
  <1>4. IsFiniteSet(T) /\ S \subseteq T /\ i \in T
      BY <1>3, FS_AddElement
  <1>5. f \in [S -> Nat] /\ g \in [T -> Nat] /\ \A k \in T : k # i => g[k] = IF k \in S THEN f[k] ELSE 0
      BY <1>1, <1>2, <1>3
  <1>6. /\ Total(f) \in Nat /\ Total(g) \in Nat
        /\ i \in S => Total(g) + f[i] = Total(f) + g[i]
        /\ i \notin S => Total(g) = Total(f) + g[i]
      BY <1>4, <1>5, TotalChange
  <1>7. g[i] = w[i] /\ w[i] \in Nat /\ (i \in S => f[i] = w[i])
      BY <1>1, <1>2
  <1>8. Total(g) <= Total(f) + w[i] /\ (i \notin S => Total(g) = Total(f) + w[i])
      BY <1>6, <1>7
  <1> QED
      BY <1>1, <1>2, <1>6, <1>8

LEMMA SetRemoved ==
    ASSUME NEW S, S \subseteq JobType, IsFiniteSet(S), NEW i \in S, NEW w \in [JobType -> Nat]
    PROVE  /\ Total([j \in S |-> w[j]]) \in Nat /\ Total([j \in S \ {i} |-> w[j]]) \in Nat
           /\ Total([j \in S |-> w[j]]) = Total([j \in S \ {i} |-> w[j]]) + w[i]
  <1>1. PICK f : f = [j \in S |-> w[j]]
      OBVIOUS
  <1>2. f \in [S -> Nat] /\ f[i] = w[i]
      BY <1>1
  <1>3. Total(f) \in Nat
      BY <1>2, UnitsFinite
  <1>4. [k \in S \ {i} |-> f[k]] = [j \in S \ {i} |-> w[j]]
      BY <1>1
  <1>5. /\ Total([k \in S \ {i} |-> f[k]]) \in Nat
        /\ Total(f) = Total([k \in S \ {i} |-> f[k]]) + f[i]
      BY <1>2, TotalSplit
  <1> QED
      BY <1>1, <1>2, <1>3, <1>4, <1>5

-----------------------------------------------------------------------------
(* What a step has to keep.                                                *)

\* Leaves and the names of the server's leaves stay.
Grows ==
    /\ DOMAIN cLeaf \subseteq DOMAIN cLeaf'
    /\ \A i \in DOMAIN sLeaf : i \in DOMAIN sLeaf' /\ sLeaf'[i].name = sLeaf[i].name

LEMMA SoundStays ==
    ASSUME Grows, NEW j, Sound(j)
    PROVE  Sound(j)'
  <1>1. ASSUME NEW e, Named(e) PROVE Named(e)'
      BY <1>1 DEF Named, Grows
  <1>2. j.op = "ReadDirPlusIn" => \A e \in j.x : Named(e)'
      BY <1>1 DEF Sound
  <1>3. j.op = "LookupIn" => j.x.leaf = None \/ Named(j.x)'
      BY <1>1 DEF Sound
  <1>4. j.op = "NotifyEntry" => j.x \in Notices /\ (j.x.type = "Created" => Named(j.x)')
      BY <1>1 DEF Sound
  <1>5. j.op = "ForgetMulti" => j.leaf \in DOMAIN sLeaf' /\ j.x \in Nat \ {0}
      BY DEF Sound, Grows
  <1>6. j.op = "ReleaseLeafRef" => j.leaf \in DOMAIN cLeaf' /\ j.x \in Nat \ {0}
      BY DEF Sound, Grows
  <1> QED
      BY <1>2, <1>3, <1>4, <1>5, <1>6, Zenon DEF Sound

LEMMA SoundFrame ==
    ASSUME SoundInv, Grows,
           \A j \in Jobs(cQueue') \cup Jobs(sQueue') :
               j \in Jobs(cQueue) \cup Jobs(sQueue) \/ Sound(j)'
    PROVE  SoundInv'
  <1>1. ASSUME NEW j \in Jobs(cQueue') \cup Jobs(sQueue') PROVE Sound(j)'
    <2>1. CASE j \in Jobs(cQueue) \cup Jobs(sQueue)
        BY <2>1, SoundStays DEF SoundInv
    <2> QED
        BY <2>1
  <1>2. Jobs(cQueue)' = Jobs(cQueue') /\ Jobs(sQueue)' = Jobs(sQueue')
      BY DEF Jobs
  <1> QED
      BY <1>1, <1>2, Zenon DEF SoundInv

LEMMA TreeFrame ==
    ASSUME TreeInv, OneOfAName(sLeaf'), Grows, cLeaf' = cLeaf, index' = index
    PROVE  TreeInv'
  <1>1. OneOfAName(cLeaf)' /\ OneOfAName(sLeaf)'
      BY DEF TreeInv, OneOfAName
  <1>2. Stands'
      BY DEF TreeInv, Stands, Grows
  <1>3. IndexAgrees'
      BY DEF TreeInv, IndexAgrees
  <1> QED
      BY <1>1, <1>2, <1>3 DEF TreeInv

LEMMA RequestFrame ==
    ASSUME RequestInv, reqs' = reqs, opened' = opened,
           \A j \in Jobs(cQueue') : j \in Jobs(cQueue) \/ ServedByClient(j),
           \A j \in Jobs(sQueue') \cup sReads' \cup Jobs(applying') :
               j \in Jobs(sQueue) \cup sReads \cup Jobs(applying) \/ Served(j),
           \A n \in Nat : LiveCount(n)' \in Nat /\ LiveCount(n) \in Nat /\ LiveCount(n)' <= LiveCount(n)
    PROVE  RequestInv'
  <1>1. \A j : (ServedByClient(j) => ServedByClient(j)') /\ (Served(j) => Served(j)')
    <2>1. ASSUME NEW j, NEW r PROVE Serves(j, r)' <=> Serves(j, r)
        BY DEF Serves
    <2> QED
        BY <2>1, Zenon DEF Served, ServedByClient
  <1>2. Jobs(cQueue)' = Jobs(cQueue') /\ Jobs(sQueue)' = Jobs(sQueue') /\ Jobs(applying)' = Jobs(applying')
      BY DEF Jobs
  <1>3. \A j \in Jobs(cQueue)' : ServedByClient(j)'
      BY <1>1, <1>2, Zenon DEF RequestInv
  <1>4. \A j \in (Jobs(sQueue) \cup sReads \cup Jobs(applying))' : Served(j)'
      BY <1>1, <1>2, Zenon DEF RequestInv
  <1>5. \A n \in Nat : LiveCount(n)' <= 1
    <2> SUFFICES ASSUME NEW n \in Nat PROVE LiveCount(n)' <= 1
        OBVIOUS
    <2>1. LiveCount(n) <= 1
        BY DEF RequestInv
    <2>2. LiveCount(n)' \in Nat /\ LiveCount(n) \in Nat /\ LiveCount(n)' <= LiveCount(n)
        OBVIOUS
    <2> QED
        BY <2>1, <2>2
  <1> QED
      BY <1>3, <1>4, <1>5, Zenon DEF RequestInv

LEMMA HandleFrame ==
    ASSUME HandleInv, reqs' \subseteq reqs, opened' = opened, 1..requests \subseteq 1..requests',
           sHandles \subseteq sHandles',
           \A j \in Jobs(cQueue') \cup Jobs(sQueue') :
               j \in Jobs(cQueue) \cup Jobs(sQueue) \/ Owned(j)',
           \A n \in Nat : Owners(n)' \in Nat /\ Owners(n) \in Nat /\ Owners(n)' <= Owners(n)
    PROVE  HandleInv'
  <1>1. ASSUME NEW j, Owned(j) PROVE Owned(j)'
      BY <1>1 DEF Owned
  <1>2. Jobs(cQueue)' = Jobs(cQueue') /\ Jobs(sQueue)' = Jobs(sQueue')
      BY DEF Jobs
  <1>3. \A j \in (Jobs(cQueue) \cup Jobs(sQueue))' : Owned(j)'
      BY <1>1, <1>2, Zenon DEF HandleInv
  <1>4. /\ \A h \in opened' : h.handle \in sHandles'
        /\ \A h \in opened', r \in reqs' : h.handle # r.req
      BY DEF HandleInv
  <1>5. \A n \in Nat : Owners(n)' <= 1
    <2> SUFFICES ASSUME NEW n \in Nat PROVE Owners(n)' <= 1
        OBVIOUS
    <2>1. Owners(n) <= 1
        BY DEF HandleInv
    <2>2. Owners(n)' \in Nat /\ Owners(n) \in Nat /\ Owners(n)' <= Owners(n)
        OBVIOUS
    <2> QED
        BY <2>1, <2>2
  <1> QED
      BY <1>3, <1>4, <1>5, Zenon DEF HandleInv

-----------------------------------------------------------------------------
(* How the counts change when a job comes to a queue or leaves it.         *)

\* The places where live jobs are.
Places(q, p, a, S) ==
    /\ q \in Seq(JobType) /\ p \in Seq(JobType) /\ a \in Seq(JobType)
    /\ S \subseteq JobType /\ IsFiniteSet(S)

LEMMA LiveParts ==
    ASSUME NEW q, NEW p, NEW a, NEW S, Places(q, p, a, S), NEW n
    PROVE  /\ LiveSum(n, q, p, a, S) \in Nat
           /\ Sum(q, LiveW(n)) \in Nat /\ Sum(p, LiveW(n)) \in Nat /\ Sum(a, LiveW(n)) \in Nat
           /\ Total([j \in S |-> LiveW(n)[j]]) \in Nat
  <1>1. PICK w \in [JobType -> Nat] : w = LiveW(n)
      BY WeightTypes
  <1>2. Sum(q, w) \in Nat /\ Sum(p, w) \in Nat /\ Sum(a, w) \in Nat
      BY SumTerms DEF Places
  <1>3. PICK f : f = [j \in S |-> w[j]]
      OBVIOUS
  <1>4. f \in [S -> Nat] /\ IsFiniteSet(S)
      BY <1>3 DEF Places
  <1>5. Total(f) \in Nat
      BY <1>4, UnitsFinite
  <1> QED
      BY <1>1, <1>2, <1>3, <1>5 DEF LiveSum

LEMMA LiveType ==
    ASSUME NEW q, NEW p, NEW a, NEW S, Places(q, p, a, S), NEW n
    PROVE  LiveSum(n, q, p, a, S) \in Nat
  BY LiveParts, Zenon

LEMMA LivePushed ==
    ASSUME NEW q, NEW p, NEW a, NEW S, Places(q, p, a, S), NEW j \in JobType, NEW n
    PROVE  /\ LiveSum(n, Append(q, j), p, a, S) = LiveSum(n, q, p, a, S) + LiveW(n)[j]
           /\ LiveSum(n, q, Append(p, j), a, S) = LiveSum(n, q, p, a, S) + LiveW(n)[j]
           /\ LiveSum(n, q, p, Append(a, j), S) = LiveSum(n, q, p, a, S) + LiveW(n)[j]
           /\ LiveW(n)[j] \in {0, 1}
  <1>1. PICK w \in [JobType -> Nat] : w = LiveW(n)
      BY WeightTypes
  <1>2. q \in Seq(JobType) /\ p \in Seq(JobType) /\ a \in Seq(JobType)
      BY DEF Places
  <1>3. /\ Sum(Append(q, j), w) = Sum(q, w) + w[j] /\ Sum(Append(p, j), w) = Sum(p, w) + w[j]
        /\ Sum(Append(a, j), w) = Sum(a, w) + w[j]
      BY <1>2, SumAppend
  <1>4. PICK t : t = Total([i \in S |-> w[i]])
      OBVIOUS
  <1>5. t \in Nat
      BY <1>1, <1>4, LiveParts
  <1>6. w[j] \in Nat /\ w[j] \in {0, 1}
      BY <1>1, Weights
  <1>7. Sum(q, w) \in Nat /\ Sum(p, w) \in Nat /\ Sum(a, w) \in Nat
      BY <1>1, LiveParts
  <1>8. \A x, y, z : LiveSum(n, x, y, z, S) = Sum(x, w) + Sum(y, w) + Sum(z, w) + t
      BY <1>1, <1>4 DEF LiveSum
  <1>10. LiveSum(n, Append(q, j), p, a, S) = LiveSum(n, q, p, a, S) + w[j]
      BY <1>3, <1>5, <1>6, <1>7, <1>8
  <1>11. LiveSum(n, q, Append(p, j), a, S) = LiveSum(n, q, p, a, S) + w[j]
      BY <1>3, <1>5, <1>6, <1>7, <1>8
  <1>12. LiveSum(n, q, p, Append(a, j), S) = LiveSum(n, q, p, a, S) + w[j]
      BY <1>3, <1>5, <1>6, <1>7, <1>8
  <1> QED
      BY <1>1, <1>6, <1>10, <1>11, <1>12

LEMMA LiveHandedOver ==
    ASSUME NEW q, NEW p, NEW a, NEW S, Places(q, p, a, S), NEW j \in JobType, NEW n
    PROVE  /\ Places(q, p, a, S \cup {j})
           /\ LiveSum(n, q, p, a, S \cup {j}) <= LiveSum(n, q, p, a, S) + LiveW(n)[j]
  <1>1. PICK w \in [JobType -> Nat] : w = LiveW(n)
      BY WeightTypes
  <1>2. PICK t, u : t = Total([i \in S |-> w[i]]) /\ u = Total([i \in S \cup {j} |-> w[i]])
      OBVIOUS
  <1>3. t \in Nat /\ u \in Nat /\ u <= t + w[j]
      BY <1>2, SetAdded DEF Places
  <1>4. w[j] \in Nat
      OBVIOUS
  <1>5. Sum(q, w) \in Nat /\ Sum(p, w) \in Nat /\ Sum(a, w) \in Nat
      BY <1>1, LiveParts
  <1>6. /\ LiveSum(n, q, p, a, S) = Sum(q, w) + Sum(p, w) + Sum(a, w) + t
        /\ LiveSum(n, q, p, a, S \cup {j}) = Sum(q, w) + Sum(p, w) + Sum(a, w) + u
      BY <1>1, <1>2 DEF LiveSum
  <1>7. LiveSum(n, q, p, a, S \cup {j}) <= LiveSum(n, q, p, a, S) + w[j]
      BY <1>3, <1>4, <1>5, <1>6
  <1>8. IsFiniteSet(S \cup {j}) /\ S \cup {j} \subseteq JobType
      BY FS_AddElement DEF Places
  <1> QED
      BY <1>1, <1>7, <1>8 DEF Places

LEMMA LiveTakenFromClient ==
    ASSUME NEW q, NEW p, NEW a, NEW S, NEW n, Places(q, p, a, S), q # <<>>
    PROVE  /\ Places(Tail(q), p, a, S)
           /\ LiveSum(n, q, p, a, S) = LiveSum(n, Tail(q), p, a, S) + LiveW(n)[Head(q)]
  <1>1. PICK w \in [JobType -> Nat] : w = LiveW(n)
      BY WeightTypes
  <1>2. PICK t : t = Total([i \in S |-> w[i]])
      OBVIOUS
  <1>3. t \in Nat /\ Sum(q, w) \in Nat /\ Sum(p, w) \in Nat /\ Sum(a, w) \in Nat
      BY <1>1, <1>2, LiveParts
  <1>4. \A x, y, z : LiveSum(n, x, y, z, S) = Sum(x, w) + Sum(y, w) + Sum(z, w) + t
      BY <1>1, <1>2 DEF LiveSum
  <1>5. q \in Seq(JobType) /\ Tail(q) \in Seq(JobType) /\ Head(q) \in JobType
      BY QueueTail DEF Places
  <1>6. Sum(q, w) = Sum(Tail(q), w) + w[Head(q)] /\ Sum(Tail(q), w) \in Nat /\ w[Head(q)] \in Nat
      BY <1>5, SumTail, SumTerms
  <1>7. LiveSum(n, q, p, a, S) = LiveSum(n, Tail(q), p, a, S) + w[Head(q)]
      BY <1>3, <1>4, <1>6
  <1> QED
      BY <1>1, <1>5, <1>7 DEF Places

LEMMA LiveTakenFromServer ==
    ASSUME NEW q, NEW p, NEW a, NEW S, NEW n, Places(q, p, a, S), p # <<>>
    PROVE  /\ Places(q, Tail(p), a, S)
           /\ LiveSum(n, q, p, a, S) = LiveSum(n, q, Tail(p), a, S) + LiveW(n)[Head(p)]
  <1>1. PICK w \in [JobType -> Nat] : w = LiveW(n)
      BY WeightTypes
  <1>2. PICK t : t = Total([i \in S |-> w[i]])
      OBVIOUS
  <1>3. t \in Nat /\ Sum(q, w) \in Nat /\ Sum(p, w) \in Nat /\ Sum(a, w) \in Nat
      BY <1>1, <1>2, LiveParts
  <1>4. \A x, y, z : LiveSum(n, x, y, z, S) = Sum(x, w) + Sum(y, w) + Sum(z, w) + t
      BY <1>1, <1>2 DEF LiveSum
  <1>5. p \in Seq(JobType) /\ Tail(p) \in Seq(JobType) /\ Head(p) \in JobType
      BY QueueTail DEF Places
  <1>6. Sum(p, w) = Sum(Tail(p), w) + w[Head(p)] /\ Sum(Tail(p), w) \in Nat /\ w[Head(p)] \in Nat
      BY <1>5, SumTail, SumTerms
  <1>7. LiveSum(n, q, p, a, S) = LiveSum(n, q, Tail(p), a, S) + w[Head(p)]
      BY <1>3, <1>4, <1>6
  <1> QED
      BY <1>1, <1>5, <1>7 DEF Places

LEMMA LiveTakenFromApplying ==
    ASSUME NEW q, NEW p, NEW a, NEW S, NEW n, Places(q, p, a, S), a # <<>>
    PROVE  /\ Places(q, p, Tail(a), S)
           /\ LiveSum(n, q, p, a, S) = LiveSum(n, q, p, Tail(a), S) + LiveW(n)[Head(a)]
  <1>1. PICK w \in [JobType -> Nat] : w = LiveW(n)
      BY WeightTypes
  <1>2. PICK t : t = Total([i \in S |-> w[i]])
      OBVIOUS
  <1>3. t \in Nat /\ Sum(q, w) \in Nat /\ Sum(p, w) \in Nat /\ Sum(a, w) \in Nat
      BY <1>1, <1>2, LiveParts
  <1>4. \A x, y, z : LiveSum(n, x, y, z, S) = Sum(x, w) + Sum(y, w) + Sum(z, w) + t
      BY <1>1, <1>2 DEF LiveSum
  <1>5. a \in Seq(JobType) /\ Tail(a) \in Seq(JobType) /\ Head(a) \in JobType
      BY QueueTail DEF Places
  <1>6. Sum(a, w) = Sum(Tail(a), w) + w[Head(a)] /\ Sum(Tail(a), w) \in Nat /\ w[Head(a)] \in Nat
      BY <1>5, SumTail, SumTerms
  <1>7. LiveSum(n, q, p, a, S) = LiveSum(n, q, p, Tail(a), S) + w[Head(a)]
      BY <1>3, <1>4, <1>6
  <1> QED
      BY <1>1, <1>5, <1>7 DEF Places

Without(S, j, T) == j \in S /\ T = S \ {j}
LEMMA LiveReturned ==
    ASSUME NEW q, NEW p, NEW a, NEW S, Places(q, p, a, S), NEW j, NEW T, Without(S, j, T), NEW n
    PROVE  /\ Places(q, p, a, T)
           /\ LiveSum(n, q, p, a, S) = LiveSum(n, q, p, a, T) + LiveW(n)[j]
  <1>0. j \in S /\ T = S \ {j}
      BY DEF Without
  <1>1. PICK w \in [JobType -> Nat] : w = LiveW(n)
      BY WeightTypes
  <1>2. PICK t, u : t = Total([i \in S |-> w[i]]) /\ u = Total([i \in S \ {j} |-> w[i]])
      OBVIOUS
  <1>3. t \in Nat /\ u \in Nat /\ t = u + w[j]
      BY <1>0, <1>2, SetRemoved DEF Places
  <1>4. w[j] \in Nat
      BY <1>0 DEF Places
  <1>5. Sum(q, w) \in Nat /\ Sum(p, w) \in Nat /\ Sum(a, w) \in Nat
      BY <1>1, LiveParts
  <1>6. /\ LiveSum(n, q, p, a, S) = Sum(q, w) + Sum(p, w) + Sum(a, w) + t
        /\ LiveSum(n, q, p, a, T) = Sum(q, w) + Sum(p, w) + Sum(a, w) + u
      BY <1>0, <1>1, <1>2 DEF LiveSum
  <1>7. LiveSum(n, q, p, a, S) = LiveSum(n, q, p, a, T) + w[j]
      BY <1>3, <1>4, <1>5, <1>6
  <1>8. IsFiniteSet(T) /\ T \subseteq JobType
      BY <1>0, FS_RemoveElement DEF Places
  <1> QED
      BY <1>1, <1>7, <1>8 DEF Places

\* The places where the owners of handles are.
Homes(q, p, O) == q \in Seq(JobType) /\ p \in Seq(JobType) /\ IsFiniteSet(O)

LEMMA OwnerParts ==
    ASSUME NEW q, NEW p, NEW O, Homes(q, p, O), NEW n
    PROVE  /\ OwnerSum(n, q, p, O) \in Nat
           /\ Sum(q, ReleaseW(n)) \in Nat /\ Sum(p, ReleaseW(n)) \in Nat
           /\ IsFiniteSet({h \in O : h.handle = n}) /\ Cardinality({h \in O : h.handle = n}) \in Nat
  <1>1. PICK w \in [JobType -> Nat] : w = ReleaseW(n)
      BY WeightTypes
  <1>2. Sum(q, w) \in Nat /\ Sum(p, w) \in Nat
      BY SumTerms DEF Homes
  <1>3. IsFiniteSet({h \in O : h.handle = n})
      BY FS_Subset DEF Homes
  <1>4. Cardinality({h \in O : h.handle = n}) \in Nat
      BY <1>3, FS_CardinalityType
  <1> QED
      BY <1>1, <1>2, <1>3, <1>4 DEF OwnerSum

LEMMA OwnerType ==
    ASSUME NEW q, NEW p, NEW O, Homes(q, p, O), NEW n
    PROVE  OwnerSum(n, q, p, O) \in Nat
  BY OwnerParts, Zenon

LEMMA OwnerPushed ==
    ASSUME NEW q, NEW p, NEW O, Homes(q, p, O), NEW n,
           NEW j \in JobType
    PROVE  /\ OwnerSum(n, Append(q, j), p, O) = OwnerSum(n, q, p, O) + ReleaseW(n)[j]
           /\ OwnerSum(n, q, Append(p, j), O) = OwnerSum(n, q, p, O) + ReleaseW(n)[j]
           /\ ReleaseW(n)[j] \in {0, 1}
  <1>1. PICK w \in [JobType -> Nat] : w = ReleaseW(n)
      BY WeightTypes
  <1>2. Sum(Append(q, j), w) = Sum(q, w) + w[j] /\ Sum(Append(p, j), w) = Sum(p, w) + w[j]
      BY SumAppend DEF Homes
  <1>3. PICK t : t = Cardinality({h \in O : h.handle = n})
      OBVIOUS
  <1>4. t \in Nat /\ Sum(q, w) \in Nat /\ Sum(p, w) \in Nat
      BY <1>1, <1>3, OwnerParts
  <1>5. w[j] \in Nat /\ w[j] \in {0, 1}
      BY <1>1, Weights
  <1>6. \A x, y : OwnerSum(n, x, y, O) = Sum(x, w) + Sum(y, w) + t
      BY <1>1, <1>3 DEF OwnerSum
  <1>7. OwnerSum(n, Append(q, j), p, O) = OwnerSum(n, q, p, O) + w[j]
      BY <1>2, <1>4, <1>5, <1>6
  <1>8. OwnerSum(n, q, Append(p, j), O) = OwnerSum(n, q, p, O) + w[j]
      BY <1>2, <1>4, <1>5, <1>6
  <1> QED
      BY <1>1, <1>5, <1>7, <1>8

LEMMA OwnerTaken ==
    ASSUME NEW q, NEW p, NEW O, Homes(q, p, O), NEW n
    PROVE  /\ q # <<>> => OwnerSum(n, q, p, O) = OwnerSum(n, Tail(q), p, O) + ReleaseW(n)[Head(q)]
           /\ p # <<>> => OwnerSum(n, q, p, O) = OwnerSum(n, q, Tail(p), O) + ReleaseW(n)[Head(p)]
  <1>1. PICK w \in [JobType -> Nat] : w = ReleaseW(n)
      BY WeightTypes
  <1>2. PICK t : t = Cardinality({h \in O : h.handle = n})
      OBVIOUS
  <1>3. t \in Nat /\ Sum(q, w) \in Nat /\ Sum(p, w) \in Nat
      BY <1>1, <1>2, OwnerParts
  <1>4. \A x, y : OwnerSum(n, x, y, O) = Sum(x, w) + Sum(y, w) + t
      BY <1>1, <1>2 DEF OwnerSum
  <1>5. ASSUME NEW x \in Seq(JobType), x # <<>>
        PROVE  /\ Sum(Tail(x), w) \in Nat /\ w[Head(x)] \in Nat
               /\ Sum(x, w) = Sum(Tail(x), w) + w[Head(x)]
    <2>1. Tail(x) \in Seq(JobType) /\ Head(x) \in JobType
        BY <1>5, QueueTail
    <2> QED
        BY <1>5, <2>1, SumTail, SumTerms
  <1>6. ASSUME q # <<>> PROVE OwnerSum(n, q, p, O) = OwnerSum(n, Tail(q), p, O) + w[Head(q)]
      BY <1>3, <1>4, <1>5, <1>6 DEF Homes
  <1>7. ASSUME p # <<>> PROVE OwnerSum(n, q, p, O) = OwnerSum(n, q, Tail(p), O) + w[Head(p)]
      BY <1>3, <1>4, <1>5, <1>7 DEF Homes
  <1> QED
      BY <1>1, <1>6, <1>7

-----------------------------------------------------------------------------
(* The ways in which a step changes the queues.                            *)

LEMMA QueuesArePlaces == QueueType <=> Places(cQueue, sQueue, applying, sReads)
  BY DEF QueueType, Places

\* What the kernel and the FUSE threads schedule.
LEMMA Scheduled ==
    ASSUME QueueType, NEW j \in JobType, cQueue' = Append(cQueue, j), sQueue' = sQueue,
           applying' = applying, sReads' = sReads
    PROVE  /\ QueueType' /\ Jobs(cQueue') = Jobs(cQueue) \cup {j} /\ Jobs(sQueue') = Jobs(sQueue)
           /\ \A n : /\ LiveCount(n) \in Nat /\ LiveCount(n)' \in Nat
                     /\ LiveCount(n)' = LiveCount(n) + LiveW(n)[j]
           /\ \A n, O : IsFiniteSet(O) =>
                 /\ OwnerSum(n, cQueue, sQueue, O) \in Nat /\ OwnerSum(n, cQueue', sQueue', O) \in Nat
                 /\ OwnerSum(n, cQueue', sQueue', O) = OwnerSum(n, cQueue, sQueue, O) + ReleaseW(n)[j]
           /\ \A i : Sum(cQueue', PendingW(i)) = Sum(cQueue, PendingW(i)) + PendingW(i)[j]
  <1>1. Places(cQueue, sQueue, applying, sReads) /\ cQueue \in Seq(JobType) /\ sQueue \in Seq(JobType)
      BY DEF QueueType, Places
  <1>2. cQueue' \in Seq(JobType) /\ Jobs(cQueue') = Jobs(cQueue) \cup {j}
      BY <1>1, QueueAppend
  <1>3. Places(cQueue', sQueue', applying', sReads')
      BY <1>1, <1>2 DEF Places
  <1>4. QueueType'
      BY <1>3 DEF QueueType, Places
  <1>5. ASSUME NEW n
        PROVE  /\ LiveCount(n) \in Nat /\ LiveCount(n)' \in Nat
               /\ LiveCount(n)' = LiveCount(n) + LiveW(n)[j]
      BY <1>1, <1>3, LiveType, LivePushed DEF LiveCount
  <1>6. ASSUME NEW n, NEW O, IsFiniteSet(O)
        PROVE  /\ OwnerSum(n, cQueue, sQueue, O) \in Nat /\ OwnerSum(n, cQueue', sQueue', O) \in Nat
               /\ OwnerSum(n, cQueue', sQueue', O) = OwnerSum(n, cQueue, sQueue, O) + ReleaseW(n)[j]
    <2>1. Homes(cQueue, sQueue, O) /\ Homes(cQueue', sQueue', O)
        BY <1>1, <1>2, <1>6 DEF Homes
    <2> QED
        BY <2>1, OwnerType, OwnerPushed
  <1>7. ASSUME NEW i PROVE Sum(cQueue', PendingW(i)) = Sum(cQueue, PendingW(i)) + PendingW(i)[j]
      BY <1>1, WeightTypes, SumAppend
  <1> QED
      BY <1>2, <1>4, <1>5, <1>6, <1>7

\* A job that the client's main queue sends on.
LEMMA SentOn ==
    ASSUME QueueType, cQueue # <<>>, NEW j \in JobType, cQueue' = Tail(cQueue),
           sQueue' = Append(sQueue, j), applying' = applying, sReads' = sReads
    PROVE  /\ QueueType' /\ Jobs(cQueue') \subseteq Jobs(cQueue) /\ Jobs(sQueue') = Jobs(sQueue) \cup {j}
           /\ Head(cQueue) \in JobType /\ Head(cQueue) \in Jobs(cQueue)
           /\ \A n : /\ LiveCount(n) \in Nat /\ LiveCount(n)' \in Nat
                     /\ LiveCount(n)' + LiveW(n)[Head(cQueue)] = LiveCount(n) + LiveW(n)[j]
           /\ \A n, O : IsFiniteSet(O) =>
                 /\ OwnerSum(n, cQueue, sQueue, O) \in Nat /\ OwnerSum(n, cQueue', sQueue', O) \in Nat
                 /\ OwnerSum(n, cQueue', sQueue', O) + ReleaseW(n)[Head(cQueue)]
                        = OwnerSum(n, cQueue, sQueue, O) + ReleaseW(n)[j]
           /\ \A i : Sum(cQueue, PendingW(i)) = Sum(cQueue', PendingW(i)) + PendingW(i)[Head(cQueue)]
  <1>1. Places(cQueue, sQueue, applying, sReads) /\ cQueue \in Seq(JobType) /\ sQueue \in Seq(JobType)
      BY DEF QueueType, Places
  <1>2. /\ cQueue' \in Seq(JobType) /\ Jobs(cQueue') \subseteq Jobs(cQueue)
        /\ Head(cQueue) \in JobType /\ Head(cQueue) \in Jobs(cQueue)
      BY <1>1, QueueTail
  <1>3. sQueue' \in Seq(JobType) /\ Jobs(sQueue') = Jobs(sQueue) \cup {j}
      BY <1>1, QueueAppend
  <1>4. Places(cQueue', sQueue', applying', sReads') /\ Places(cQueue', sQueue, applying, sReads)
      BY <1>1, <1>2, <1>3 DEF Places
  <1>5. QueueType'
      BY <1>4 DEF QueueType, Places
  <1>6. ASSUME NEW n
        PROVE  /\ LiveCount(n) \in Nat /\ LiveCount(n)' \in Nat
               /\ LiveCount(n)' + LiveW(n)[Head(cQueue)] = LiveCount(n) + LiveW(n)[j]
    <2>1. PICK m : m = LiveSum(n, cQueue', sQueue, applying, sReads)
        OBVIOUS
    <2>2. m \in Nat /\ LiveCount(n) \in Nat /\ LiveCount(n)' \in Nat
        BY <1>1, <1>4, <2>1, LiveType DEF LiveCount
    <2>3. LiveCount(n)' = m + LiveW(n)[j] /\ LiveW(n)[j] \in {0, 1}
        BY <1>4, <2>1, LivePushed DEF LiveCount
    <2>4. LiveCount(n) = m + LiveW(n)[Head(cQueue)]
        BY <1>1, <2>1, LiveTakenFromClient DEF LiveCount
    <2>5. LiveW(n)[Head(cQueue)] \in {0, 1}
        BY <1>2, Weights
    <2> QED
        BY <2>2, <2>3, <2>4, <2>5
  <1>7. ASSUME NEW n, NEW O, IsFiniteSet(O)
        PROVE  /\ OwnerSum(n, cQueue, sQueue, O) \in Nat /\ OwnerSum(n, cQueue', sQueue', O) \in Nat
               /\ OwnerSum(n, cQueue', sQueue', O) + ReleaseW(n)[Head(cQueue)]
                      = OwnerSum(n, cQueue, sQueue, O) + ReleaseW(n)[j]
    <2>0. Homes(cQueue, sQueue, O) /\ Homes(cQueue', sQueue', O) /\ Homes(cQueue', sQueue, O)
        BY <1>1, <1>2, <1>3, <1>7 DEF Homes
    <2>1. PICK m : m = OwnerSum(n, cQueue', sQueue, O)
        OBVIOUS
    <2>2. m \in Nat /\ OwnerSum(n, cQueue, sQueue, O) \in Nat /\ OwnerSum(n, cQueue', sQueue', O) \in Nat
        BY <2>0, <2>1, OwnerType
    <2>3. OwnerSum(n, cQueue', sQueue', O) = m + ReleaseW(n)[j] /\ ReleaseW(n)[j] \in {0, 1}
        BY <2>0, <2>1, OwnerPushed
    <2>4. OwnerSum(n, cQueue, sQueue, O) = m + ReleaseW(n)[Head(cQueue)]
        BY <2>0, <2>1, OwnerTaken
    <2>5. ReleaseW(n)[Head(cQueue)] \in {0, 1}
        BY <1>2, Weights
    <2> QED
        BY <2>2, <2>3, <2>4, <2>5
  <1>8. ASSUME NEW i
        PROVE  Sum(cQueue, PendingW(i)) = Sum(cQueue', PendingW(i)) + PendingW(i)[Head(cQueue)]
      BY <1>1, WeightTypes, SumTail
  <1> QED
      BY <1>2, <1>3, <1>5, <1>6, <1>7, <1>8

\* A job that the server's main queue answers.
LEMMA AnsweredWith ==
    ASSUME QueueType, sQueue # <<>>, NEW j \in JobType, sQueue' = Tail(sQueue),
           cQueue' = Append(cQueue, j), applying' = applying, sReads' = sReads
    PROVE  /\ QueueType' /\ Jobs(sQueue') \subseteq Jobs(sQueue) /\ Jobs(cQueue') = Jobs(cQueue) \cup {j}
           /\ Head(sQueue) \in JobType /\ Head(sQueue) \in Jobs(sQueue)
           /\ \A n : /\ LiveCount(n) \in Nat /\ LiveCount(n)' \in Nat
                     /\ LiveCount(n)' + LiveW(n)[Head(sQueue)] = LiveCount(n) + LiveW(n)[j]
           /\ \A n, O : IsFiniteSet(O) =>
                 /\ OwnerSum(n, cQueue, sQueue, O) \in Nat /\ OwnerSum(n, cQueue', sQueue', O) \in Nat
                 /\ OwnerSum(n, cQueue', sQueue', O) + ReleaseW(n)[Head(sQueue)]
                        = OwnerSum(n, cQueue, sQueue, O) + ReleaseW(n)[j]
           /\ \A i : Sum(cQueue', PendingW(i)) = Sum(cQueue, PendingW(i)) + PendingW(i)[j]
  <1>1. Places(cQueue, sQueue, applying, sReads) /\ cQueue \in Seq(JobType) /\ sQueue \in Seq(JobType)
      BY DEF QueueType, Places
  <1>2. /\ sQueue' \in Seq(JobType) /\ Jobs(sQueue') \subseteq Jobs(sQueue)
        /\ Head(sQueue) \in JobType /\ Head(sQueue) \in Jobs(sQueue)
      BY <1>1, QueueTail
  <1>3. cQueue' \in Seq(JobType) /\ Jobs(cQueue') = Jobs(cQueue) \cup {j}
      BY <1>1, QueueAppend
  <1>4. Places(cQueue', sQueue', applying', sReads') /\ Places(cQueue, sQueue', applying, sReads)
      BY <1>1, <1>2, <1>3 DEF Places
  <1>5. QueueType'
      BY <1>4 DEF QueueType, Places
  <1>6. ASSUME NEW n
        PROVE  /\ LiveCount(n) \in Nat /\ LiveCount(n)' \in Nat
               /\ LiveCount(n)' + LiveW(n)[Head(sQueue)] = LiveCount(n) + LiveW(n)[j]
    <2>1. PICK m : m = LiveSum(n, cQueue, sQueue', applying, sReads)
        OBVIOUS
    <2>2. m \in Nat /\ LiveCount(n) \in Nat /\ LiveCount(n)' \in Nat
        BY <1>1, <1>4, <2>1, LiveType DEF LiveCount
    <2>3. LiveCount(n)' = m + LiveW(n)[j] /\ LiveW(n)[j] \in {0, 1}
        BY <1>4, <2>1, LivePushed DEF LiveCount
    <2>4. LiveCount(n) = m + LiveW(n)[Head(sQueue)]
        BY <1>1, <2>1, LiveTakenFromServer DEF LiveCount
    <2>5. LiveW(n)[Head(sQueue)] \in {0, 1}
        BY <1>2, Weights
    <2> QED
        BY <2>2, <2>3, <2>4, <2>5
  <1>7. ASSUME NEW n, NEW O, IsFiniteSet(O)
        PROVE  /\ OwnerSum(n, cQueue, sQueue, O) \in Nat /\ OwnerSum(n, cQueue', sQueue', O) \in Nat
               /\ OwnerSum(n, cQueue', sQueue', O) + ReleaseW(n)[Head(sQueue)]
                      = OwnerSum(n, cQueue, sQueue, O) + ReleaseW(n)[j]
    <2>0. Homes(cQueue, sQueue, O) /\ Homes(cQueue', sQueue', O) /\ Homes(cQueue, sQueue', O)
        BY <1>1, <1>2, <1>3, <1>7 DEF Homes
    <2>1. PICK m : m = OwnerSum(n, cQueue, sQueue', O)
        OBVIOUS
    <2>2. m \in Nat /\ OwnerSum(n, cQueue, sQueue, O) \in Nat /\ OwnerSum(n, cQueue', sQueue', O) \in Nat
        BY <2>0, <2>1, OwnerType
    <2>3. OwnerSum(n, cQueue', sQueue', O) = m + ReleaseW(n)[j] /\ ReleaseW(n)[j] \in {0, 1}
        BY <2>0, <2>1, OwnerPushed
    <2>4. OwnerSum(n, cQueue, sQueue, O) = m + ReleaseW(n)[Head(sQueue)]
        BY <2>0, <2>1, OwnerTaken
    <2>5. ReleaseW(n)[Head(sQueue)] \in {0, 1}
        BY <1>2, Weights
    <2> QED
        BY <2>2, <2>3, <2>4, <2>5
  <1>8. ASSUME NEW i PROVE Sum(cQueue', PendingW(i)) = Sum(cQueue, PendingW(i)) + PendingW(i)[j]
      BY <1>1, WeightTypes, SumAppend
  <1> QED
      BY <1>2, <1>3, <1>5, <1>6, <1>7, <1>8

\* A job that the client's main queue runs.
LEMMA Ran ==
    ASSUME QueueType, cQueue # <<>>, cQueue' = Tail(cQueue), sQueue' = sQueue,
           applying' = applying, sReads' = sReads
    PROVE  /\ QueueType' /\ Jobs(cQueue') \subseteq Jobs(cQueue) /\ Jobs(sQueue') = Jobs(sQueue)
           /\ Head(cQueue) \in JobType /\ Head(cQueue) \in Jobs(cQueue)
           /\ \A n : /\ LiveCount(n) \in Nat /\ LiveCount(n)' \in Nat
                     /\ LiveCount(n) = LiveCount(n)' + LiveW(n)[Head(cQueue)]
           /\ \A n, O : IsFiniteSet(O) =>
                 /\ OwnerSum(n, cQueue, sQueue, O) \in Nat /\ OwnerSum(n, cQueue', sQueue', O) \in Nat
                 /\ OwnerSum(n, cQueue, sQueue, O)
                        = OwnerSum(n, cQueue', sQueue', O) + ReleaseW(n)[Head(cQueue)]
           /\ \A i : Sum(cQueue, PendingW(i)) = Sum(cQueue', PendingW(i)) + PendingW(i)[Head(cQueue)]
  <1>1. Places(cQueue, sQueue, applying, sReads) /\ cQueue \in Seq(JobType) /\ sQueue \in Seq(JobType)
      BY DEF QueueType, Places
  <1>2. /\ cQueue' \in Seq(JobType) /\ Jobs(cQueue') \subseteq Jobs(cQueue)
        /\ Head(cQueue) \in JobType /\ Head(cQueue) \in Jobs(cQueue)
      BY <1>1, QueueTail
  <1>3. Places(cQueue', sQueue', applying', sReads')
      BY <1>1, <1>2 DEF Places
  <1>4. QueueType'
      BY <1>3 DEF QueueType, Places
  <1>5. ASSUME NEW n
        PROVE  /\ LiveCount(n) \in Nat /\ LiveCount(n)' \in Nat
               /\ LiveCount(n) = LiveCount(n)' + LiveW(n)[Head(cQueue)]
      BY <1>1, <1>3, LiveType, LiveTakenFromClient DEF LiveCount
  <1>6. ASSUME NEW n, NEW O, IsFiniteSet(O)
        PROVE  /\ OwnerSum(n, cQueue, sQueue, O) \in Nat /\ OwnerSum(n, cQueue', sQueue', O) \in Nat
               /\ OwnerSum(n, cQueue, sQueue, O)
                      = OwnerSum(n, cQueue', sQueue', O) + ReleaseW(n)[Head(cQueue)]
    <2>1. Homes(cQueue, sQueue, O) /\ Homes(cQueue', sQueue', O)
        BY <1>1, <1>2, <1>6 DEF Homes
    <2> QED
        BY <2>1, OwnerType, OwnerTaken
  <1>7. ASSUME NEW i
        PROVE  Sum(cQueue, PendingW(i)) = Sum(cQueue', PendingW(i)) + PendingW(i)[Head(cQueue)]
      BY <1>1, WeightTypes, SumTail
  <1> QED
      BY <1>2, <1>4, <1>5, <1>6, <1>7

\* What comes to an end of a queue without serving a request or owning a handle.
Idle(j) == ~Live(j) /\ ~Releases(j)
LEMMA IdleWeights ==
    ASSUME NEW j \in JobType, Idle(j), NEW n
    PROVE  LiveW(n)[j] = 0 /\ ReleaseW(n)[j] = 0
  BY Weights DEF Idle

\* A notification that the server schedules.
LEMMA Notified ==
    ASSUME QueueType, NEW j \in JobType, Idle(j), sQueue' = Append(sQueue, j), cQueue' = cQueue,
           applying' = applying, sReads' = sReads
    PROVE  /\ QueueType' /\ Jobs(sQueue') = Jobs(sQueue) \cup {j} /\ Jobs(cQueue') = Jobs(cQueue)
           /\ \A n : LiveCount(n) \in Nat /\ LiveCount(n)' = LiveCount(n)
           /\ \A n, O : IsFiniteSet(O) =>
                 /\ OwnerSum(n, cQueue, sQueue, O) \in Nat
                 /\ OwnerSum(n, cQueue', sQueue', O) = OwnerSum(n, cQueue, sQueue, O)
  <1>1. Places(cQueue, sQueue, applying, sReads) /\ cQueue \in Seq(JobType) /\ sQueue \in Seq(JobType)
      BY DEF QueueType, Places
  <1>2. sQueue' \in Seq(JobType) /\ Jobs(sQueue') = Jobs(sQueue) \cup {j}
      BY <1>1, QueueAppend
  <1>3. Places(cQueue', sQueue', applying', sReads')
      BY <1>1, <1>2 DEF Places
  <1>4. QueueType'
      BY <1>3 DEF QueueType, Places
  <1>5. ASSUME NEW n PROVE LiveCount(n) \in Nat /\ LiveCount(n)' = LiveCount(n)
    <2>1. LiveW(n)[j] = 0
        BY IdleWeights
    <2>2. LiveCount(n) \in Nat
        BY <1>1, LiveType DEF LiveCount
    <2>3. LiveCount(n)' = LiveCount(n) + LiveW(n)[j]
        BY <1>1, LivePushed DEF LiveCount
    <2> QED
        BY <2>1, <2>2, <2>3
  <1>6. ASSUME NEW n, NEW O, IsFiniteSet(O)
        PROVE  /\ OwnerSum(n, cQueue, sQueue, O) \in Nat
               /\ OwnerSum(n, cQueue', sQueue', O) = OwnerSum(n, cQueue, sQueue, O)
    <2>1. Homes(cQueue, sQueue, O)
        BY <1>1, <1>6 DEF Homes
    <2>2. ReleaseW(n)[j] = 0
        BY IdleWeights
    <2>3. /\ OwnerSum(n, cQueue, sQueue, O) \in Nat
          /\ OwnerSum(n, cQueue', sQueue', O) = OwnerSum(n, cQueue, sQueue, O) + ReleaseW(n)[j]
        BY <2>1, OwnerType, OwnerPushed
    <2> QED
        BY <2>2, <2>3
  <1> QED
      BY <1>2, <1>4, <1>5, <1>6

\* The two jobs of a forget.
LEMMA ScheduledTwo ==
    ASSUME QueueType, NEW j \in JobType, NEW k \in JobType, Idle(j), Idle(k),
           cQueue' = cQueue \o <<j, k>>, sQueue' = sQueue, applying' = applying, sReads' = sReads
    PROVE  /\ QueueType' /\ Jobs(cQueue') = Jobs(cQueue) \cup {j, k} /\ Jobs(sQueue') = Jobs(sQueue)
           /\ \A n : LiveCount(n) \in Nat /\ LiveCount(n)' = LiveCount(n)
           /\ \A n, O : IsFiniteSet(O) =>
                 /\ OwnerSum(n, cQueue, sQueue, O) \in Nat
                 /\ OwnerSum(n, cQueue', sQueue', O) = OwnerSum(n, cQueue, sQueue, O)
           /\ \A i : Sum(cQueue', PendingW(i)) = (Sum(cQueue, PendingW(i)) + PendingW(i)[j]) + PendingW(i)[k]
  <1>1. Places(cQueue, sQueue, applying, sReads) /\ cQueue \in Seq(JobType) /\ sQueue \in Seq(JobType)
      BY DEF QueueType, Places
  <1>2. PICK q : q = Append(cQueue, j)
      OBVIOUS
  <1>3. q \in Seq(JobType) /\ Jobs(q) = Jobs(cQueue) \cup {j}
      BY <1>1, <1>2, QueueAppend
  <1>4. cQueue' = Append(q, k)
      BY <1>1, <1>2, QueueAppendTwo
  <1>5. cQueue' \in Seq(JobType) /\ Jobs(cQueue') = Jobs(cQueue) \cup {j, k}
    <2>1. cQueue' \in Seq(JobType) /\ Jobs(cQueue') = Jobs(q) \cup {k}
        BY <1>3, <1>4, QueueAppend
    <2> QED
        BY <1>3, <2>1
  <1>6. Places(cQueue', sQueue', applying', sReads') /\ Places(q, sQueue, applying, sReads)
      BY <1>1, <1>3, <1>5 DEF Places
  <1>7. QueueType'
      BY <1>6 DEF QueueType, Places
  <1>8. ASSUME NEW n PROVE LiveCount(n) \in Nat /\ LiveCount(n)' = LiveCount(n)
    <2>1. LiveW(n)[j] = 0 /\ LiveW(n)[k] = 0
        BY IdleWeights
    <2>2. PICK m : m = LiveSum(n, q, sQueue, applying, sReads)
        OBVIOUS
    <2>3. m \in Nat /\ LiveCount(n) \in Nat
        BY <1>1, <1>6, <2>2, LiveType DEF LiveCount
    <2>4. m = LiveCount(n) + LiveW(n)[j]
        BY <1>1, <1>2, <2>2, LivePushed DEF LiveCount
    <2>5. LiveSum(n, Append(q, k), sQueue, applying, sReads) = m + LiveW(n)[k]
        BY <1>6, <2>2, LivePushed
    <2>6. LiveCount(n)' = LiveSum(n, Append(q, k), sQueue, applying, sReads)
        BY <1>4, Zenon DEF LiveCount
    <2> QED
        BY <2>1, <2>3, <2>4, <2>5, <2>6
  <1>9. ASSUME NEW n, NEW O, IsFiniteSet(O)
        PROVE  /\ OwnerSum(n, cQueue, sQueue, O) \in Nat
               /\ OwnerSum(n, cQueue', sQueue', O) = OwnerSum(n, cQueue, sQueue, O)
    <2>1. Homes(cQueue, sQueue, O) /\ Homes(q, sQueue, O)
        BY <1>1, <1>3, <1>9 DEF Homes
    <2>2. ReleaseW(n)[j] = 0 /\ ReleaseW(n)[k] = 0
        BY IdleWeights
    <2>3. PICK m : m = OwnerSum(n, q, sQueue, O)
        OBVIOUS
    <2>4. m \in Nat /\ OwnerSum(n, cQueue, sQueue, O) \in Nat
        BY <2>1, <2>3, OwnerType
    <2>5. m = OwnerSum(n, cQueue, sQueue, O) + ReleaseW(n)[j]
        BY <1>2, <2>1, <2>3, OwnerPushed
    <2>6. OwnerSum(n, Append(q, k), sQueue, O) = m + ReleaseW(n)[k]
        BY <2>1, <2>3, OwnerPushed
    <2>7. OwnerSum(n, cQueue', sQueue', O) = OwnerSum(n, Append(q, k), sQueue, O)
        BY <1>4, Zenon
    <2> QED
        BY <2>2, <2>4, <2>5, <2>6, <2>7
  <1>10. ASSUME NEW i
         PROVE  Sum(cQueue', PendingW(i)) = (Sum(cQueue, PendingW(i)) + PendingW(i)[j]) + PendingW(i)[k]
    <2>1. Sum(q, PendingW(i)) = Sum(cQueue, PendingW(i)) + PendingW(i)[j]
        BY <1>1, <1>2, WeightTypes, SumAppend
    <2>2. Sum(cQueue', PendingW(i)) = Sum(q, PendingW(i)) + PendingW(i)[k]
        BY <1>3, <1>4, WeightTypes, SumAppend
    <2> QED
        BY <2>1, <2>2
  <1> QED
      BY <1>5, <1>7, <1>8, <1>9, <1>10

\* A read and the block behind it, which nobody waits for.
LEMMA ReadSent ==
    ASSUME QueueType, cQueue # <<>>, NEW k \in JobType, Idle(k), cQueue' = Tail(cQueue),
           sQueue' = sQueue \o <<Head(cQueue), k>>, applying' = applying, sReads' = sReads
    PROVE  /\ QueueType' /\ Jobs(cQueue') \subseteq Jobs(cQueue)
           /\ Jobs(sQueue') = Jobs(sQueue) \cup {Head(cQueue), k}
           /\ Head(cQueue) \in JobType /\ Head(cQueue) \in Jobs(cQueue)
           /\ \A n : LiveCount(n) \in Nat /\ LiveCount(n)' = LiveCount(n)
           /\ \A n, O : IsFiniteSet(O) =>
                 /\ OwnerSum(n, cQueue, sQueue, O) \in Nat
                 /\ OwnerSum(n, cQueue', sQueue', O) = OwnerSum(n, cQueue, sQueue, O)
           /\ \A i : Sum(cQueue, PendingW(i)) = Sum(cQueue', PendingW(i)) + PendingW(i)[Head(cQueue)]
  <1>1. Places(cQueue, sQueue, applying, sReads) /\ cQueue \in Seq(JobType) /\ sQueue \in Seq(JobType)
      BY DEF QueueType, Places
  <1>2. /\ cQueue' \in Seq(JobType) /\ Jobs(cQueue') \subseteq Jobs(cQueue)
        /\ Head(cQueue) \in JobType /\ Head(cQueue) \in Jobs(cQueue)
      BY <1>1, QueueTail
  <1>3. PICK h \in JobType : h = Head(cQueue)
      BY <1>2
  <1>4. PICK p : p = Append(sQueue, h)
      OBVIOUS
  <1>5. p \in Seq(JobType) /\ Jobs(p) = Jobs(sQueue) \cup {h}
      BY <1>1, <1>4, QueueAppend
  <1>6. sQueue' = Append(p, k)
      BY <1>1, <1>3, <1>4, QueueAppendTwo
  <1>7. sQueue' \in Seq(JobType) /\ Jobs(sQueue') = Jobs(sQueue) \cup {h, k}
    <2>1. sQueue' \in Seq(JobType) /\ Jobs(sQueue') = Jobs(p) \cup {k}
        BY <1>5, <1>6, QueueAppend
    <2> QED
        BY <1>5, <2>1
  <1>8. /\ Places(cQueue', sQueue', applying', sReads') /\ Places(cQueue', p, applying, sReads)
        /\ Places(cQueue', sQueue, applying, sReads)
      BY <1>1, <1>2, <1>5, <1>7 DEF Places
  <1>9. QueueType'
      BY <1>8 DEF QueueType, Places
  <1>10. ASSUME NEW n PROVE LiveCount(n) \in Nat /\ LiveCount(n)' = LiveCount(n)
    <2>1. LiveW(n)[k] = 0 /\ LiveW(n)[h] \in {0, 1}
        BY IdleWeights, Weights
    <2>2. PICK m : m = LiveSum(n, cQueue', sQueue, applying, sReads)
        OBVIOUS
    <2>3. PICK l : l = LiveSum(n, cQueue', p, applying, sReads)
        OBVIOUS
    <2>4. m \in Nat /\ l \in Nat /\ LiveCount(n) \in Nat
        BY <1>1, <1>8, <2>2, <2>3, LiveType DEF LiveCount
    <2>5. LiveCount(n) = m + LiveW(n)[h]
        BY <1>1, <1>3, <2>2, LiveTakenFromClient DEF LiveCount
    <2>6. l = m + LiveW(n)[h]
        BY <1>4, <1>8, <2>2, <2>3, LivePushed
    <2>7. LiveSum(n, cQueue', Append(p, k), applying, sReads) = l + LiveW(n)[k]
        BY <1>8, <2>3, LivePushed
    <2>8. LiveCount(n)' = LiveSum(n, cQueue', Append(p, k), applying, sReads)
        BY <1>6, Zenon DEF LiveCount
    <2> QED
        BY <2>1, <2>4, <2>5, <2>6, <2>7, <2>8
  <1>11. ASSUME NEW n, NEW O, IsFiniteSet(O)
         PROVE  /\ OwnerSum(n, cQueue, sQueue, O) \in Nat
                /\ OwnerSum(n, cQueue', sQueue', O) = OwnerSum(n, cQueue, sQueue, O)
    <2>1. Homes(cQueue, sQueue, O) /\ Homes(cQueue', sQueue, O) /\ Homes(cQueue', p, O)
        BY <1>1, <1>2, <1>5, <1>11 DEF Homes
    <2>2. ReleaseW(n)[k] = 0 /\ ReleaseW(n)[h] \in {0, 1}
        BY IdleWeights, Weights
    <2>3. PICK m : m = OwnerSum(n, cQueue', sQueue, O)
        OBVIOUS
    <2>4. PICK l : l = OwnerSum(n, cQueue', p, O)
        OBVIOUS
    <2>5. m \in Nat /\ l \in Nat /\ OwnerSum(n, cQueue, sQueue, O) \in Nat
        BY <2>1, <2>3, <2>4, OwnerType
    <2>6. OwnerSum(n, cQueue, sQueue, O) = m + ReleaseW(n)[h]
        BY <1>3, <2>1, <2>3, OwnerTaken
    <2>7. l = m + ReleaseW(n)[h]
        BY <1>4, <2>1, <2>3, <2>4, OwnerPushed
    <2>8. OwnerSum(n, cQueue', Append(p, k), O) = l + ReleaseW(n)[k]
        BY <2>1, <2>4, OwnerPushed
    <2>9. OwnerSum(n, cQueue', sQueue', O) = OwnerSum(n, cQueue', Append(p, k), O)
        BY <1>6, Zenon
    <2> QED
        BY <2>2, <2>5, <2>6, <2>7, <2>8, <2>9
  <1>12. ASSUME NEW i
         PROVE  Sum(cQueue, PendingW(i)) = Sum(cQueue', PendingW(i)) + PendingW(i)[Head(cQueue)]
      BY <1>1, WeightTypes, SumTail
  <1> QED
      BY <1>2, <1>3, <1>7, <1>9, <1>10, <1>11, <1>12

\* A read that the server's main queue hands to a disk thread.
LEMMA HandedToDisk ==
    ASSUME QueueType, sQueue # <<>>, sQueue' = Tail(sQueue), cQueue' = cQueue,
           applying' = applying, sReads' = sReads \cup {Head(sQueue)}
    PROVE  /\ QueueType' /\ Jobs(sQueue') \subseteq Jobs(sQueue) /\ Jobs(cQueue') = Jobs(cQueue)
           /\ Head(sQueue) \in JobType /\ Head(sQueue) \in Jobs(sQueue)
           /\ \A n : LiveCount(n) \in Nat /\ LiveCount(n)' \in Nat /\ LiveCount(n)' <= LiveCount(n)
           /\ \A n, O : IsFiniteSet(O) =>
                 /\ OwnerSum(n, cQueue, sQueue, O) \in Nat /\ OwnerSum(n, cQueue', sQueue', O) \in Nat
                 /\ OwnerSum(n, cQueue', sQueue', O) <= OwnerSum(n, cQueue, sQueue, O)
  <1>1. Places(cQueue, sQueue, applying, sReads) /\ cQueue \in Seq(JobType) /\ sQueue \in Seq(JobType)
      BY DEF QueueType, Places
  <1>2. /\ sQueue' \in Seq(JobType) /\ Jobs(sQueue') \subseteq Jobs(sQueue)
        /\ Head(sQueue) \in JobType /\ Head(sQueue) \in Jobs(sQueue)
      BY <1>1, QueueTail
  <1>3. PICK h \in JobType : h = Head(sQueue)
      BY <1>2
  <1>4. Places(cQueue, sQueue', applying, sReads)
      BY <1>1, <1>2 DEF Places
  <1>5. Places(cQueue', sQueue', applying', sReads')
      BY <1>3, <1>4, LiveHandedOver
  <1>6. QueueType'
      BY <1>5 DEF QueueType, Places
  <1>7. ASSUME NEW n
        PROVE  LiveCount(n) \in Nat /\ LiveCount(n)' \in Nat /\ LiveCount(n)' <= LiveCount(n)
    <2>1. PICK m : m = LiveSum(n, cQueue, sQueue', applying, sReads)
        OBVIOUS
    <2>2. m \in Nat /\ LiveCount(n) \in Nat /\ LiveCount(n)' \in Nat /\ LiveW(n)[h] \in {0, 1}
        BY <1>1, <1>4, <1>5, <2>1, LiveType, Weights DEF LiveCount
    <2>3. LiveCount(n) = m + LiveW(n)[h]
        BY <1>1, <1>3, <2>1, LiveTakenFromServer DEF LiveCount
    <2>4. LiveCount(n)' <= m + LiveW(n)[h]
        BY <1>3, <1>4, <2>1, LiveHandedOver DEF LiveCount
    <2> QED
        BY <2>2, <2>3, <2>4
  <1>8. ASSUME NEW n, NEW O, IsFiniteSet(O)
        PROVE  /\ OwnerSum(n, cQueue, sQueue, O) \in Nat /\ OwnerSum(n, cQueue', sQueue', O) \in Nat
               /\ OwnerSum(n, cQueue', sQueue', O) <= OwnerSum(n, cQueue, sQueue, O)
    <2>1. Homes(cQueue, sQueue, O) /\ Homes(cQueue', sQueue', O)
        BY <1>1, <1>2, <1>8 DEF Homes
    <2>2. OwnerSum(n, cQueue, sQueue, O) \in Nat /\ OwnerSum(n, cQueue', sQueue', O) \in Nat
        BY <2>1, OwnerType
    <2>3. OwnerSum(n, cQueue, sQueue, O) = OwnerSum(n, cQueue', sQueue', O) + ReleaseW(n)[h]
        BY <1>3, <2>1, OwnerTaken
    <2>4. ReleaseW(n)[h] \in {0, 1}
        BY Weights
    <2> QED
        BY <2>2, <2>3, <2>4
  <1> QED
      BY <1>2, <1>6, <1>7, <1>8

\* A read that a disk thread answers.
LEMMA ReadFromDisk ==
    ASSUME QueueType, NEW r \in sReads, NEW j \in JobType, ~Releases(j), j.req = r.req,
           Live(j) => Live(r), cQueue' = Append(cQueue, j), sQueue' = sQueue,
           applying' = applying, sReads' = sReads \ {r}
    PROVE  /\ QueueType' /\ Jobs(cQueue') = Jobs(cQueue) \cup {j} /\ Jobs(sQueue') = Jobs(sQueue)
           /\ \A n : LiveCount(n) \in Nat /\ LiveCount(n)' \in Nat /\ LiveCount(n)' <= LiveCount(n)
           /\ \A n, O : IsFiniteSet(O) =>
                 /\ OwnerSum(n, cQueue, sQueue, O) \in Nat
                 /\ OwnerSum(n, cQueue', sQueue', O) = OwnerSum(n, cQueue, sQueue, O)
           /\ \A i : Sum(cQueue', PendingW(i)) = Sum(cQueue, PendingW(i)) + PendingW(i)[j]
  <1>1. Places(cQueue, sQueue, applying, sReads) /\ cQueue \in Seq(JobType) /\ sQueue \in Seq(JobType)
      BY DEF QueueType, Places
  <1>2. cQueue' \in Seq(JobType) /\ Jobs(cQueue') = Jobs(cQueue) \cup {j}
      BY <1>1, QueueAppend
  <1>3. PICK S : S = sReads \ {r} /\ Without(sReads, r, S)
      BY DEF Without
  <1>4. Places(cQueue, sQueue, applying, S) /\ r \in JobType
      BY <1>1, <1>3, LiveReturned DEF Places
  <1>5. Places(cQueue', sQueue', applying', sReads')
      BY <1>2, <1>3, <1>4 DEF Places
  <1>6. QueueType'
      BY <1>5 DEF QueueType, Places
  <1>7. ASSUME NEW n
        PROVE  LiveCount(n) \in Nat /\ LiveCount(n)' \in Nat /\ LiveCount(n)' <= LiveCount(n)
    <2>1. PICK m : m = LiveSum(n, cQueue, sQueue, applying, S)
        OBVIOUS
    <2>2. m \in Nat /\ LiveCount(n) \in Nat /\ LiveCount(n)' \in Nat
        BY <1>1, <1>4, <1>5, <2>1, LiveType DEF LiveCount
    <2>3. LiveW(n)[r] \in {0, 1} /\ LiveW(n)[j] \in {0, 1} /\ LiveW(n)[j] <= LiveW(n)[r]
        BY <1>4, Weights
    <2>4. LiveCount(n) = m + LiveW(n)[r]
        BY <1>1, <1>3, <2>1, LiveReturned DEF LiveCount
    <2>5. LiveSum(n, Append(cQueue, j), sQueue, applying, S) = m + LiveW(n)[j]
        BY <1>4, <2>1, LivePushed
    <2>6. LiveCount(n)' = LiveSum(n, Append(cQueue, j), sQueue, applying, S)
        BY <1>3, Zenon DEF LiveCount
    <2> QED
        BY <2>2, <2>3, <2>4, <2>5, <2>6
  <1>8. ASSUME NEW n, NEW O, IsFiniteSet(O)
        PROVE  /\ OwnerSum(n, cQueue, sQueue, O) \in Nat
               /\ OwnerSum(n, cQueue', sQueue', O) = OwnerSum(n, cQueue, sQueue, O)
    <2>1. Homes(cQueue, sQueue, O)
        BY <1>1, <1>8 DEF Homes
    <2>2. ReleaseW(n)[j] = 0
        BY Weights
    <2>3. /\ OwnerSum(n, cQueue, sQueue, O) \in Nat
          /\ OwnerSum(n, cQueue', sQueue', O) = OwnerSum(n, cQueue, sQueue, O) + ReleaseW(n)[j]
        BY <2>1, OwnerType, OwnerPushed
    <2> QED
        BY <2>2, <2>3
  <1>9. ASSUME NEW i PROVE Sum(cQueue', PendingW(i)) = Sum(cQueue, PendingW(i)) + PendingW(i)[j]
      BY <1>1, WeightTypes, SumAppend
  <1> QED
      BY <1>2, <1>6, <1>7, <1>8, <1>9

\* A read that ends where it is.
LEMMA ReadDropped ==
    ASSUME QueueType, NEW r \in sReads, cQueue' = cQueue, sQueue' = sQueue,
           applying' = applying, sReads' = sReads \ {r}
    PROVE  /\ QueueType'
           /\ \A n : LiveCount(n) \in Nat /\ LiveCount(n)' \in Nat /\ LiveCount(n)' <= LiveCount(n)
  <1>0. Without(sReads, r, sReads')
      BY DEF Without
  <1>1. Places(cQueue, sQueue, applying, sReads) /\ r \in JobType
      BY DEF QueueType, Places
  <1>2. Places(cQueue', sQueue', applying', sReads')
      BY <1>0, <1>1, LiveReturned
  <1>3. QueueType'
      BY <1>2 DEF QueueType, Places
  <1>4. ASSUME NEW n
        PROVE  LiveCount(n) \in Nat /\ LiveCount(n)' \in Nat /\ LiveCount(n)' <= LiveCount(n)
    <2>1. LiveCount(n) \in Nat /\ LiveCount(n)' \in Nat /\ LiveW(n)[r] \in {0, 1}
        BY <1>1, <1>2, LiveType, Weights DEF LiveCount
    <2>3. LiveCount(n) = LiveCount(n)' + LiveW(n)[r]
        BY <1>1, <1>0, LiveReturned DEF LiveCount
    <2> QED
        BY <2>1, <2>3
  <1> QED
      BY <1>3, <1>4

\* A block that the client's main queue hands to the cache tree queue.
LEMMA HandedToCache ==
    ASSUME QueueType, cQueue # <<>>, cQueue' = Tail(cQueue), sQueue' = sQueue,
           applying' = Append(applying, Head(cQueue)), sReads' = sReads
    PROVE  /\ QueueType' /\ Jobs(cQueue') \subseteq Jobs(cQueue) /\ Jobs(sQueue') = Jobs(sQueue)
           /\ Head(cQueue) \in JobType /\ Head(cQueue) \in Jobs(cQueue)
           /\ Jobs(applying') = Jobs(applying) \cup {Head(cQueue)}
           /\ \A n : LiveCount(n) \in Nat /\ LiveCount(n)' \in Nat /\ LiveCount(n)' <= LiveCount(n)
           /\ \A n, O : IsFiniteSet(O) =>
                 /\ OwnerSum(n, cQueue, sQueue, O) \in Nat /\ OwnerSum(n, cQueue', sQueue', O) \in Nat
                 /\ OwnerSum(n, cQueue', sQueue', O) <= OwnerSum(n, cQueue, sQueue, O)
           /\ \A i : Sum(cQueue, PendingW(i)) = Sum(cQueue', PendingW(i)) + PendingW(i)[Head(cQueue)]
  <1>1. /\ Places(cQueue, sQueue, applying, sReads) /\ cQueue \in Seq(JobType) /\ sQueue \in Seq(JobType)
        /\ applying \in Seq(JobType)
      BY DEF QueueType, Places
  <1>2. /\ cQueue' \in Seq(JobType) /\ Jobs(cQueue') \subseteq Jobs(cQueue)
        /\ Head(cQueue) \in JobType /\ Head(cQueue) \in Jobs(cQueue)
      BY <1>1, QueueTail
  <1>3. PICK h \in JobType : h = Head(cQueue)
      BY <1>2
  <1>4. applying' \in Seq(JobType) /\ Jobs(applying') = Jobs(applying) \cup {h}
      BY <1>1, <1>3, QueueAppend
  <1>5. Places(cQueue', sQueue, applying, sReads) /\ Places(cQueue', sQueue', applying', sReads')
      BY <1>1, <1>2, <1>4 DEF Places
  <1>6. QueueType'
      BY <1>5 DEF QueueType, Places
  <1>7. ASSUME NEW n
        PROVE  LiveCount(n) \in Nat /\ LiveCount(n)' \in Nat /\ LiveCount(n)' <= LiveCount(n)
    <2>1. PICK m : m = LiveSum(n, cQueue', sQueue, applying, sReads)
        OBVIOUS
    <2>2. m \in Nat /\ LiveCount(n) \in Nat /\ LiveCount(n)' \in Nat /\ LiveW(n)[h] \in {0, 1}
        BY <1>1, <1>5, <2>1, LiveType, Weights DEF LiveCount
    <2>3. LiveCount(n) = m + LiveW(n)[h]
        BY <1>1, <1>3, <2>1, LiveTakenFromClient DEF LiveCount
    <2>4. LiveSum(n, cQueue', sQueue, Append(applying, h), sReads) = m + LiveW(n)[h]
        BY <1>5, <2>1, LivePushed
    <2>5. LiveCount(n)' = LiveSum(n, cQueue', sQueue, Append(applying, h), sReads)
        BY <1>3, Zenon DEF LiveCount
    <2> QED
        BY <2>2, <2>3, <2>4, <2>5
  <1>8. ASSUME NEW n, NEW O, IsFiniteSet(O)
        PROVE  /\ OwnerSum(n, cQueue, sQueue, O) \in Nat /\ OwnerSum(n, cQueue', sQueue', O) \in Nat
               /\ OwnerSum(n, cQueue', sQueue', O) <= OwnerSum(n, cQueue, sQueue, O)
    <2>1. Homes(cQueue, sQueue, O) /\ Homes(cQueue', sQueue', O)
        BY <1>1, <1>2, <1>8 DEF Homes
    <2>2. OwnerSum(n, cQueue, sQueue, O) \in Nat /\ OwnerSum(n, cQueue', sQueue', O) \in Nat
        BY <2>1, OwnerType
    <2>3. OwnerSum(n, cQueue, sQueue, O) = OwnerSum(n, cQueue', sQueue', O) + ReleaseW(n)[h]
        BY <1>3, <2>1, OwnerTaken
    <2>4. ReleaseW(n)[h] \in {0, 1}
        BY Weights
    <2> QED
        BY <2>2, <2>3, <2>4
  <1>9. ASSUME NEW i
        PROVE  Sum(cQueue, PendingW(i)) = Sum(cQueue', PendingW(i)) + PendingW(i)[Head(cQueue)]
      BY <1>1, WeightTypes, SumTail
  <1> QED
      BY <1>2, <1>3, <1>4, <1>6, <1>7, <1>8, <1>9

\* A block that is applied.
LEMMA Applied ==
    ASSUME QueueType, applying # <<>>, cQueue' = cQueue, sQueue' = sQueue,
           applying' = Tail(applying), sReads' = sReads
    PROVE  /\ QueueType' /\ Jobs(applying') \subseteq Jobs(applying)
           /\ Head(applying) \in JobType /\ Head(applying) \in Jobs(applying)
           /\ \A n : /\ LiveCount(n) \in Nat /\ LiveCount(n)' \in Nat
                     /\ LiveCount(n) = LiveCount(n)' + LiveW(n)[Head(applying)]
  <1>1. Places(cQueue, sQueue, applying, sReads) /\ applying \in Seq(JobType)
      BY DEF QueueType, Places
  <1>2. /\ applying' \in Seq(JobType) /\ Jobs(applying') \subseteq Jobs(applying)
        /\ Head(applying) \in JobType /\ Head(applying) \in Jobs(applying)
      BY <1>1, QueueTail
  <1>3. Places(cQueue', sQueue', applying', sReads')
      BY <1>1, <1>2 DEF Places
  <1>4. QueueType'
      BY <1>3 DEF QueueType, Places
  <1>5. ASSUME NEW n
        PROVE  /\ LiveCount(n) \in Nat /\ LiveCount(n)' \in Nat
               /\ LiveCount(n) = LiveCount(n)' + LiveW(n)[Head(applying)]
      BY <1>1, <1>3, LiveType, LiveTakenFromApplying DEF LiveCount
  <1> QED
      BY <1>2, <1>4, <1>5

\* A count of none, and what it says.
LEMMA NoneLive ==
    ASSUME NEW q, NEW p, NEW a, NEW S, Places(q, p, a, S), NEW n
    PROVE  /\ LiveSum(n, q, p, a, S) = 0 =>
                 \A j \in Jobs(q) \cup Jobs(p) \cup Jobs(a) \cup S : ~(Live(j) /\ j.req = n)
           /\ (\A j \in Jobs(q) \cup Jobs(p) \cup Jobs(a) \cup S : ~(Live(j) /\ j.req = n)) =>
                 LiveSum(n, q, p, a, S) = 0
  <1>1. PICK w \in [JobType -> Nat] : w = LiveW(n)
      BY WeightTypes
  <1>2. PICK f : f = [j \in S |-> w[j]]
      OBVIOUS
  <1>3. f \in [S -> Nat] /\ IsFiniteSet(S)
      BY <1>2 DEF Places
  <1>4. Sum(q, w) \in Nat /\ Sum(p, w) \in Nat /\ Sum(a, w) \in Nat /\ Total(f) \in Nat
      BY <1>1, <1>2, LiveParts
  <1>5. LiveSum(n, q, p, a, S) = Sum(q, w) + Sum(p, w) + Sum(a, w) + Total(f)
      BY <1>1, <1>2 DEF LiveSum
  <1>6. q \in Seq(JobType) /\ p \in Seq(JobType) /\ a \in Seq(JobType) /\ S \subseteq JobType
      BY DEF Places
  <1>7. Jobs(q) \subseteq JobType /\ Jobs(p) \subseteq JobType /\ Jobs(a) \subseteq JobType
      BY <1>6, QueueJobs
  <1>8. \A j \in JobType : w[j] = IF Live(j) /\ j.req = n THEN 1 ELSE 0
      BY <1>1, Weights
  <1>9. ASSUME LiveSum(n, q, p, a, S) = 0
        PROVE  \A j \in Jobs(q) \cup Jobs(p) \cup Jobs(a) \cup S : ~(Live(j) /\ j.req = n)
    <2>0. PICK x \in Nat, y \in Nat, z \in Nat, t \in Nat :
             x = Sum(q, w) /\ y = Sum(p, w) /\ z = Sum(a, w) /\ t = Total(f)
        BY <1>4
    <2>1. Sum(q, w) = 0 /\ Sum(p, w) = 0 /\ Sum(a, w) = 0 /\ Total(f) = 0
      <3>1. x + y + z + t = 0
          BY <1>5, <1>9, <2>0
      <3>2. x = 0 /\ y = 0 /\ z = 0 /\ t = 0
          BY <3>1
      <3> QED
          BY <2>0, <3>2
    <2>2. \A j \in Jobs(q) : w[j] <= 0
        BY <1>6, <2>1, SumMember
    <2>3. \A j \in Jobs(p) : w[j] <= 0
        BY <1>6, <2>1, SumMember
    <2>4. \A j \in Jobs(a) : w[j] <= 0
        BY <1>6, <2>1, SumMember
    <2>5. \A j \in S : f[j] <= 0
        BY <1>3, <2>1, TotalMember
    <2>6. \A j \in S : w[j] <= 0
        BY <1>2, <2>5
    <2> QED
        BY <1>6, <1>7, <1>8, <2>2, <2>3, <2>4, <2>6
  <1>10. ASSUME \A j \in Jobs(q) \cup Jobs(p) \cup Jobs(a) \cup S : ~(Live(j) /\ j.req = n)
         PROVE  LiveSum(n, q, p, a, S) = 0
    <2>1. \A j \in Jobs(q) \cup Jobs(p) \cup Jobs(a) \cup S : w[j] = 0
        BY <1>6, <1>7, <1>8, <1>10
    <2>2. Sum(q, w) = 0 /\ Sum(p, w) = 0 /\ Sum(a, w) = 0
        BY <1>6, <2>1, SumZero
    <2>3. \A j \in S : f[j] = 0
        BY <1>2, <2>1
    <2>4. Total(f) = 0
        BY <1>3, <2>3, TotalZero
    <2> QED
        BY <1>5, <2>2, <2>4
  <1> QED
      BY <1>9, <1>10

LEMMA NoOwner ==
    ASSUME NEW q, NEW p, NEW O, Homes(q, p, O), NEW n
    PROVE  /\ OwnerSum(n, q, p, O) = 0 =>
                 /\ \A j \in Jobs(q) \cup Jobs(p) : ~(Releases(j) /\ j.x = n)
                 /\ \A h \in O : h.handle # n
           /\ /\ \A j \in Jobs(q) \cup Jobs(p) : ~(Releases(j) /\ j.x = n)
              /\ \A h \in O : h.handle # n
              => OwnerSum(n, q, p, O) = 0
  <1>1. PICK w \in [JobType -> Nat] : w = ReleaseW(n)
      BY WeightTypes
  <1>2. PICK T : T = {h \in O : h.handle = n}
      OBVIOUS
  <1>3. Sum(q, w) \in Nat /\ Sum(p, w) \in Nat /\ IsFiniteSet(T) /\ Cardinality(T) \in Nat
      BY <1>1, <1>2, OwnerParts
  <1>4. OwnerSum(n, q, p, O) = Sum(q, w) + Sum(p, w) + Cardinality(T)
      BY <1>1, <1>2 DEF OwnerSum
  <1>5. q \in Seq(JobType) /\ p \in Seq(JobType)
      BY DEF Homes
  <1>6. Jobs(q) \subseteq JobType /\ Jobs(p) \subseteq JobType
      BY <1>5, QueueJobs
  <1>7. \A j \in JobType : w[j] = IF Releases(j) /\ j.x = n THEN 1 ELSE 0
      BY <1>1, Weights
  <1>8. Cardinality(T) = 0 <=> T = {}
      BY <1>3, FS_EmptySet
  <1>9. ASSUME OwnerSum(n, q, p, O) = 0
        PROVE  /\ \A j \in Jobs(q) \cup Jobs(p) : ~(Releases(j) /\ j.x = n)
               /\ \A h \in O : h.handle # n
    <2>1. Sum(q, w) = 0 /\ Sum(p, w) = 0 /\ Cardinality(T) = 0
        BY <1>3, <1>4, <1>9
    <2>2. \A j \in Jobs(q) : w[j] <= 0
        BY <1>5, <2>1, SumMember
    <2>3. \A j \in Jobs(p) : w[j] <= 0
        BY <1>5, <2>1, SumMember
    <2>4. \A j \in Jobs(q) \cup Jobs(p) : ~(Releases(j) /\ j.x = n)
        BY <1>6, <1>7, <2>2, <2>3
    <2>5. \A h \in O : h.handle # n
        BY <1>2, <1>8, <2>1
    <2> QED
        BY <2>4, <2>5
  <1>10. ASSUME \A j \in Jobs(q) \cup Jobs(p) : ~(Releases(j) /\ j.x = n),
                \A h \in O : h.handle # n
         PROVE  OwnerSum(n, q, p, O) = 0
    <2>1. \A j \in Jobs(q) \cup Jobs(p) : w[j] = 0
        BY <1>6, <1>7, <1>10
    <2>2. Sum(q, w) = 0 /\ Sum(p, w) = 0
        BY <1>5, <2>1, SumZero
    <2>3. T = {}
        BY <1>2, <1>10
    <2> QED
        BY <1>4, <1>8, <2>2, <2>3
  <1> QED
      BY <1>9, <1>10

-----------------------------------------------------------------------------
(* Steps that leave the trees and the kernel alone.                        *)

LEMMA PendingSums ==
    ASSUME NEW q \in Seq(JobType), NEW i
    PROVE  Sum(q, PendingW(i)) \in Nat
  BY WeightTypes, SumTerms

LEMMA NotPending ==
    ASSUME NEW j \in JobType, j.op # "ReleaseLeafRef", NEW i
    PROVE  PendingW(i)[j] = 0
  BY Weights

LEMMA RefFrame ==
    ASSUME RefInv, cLeaf' = cLeaf, known' = known, fault' # "clientRefs",
           \A i : Sum(cQueue', PendingW(i)) = Sum(cQueue, PendingW(i))
    PROVE  RefInv'
  <1>1. \A i : Lookups(i)' = Lookups(i)
      BY DEF Lookups
  <1> QED
      BY <1>1 DEF RefInv

LEMMA KernelFrame ==
    ASSUME KernelType, DOMAIN cLeaf \subseteq DOMAIN cLeaf', sHandles' \subseteq Nat, leaked' \in Nat,
           reqs' \subseteq reqs, opened' \subseteq opened, forgetting' \subseteq forgetting,
           requests' = requests, known' = known
    PROVE  KernelType'
  <1>1. reqs' \subseteq [req : 1..requests', op : RequestOps, leaf : DOMAIN known']
      BY DEF KernelType
  <1>2. opened' \subseteq [leaf : DOMAIN known', handle : 1..requests'] /\ IsFiniteSet(opened')
      BY FS_Subset DEF KernelType
  <1>3. IsFiniteSet(forgetting')
      BY FS_Subset DEF KernelType
  <1>4. \A m \in [leaf : DOMAIN cLeaf, n : Nat \ {0}] : m \in [leaf : DOMAIN cLeaf', n : Nat \ {0}]
      OBVIOUS
  <1>5. forgetting' \subseteq [leaf : DOMAIN cLeaf', n : Nat \ {0}]
      BY <1>4 DEF KernelType
  <1> QED
      BY <1>1, <1>2, <1>3, <1>5 DEF KernelType

\* The parts of the invariant that a step on the queues alone keeps.
LEMMA QueueStep ==
    ASSUME Inv, UNCHANGED <<diskVars, sLeaf, sHandles, leaked, cLeaf, index, known, opened, requests>>,
           forgetting' \subseteq forgetting, reqs' \subseteq reqs, QueueType'
    PROVE  TypeInv' /\ TreeInv' /\ Grows
  <1>1. DiskType'
      BY DEF Inv, TypeInv, DiskType, diskVars
  <1>2. IsTree(sLeaf)' /\ IsTree(cLeaf)' /\ Grows
      BY DEF Inv, TypeInv, IsTree, Grows
  <1>3. KernelType'
    <2>1. sHandles' \subseteq Nat /\ leaked' \in Nat /\ KernelType
        BY DEF Inv, TypeInv, KernelType
    <2> QED
        BY <2>1, KernelFrame
  <1>4. TreeInv'
    <2>1. OneOfAName(sLeaf')
        BY DEF Inv, TreeInv
    <2> QED
        BY <1>2, <2>1, TreeFrame DEF Inv
  <1> QED
      BY <1>1, <1>2, <1>3, <1>4 DEF TypeInv

\* A job that is sent on as it is, up to the address of the leaf.
LEMMA Sending ==
    ASSUME Inv, cQueue # <<>>, NEW j \in JobType,
           j.op = Head(cQueue).op, j.req = Head(cQueue).req, j.x = Head(cQueue).x,
           j.op # "Read", j.op \in RequestOps \cup {"ForgetMulti"}, Sound(j),
           cQueue' = Tail(cQueue), sQueue' = Append(sQueue, j),
           UNCHANGED <<diskVars, serverVars, clientVars, kernelVars, forgetting, fault>>
    PROVE  Inv'
  <1>1. PICK h \in JobType : h = Head(cQueue)
      BY SentOn DEF Inv, TypeInv, serverVars, clientVars
  <1>2. UNCHANGED <<sLeaf, sHandles, sReads, leaked, cLeaf, index, applying, reqs, known, opened, requests>>
      BY DEF serverVars, clientVars, kernelVars
  <1>3. /\ QueueType' /\ Jobs(cQueue') \subseteq Jobs(cQueue) /\ Jobs(sQueue') = Jobs(sQueue) \cup {j}
        /\ h \in Jobs(cQueue)
      BY <1>1, <1>2, SentOn DEF Inv, TypeInv
  <1>4. TypeInv' /\ TreeInv' /\ Grows
      BY <1>2, <1>3, QueueStep
  <1>5. SoundInv'
    <2>1. Sound(j)'
        BY <1>4, SoundStays
    <2> QED
        BY <1>3, <1>4, <2>1, SoundFrame DEF Inv
  <1>6. Live(j) = Live(h) /\ Releases(j) = Releases(h) /\ Opens(j) = Opens(h)
      BY <1>1 DEF Live, Releases, Opens
  <1>7. RequestInv'
    <2>1. Served(j)
      <3>1. ServedByClient(h)
          BY <1>3 DEF Inv, RequestInv
      <3>2. \A r : Serves(h, r) => Serves(j, r)
          BY <1>1 DEF Serves, ReadsHandle, RequestOps
      <3> QED
          BY <1>6, <3>1, <3>2 DEF Served, ServedByClient
    <2>2. ASSUME NEW n \in Nat
          PROVE  LiveCount(n)' \in Nat /\ LiveCount(n) \in Nat /\ LiveCount(n)' <= LiveCount(n)
      <3>1. LiveW(n)[j] = LiveW(n)[h] /\ LiveW(n)[h] \in {0, 1}
          BY <1>1, <1>6, Weights
      <3>2. /\ LiveCount(n)' \in Nat /\ LiveCount(n) \in Nat
            /\ LiveCount(n)' + LiveW(n)[h] = LiveCount(n) + LiveW(n)[j]
          BY <1>1, <1>2, SentOn DEF Inv, TypeInv
      <3> QED
          BY <3>1, <3>2
    <2>3. /\ \A i \in Jobs(cQueue') : i \in Jobs(cQueue) \/ ServedByClient(i)
          /\ \A i \in Jobs(sQueue') \cup sReads' \cup Jobs(applying') :
                 i \in Jobs(sQueue) \cup sReads \cup Jobs(applying) \/ Served(i)
      BY <1>2, <1>3, <2>1
    <2> QED
        BY <1>2, <2>2, <2>3, RequestFrame DEF Inv
  <1>8. HandleInv'
    <2>1. Owned(j)'
      <3>1. Owned(h)
          BY <1>3 DEF Inv, HandleInv
      <3> QED
          BY <1>1, <1>2, <1>6, <3>1 DEF Owned
    <2>2. ASSUME NEW n \in Nat
          PROVE  Owners(n)' \in Nat /\ Owners(n) \in Nat /\ Owners(n)' <= Owners(n)
      <3>1. ReleaseW(n)[j] = ReleaseW(n)[h] /\ ReleaseW(n)[h] \in {0, 1}
          BY <1>1, <1>6, Weights
      <3>2. PICK O : O = opened /\ IsFiniteSet(O)
          BY DEF Inv, TypeInv, KernelType
      <3>3. /\ OwnerSum(n, cQueue', sQueue', O) \in Nat /\ OwnerSum(n, cQueue, sQueue, O) \in Nat
            /\ OwnerSum(n, cQueue', sQueue', O) + ReleaseW(n)[h] = OwnerSum(n, cQueue, sQueue, O) + ReleaseW(n)[j]
          BY <1>1, <1>2, <3>2, SentOn DEF Inv, TypeInv
      <3>4. Owners(n)' = OwnerSum(n, cQueue', sQueue', O) /\ Owners(n) = OwnerSum(n, cQueue, sQueue, O)
          BY <1>2, <3>2 DEF Owners
      <3> QED
          BY <3>1, <3>3, <3>4
    <2> QED
        BY <1>2, <1>3, <2>1, <2>2, HandleFrame DEF Inv
  <1>9. RefInv'
    <2>1. ASSUME NEW i PROVE Sum(cQueue', PendingW(i)) = Sum(cQueue, PendingW(i))
      <3>1. PendingW(i)[h] = 0
          BY <1>1, NotPending DEF RequestOps
      <3>2. Sum(cQueue, PendingW(i)) = Sum(cQueue', PendingW(i)) + PendingW(i)[h]
          BY <1>1, <1>2, SentOn DEF Inv, TypeInv
      <3>3. Sum(cQueue', PendingW(i)) \in Nat
          BY <1>3, PendingSums DEF QueueType
      <3> QED
          BY <3>1, <3>2, <3>3
    <2>2. fault' # "clientRefs" /\ RefInv
        BY DEF Inv, RefInv
    <2> QED
        BY <1>2, <2>1, <2>2, RefFrame
  <1> QED
      BY <1>4, <1>5, <1>7, <1>8, <1>9 DEF Inv

LEMMA ForwardKeeps ==
    ASSUME Inv, NEW op \in RequestOps \ {"Read"}, Forward(op)
    PROVE  Inv'
  <1>1. cQueue # <<>> /\ Head(cQueue).op = op
      BY DEF Forward, ClientHead
  <1>2. PICK h \in JobType : h = Head(cQueue) /\ h \in Jobs(cQueue)
      BY <1>1, QueueTail DEF Inv, TypeInv, QueueType
  <1>3. h.leaf \in DOMAIN cLeaf
    <2>1. Live(h) /\ ServedByClient(h)
        BY <1>1, <1>2 DEF Inv, RequestInv, Live
    <2>2. PICK r \in reqs : h.leaf = r.leaf
        BY <1>1, <1>2, <2>1 DEF ServedByClient
    <2> QED
        BY <2>2 DEF Inv, TypeInv, KernelType
  <1>4. PICK s \in Nat : s = cLeaf[h.leaf].server
      BY <1>3, LeafFields DEF Inv, TypeInv
  <1>5. PICK j : j = [h EXCEPT !.leaf = s]
      OBVIOUS
  <1>6. j \in JobType /\ j.leaf = s /\ j.op = h.op /\ j.req = h.req /\ j.x = h.x
      BY <1>5, JobWithLeaf
  <1>7. Sound(j)
    <2>1. Sound(h) /\ (h.leaf = Dir => s = Dir)
        BY <1>2, <1>4 DEF Inv, SoundInv, TreeInv
    <2> QED
        BY <1>1, <1>2, <1>6, <2>1 DEF Sound, RequestOps
  <1>8. /\ sQueue' = Append(sQueue, j) /\ cQueue' = Tail(cQueue)
        /\ UNCHANGED <<diskVars, serverVars, clientVars, kernelVars, forgetting, fault>>
      BY <1>2, <1>4, <1>5 DEF Forward, ClientJob
  <1>9. j.op # "Read" /\ j.op \in RequestOps \cup {"ForgetMulti"}
      BY <1>1, <1>2, <1>6
  <1> QED
      BY <1>1, <1>2, <1>6, <1>7, <1>8, <1>9, Sending

LEMMA RequestForgetMultiKeeps ==
    ASSUME Inv, RequestForgetMulti
    PROVE  Inv'
  <1>1. cQueue # <<>> /\ Head(cQueue).op = "ForgetMulti"
      BY DEF RequestForgetMulti, ClientHead
  <1>2. PICK h \in JobType : h = Head(cQueue) /\ h \in Jobs(cQueue)
      BY <1>1, QueueTail DEF Inv, TypeInv, QueueType
  <1>3. Sound(h)
      BY <1>2 DEF Inv, SoundInv
  <1>4. /\ sQueue' = Append(sQueue, h) /\ cQueue' = Tail(cQueue)
        /\ UNCHANGED <<diskVars, serverVars, clientVars, kernelVars, forgetting, fault>>
      BY <1>2 DEF RequestForgetMulti, ClientJob
  <1> QED
      BY <1>1, <1>2, <1>3, <1>4, Sending

LEMMA RequestReadKeeps ==
    ASSUME Inv, RequestRead
    PROVE  Inv'
  <1>1. cQueue # <<>> /\ Head(cQueue).op = "Read" /\ QueueType
      BY DEF RequestRead, ClientHead, Inv, TypeInv
  <1>2. PICK h \in JobType : h = Head(cQueue) /\ h \in Jobs(cQueue)
      BY <1>1, QueueTail DEF QueueType
  <1>3. PICK k : k = [h EXCEPT !.op = "Prefetch"]
      OBVIOUS
  <1>4. k \in JobType /\ k.op = "Prefetch"
    <2>1. PICK op \in Ops : op = "Prefetch"
        BY DEF Ops
    <2>2. k = [h EXCEPT !.op = op]
        BY <1>3, <2>1
    <2> QED
        BY <2>1, <2>2, JobWithOp
  <1>5. /\ cQueue' = Tail(cQueue) /\ sQueue' = sQueue \o <<Head(cQueue), k>>
        /\ UNCHANGED <<diskVars, serverVars, clientVars, kernelVars, forgetting, fault>>
      BY <1>2, <1>3 DEF RequestRead, ClientJob
  <1>6. UNCHANGED <<sLeaf, sHandles, sReads, leaked, cLeaf, index, applying, reqs, known, opened, requests>>
      BY <1>5 DEF serverVars, clientVars, kernelVars
  <1>7. ~Live(k) /\ ~Releases(k) /\ ~Opens(k) /\ Idle(k)
      BY <1>4 DEF Live, Releases, Opens, Idle, RequestOps, AnswerOps
  <1>8. /\ QueueType' /\ Jobs(cQueue') \subseteq Jobs(cQueue)
        /\ Jobs(sQueue') = Jobs(sQueue) \cup {h, k}
        /\ \A n : LiveCount(n) \in Nat /\ LiveCount(n)' = LiveCount(n)
        /\ \A n, O : IsFiniteSet(O) =>
              /\ OwnerSum(n, cQueue, sQueue, O) \in Nat
              /\ OwnerSum(n, cQueue', sQueue', O) = OwnerSum(n, cQueue, sQueue, O)
        /\ \A i : Sum(cQueue, PendingW(i)) = Sum(cQueue', PendingW(i)) + PendingW(i)[h]
      BY <1>1, <1>2, <1>4, <1>5, <1>6, <1>7, ReadSent
  <1>9. TypeInv' /\ TreeInv' /\ Grows
      BY <1>5, <1>6, <1>8, QueueStep
  <1>10. SoundInv'
    <2>1. Sound(k)'
        BY <1>4 DEF Sound, DirOps
    <2>2. \A j \in Jobs(cQueue') \cup Jobs(sQueue') : j \in Jobs(cQueue) \cup Jobs(sQueue) \/ Sound(j)'
        BY <1>2, <1>8, <2>1
    <2> QED
        BY <1>9, <2>2, SoundFrame DEF Inv
  <1>11. RequestInv'
    <2>1. Served(h) /\ Served(k)
      <3>1. ServedByClient(h)
          BY <1>2 DEF Inv, RequestInv
      <3> QED
          BY <1>7, <3>1 DEF Served, ServedByClient
    <2>2. \A n \in Nat : LiveCount(n)' \in Nat /\ LiveCount(n) \in Nat /\ LiveCount(n)' <= LiveCount(n)
        BY <1>8
    <2>3. /\ \A i \in Jobs(cQueue') : i \in Jobs(cQueue) \/ ServedByClient(i)
          /\ \A i \in Jobs(sQueue') \cup sReads' \cup Jobs(applying') :
                 i \in Jobs(sQueue) \cup sReads \cup Jobs(applying) \/ Served(i)
      BY <1>6, <1>8, <2>1
    <2> QED
        BY <1>6, <2>2, <2>3, RequestFrame DEF Inv
  <1>12. HandleInv'
    <2>1. Owned(k)'
        BY <1>7 DEF Owned, Releases, Opens
    <2>2. \A j \in Jobs(cQueue') \cup Jobs(sQueue') : j \in Jobs(cQueue) \cup Jobs(sQueue) \/ Owned(j)'
        BY <1>2, <1>8, <2>1
    <2>3. \A n \in Nat : Owners(n)' \in Nat /\ Owners(n) \in Nat /\ Owners(n)' <= Owners(n)
      <3>1. IsFiniteSet(opened)
          BY DEF Inv, TypeInv, KernelType
      <3>2. \A n : Owners(n) \in Nat /\ Owners(n)' = Owners(n)
          BY <1>6, <1>8, <3>1 DEF Owners
      <3> QED
          BY <3>2
    <2> QED
        BY <1>6, <2>2, <2>3, HandleFrame DEF Inv
  <1>13. RefInv'
    <2>1. ASSUME NEW i PROVE Sum(cQueue', PendingW(i)) = Sum(cQueue, PendingW(i))
      <3>1. PendingW(i)[h] = 0
          BY <1>1, <1>2, NotPending
      <3>2. Sum(cQueue', PendingW(i)) \in Nat
          BY <1>8, PendingSums DEF QueueType
      <3>3. Sum(cQueue, PendingW(i)) = Sum(cQueue', PendingW(i)) + PendingW(i)[h]
          BY <1>8
      <3> QED
          BY <3>1, <3>2, <3>3
    <2>2. fault' # "clientRefs" /\ RefInv
        BY <1>5 DEF Inv, RefInv
    <2> QED
        BY <1>6, <2>1, <2>2, RefFrame
  <1> QED
      BY <1>9, <1>10, <1>11, <1>12, <1>13 DEF Inv

-----------------------------------------------------------------------------
(* What the server's main queue does.                                      *)

\* A handle that is deleted has no other owner, and no answer is about to hand it out.
LEMMA ReleasedAlone ==
    ASSUME Inv, sQueue # <<>>, Releases(Head(sQueue))
    PROVE  /\ \A o \in opened : o.handle # Head(sQueue).x
           /\ \A j \in Jobs(cQueue) \cup Jobs(Tail(sQueue)) :
                 Releases(j) \/ Opens(j) => j.x # Head(sQueue).x
  <1>1. PICK h \in JobType : h = Head(sQueue) /\ h \in Jobs(sQueue)
      BY QueueTail DEF Inv, TypeInv, QueueType
  <1>2. Owned(h) /\ Releases(h)
      BY <1>1 DEF Inv, HandleInv
  <1>3. PICK n \in Nat : n = h.x
      BY <1>2 DEF Owned
  <1>4. /\ Homes(cQueue, sQueue, opened) /\ Homes(cQueue, Tail(sQueue), opened)
        /\ Jobs(Tail(sQueue)) \subseteq Jobs(sQueue)
      BY QueueTail DEF Inv, TypeInv, QueueType, KernelType, Homes
  <1>5. OwnerSum(n, cQueue, Tail(sQueue), opened) = 0
    <2>1. ReleaseW(n)[h] = 1
        BY <1>2, <1>3, Weights
    <2>2. PICK m \in Nat : m = OwnerSum(n, cQueue, Tail(sQueue), opened)
        BY <1>4, OwnerType
    <2>3. Owners(n) = m + ReleaseW(n)[h]
        BY <1>1, <1>4, <2>2, OwnerTaken DEF Owners
    <2>4. Owners(n) <= 1
        BY DEF Inv, HandleInv
    <2> QED
        BY <2>1, <2>2, <2>3, <2>4
  <1>6. /\ \A j \in Jobs(cQueue) \cup Jobs(Tail(sQueue)) : ~(Releases(j) /\ j.x = n)
        /\ \A o \in opened : o.handle # n
      BY <1>4, <1>5, NoOwner
  <1>7. ASSUME NEW j \in Jobs(cQueue) \cup Jobs(Tail(sQueue)), Opens(j) PROVE j.x # n
    <2>1. j.x = j.req
        BY <1>4, <1>7 DEF Inv, HandleInv, Owned
    <2>2. Live(j)
        BY <1>7 DEF Opens, Live, AnswerOps
    <2>3. \E r \in reqs : Serves(j, r)
        BY <1>4, <1>7, <2>2 DEF Inv, RequestInv, Served, ServedByClient
    <2>4. \E r \in reqs : j.req = r.req
        BY <2>3 DEF Serves
    <2> QED
        BY <1>2, <1>3, <2>1, <2>4 DEF Owned
  <1> QED
      BY <1>1, <1>3, <1>6, <1>7

\* A job that is answered: the answer serves what the job has served.
LEMMA Answering ==
    ASSUME Inv, sQueue # <<>>, NEW j \in JobType, j.req = Head(sQueue).req,
           j.op \notin RequestOps \cup {"ReadIn", "ReleaseLeafRef"},
           Live(j) => Answers(j.op, Head(sQueue).op), Sound(j)',
           Opens(j) => j.x = j.req /\ j.x \in sHandles',
           sQueue' = Tail(sQueue), cQueue' = Append(cQueue, j), fault' # "clientRefs",
           UNCHANGED <<diskVars, sReads, clientVars, kernelVars, forgetting>>,
           IsTree(sLeaf'), OneOfAName(sLeaf'), Grows, leaked' \in Nat, sHandles' \subseteq Nat,
           \/ sHandles \subseteq sHandles'
           \/ Releases(Head(sQueue)) /\ sHandles \ {Head(sQueue).x} \subseteq sHandles'
    PROVE  Inv'
  <1>1. PICK h \in JobType : h = Head(sQueue) /\ h \in Jobs(sQueue)
      BY QueueTail DEF Inv, TypeInv, QueueType
  <1>2. UNCHANGED <<cLeaf, index, applying, reqs, known, opened, requests, sReads>>
      BY DEF clientVars, kernelVars
  <1>3. /\ QueueType' /\ Jobs(sQueue') \subseteq Jobs(sQueue) /\ Jobs(cQueue') = Jobs(cQueue) \cup {j}
      BY <1>2, AnsweredWith DEF Inv, TypeInv
  <1>4. TypeInv'
    <2>1. DiskType' /\ IsTree(sLeaf)' /\ IsTree(cLeaf)'
        BY <1>2 DEF Inv, TypeInv, DiskType, diskVars, IsTree
    <2>2. KernelType'
        BY <1>2, KernelFrame DEF Inv, TypeInv
    <2> QED
        BY <1>3, <2>1, <2>2 DEF TypeInv
  <1>5. TreeInv'
      BY <1>2, TreeFrame DEF Inv
  <1>6. SoundInv'
    <2>1. \A i \in Jobs(cQueue') \cup Jobs(sQueue') : i \in Jobs(cQueue) \cup Jobs(sQueue) \/ Sound(i)'
        BY <1>3
    <2> QED
        BY <2>1, SoundFrame DEF Inv
  <1>7. ~Releases(j) /\ ~ReadsHandle(j) /\ j.op \notin {"Read", "ReadIn"}
    <2>1. j.op # "GetAttr" /\ j.op # "Read" /\ j.op # "ReadDirPlus" /\ j.op # "Release" /\ j.op # "ReleaseDir"
        BY DEF RequestOps
    <2> QED
        BY <2>1 DEF Releases, ReadsHandle
  <1>8. RequestInv'
    <2>1. Live(j) => Live(h)
        BY <1>1 DEF Live, Answers, RequestOps
    <2>2. ServedByClient(j)
      <3>1. Served(h)
          BY <1>1 DEF Inv, RequestInv
      <3>2. ASSUME Live(j), NEW r, Serves(h, r) PROVE Serves(j, r)
        <4>1. h.req = r.req /\ (h.op = r.op \/ Answers(h.op, r.op)) /\ Answers(j.op, h.op)
            BY <1>1, <3>2 DEF Serves
        <4>2. h.op = r.op
            BY <4>1 DEF Answers
        <4> QED
            BY <1>1, <1>7, <4>1, <4>2 DEF Serves
      <3> QED
          BY <2>1, <3>1, <3>2 DEF Served, ServedByClient
    <2>3. ASSUME NEW n \in Nat
          PROVE  LiveCount(n)' \in Nat /\ LiveCount(n) \in Nat /\ LiveCount(n)' <= LiveCount(n)
      <3>1. LiveW(n)[j] <= LiveW(n)[h] /\ LiveW(n)[h] \in {0, 1} /\ LiveW(n)[j] \in {0, 1}
          BY <1>1, <2>1, Weights
      <3>2. /\ LiveCount(n)' \in Nat /\ LiveCount(n) \in Nat
            /\ LiveCount(n)' + LiveW(n)[h] = LiveCount(n) + LiveW(n)[j]
          BY <1>1, <1>2, AnsweredWith DEF Inv, TypeInv
      <3> QED
          BY <3>1, <3>2
    <2>4. /\ \A i \in Jobs(cQueue') : i \in Jobs(cQueue) \/ ServedByClient(i)
          /\ \A i \in Jobs(sQueue') \cup sReads' \cup Jobs(applying') :
                 i \in Jobs(sQueue) \cup sReads \cup Jobs(applying) \/ Served(i)
        BY <1>2, <1>3, <2>2
    <2> QED
        BY <1>2, <2>3, <2>4, RequestFrame DEF Inv
  <1>9. HandleInv'
    <2>1. ASSUME NEW n \in Nat
          PROVE  Owners(n)' \in Nat /\ Owners(n) \in Nat /\ Owners(n)' <= Owners(n)
      <3>1. ReleaseW(n)[j] = 0 /\ ReleaseW(n)[h] \in {0, 1}
          BY <1>7, Weights
      <3>2. PICK O : O = opened /\ IsFiniteSet(O)
          BY DEF Inv, TypeInv, KernelType
      <3>3. /\ OwnerSum(n, cQueue', sQueue', O) \in Nat /\ OwnerSum(n, cQueue, sQueue, O) \in Nat
            /\ OwnerSum(n, cQueue', sQueue', O) + ReleaseW(n)[h] = OwnerSum(n, cQueue, sQueue, O) + ReleaseW(n)[j]
          BY <1>1, <1>2, <3>2, AnsweredWith DEF Inv, TypeInv
      <3>4. Owners(n)' = OwnerSum(n, cQueue', sQueue', O) /\ Owners(n) = OwnerSum(n, cQueue, sQueue, O)
          BY <1>2, <3>2 DEF Owners
      <3> QED
          BY <3>1, <3>3, <3>4
    <2>2. Owned(j)'
        BY <1>7 DEF Owned, Opens
    <2>3. CASE sHandles \subseteq sHandles'
      <3>1. \A i \in Jobs(cQueue') \cup Jobs(sQueue') : i \in Jobs(cQueue) \cup Jobs(sQueue) \/ Owned(i)'
          BY <1>3, <2>2
      <3> QED
          BY <1>2, <2>1, <2>3, <3>1, HandleFrame DEF Inv
    <2>4. CASE Releases(h) /\ sHandles \ {h.x} \subseteq sHandles'
      <3>1. /\ \A o \in opened : o.handle # h.x
            /\ \A i \in Jobs(cQueue) \cup Jobs(sQueue') : Releases(i) \/ Opens(i) => i.x # h.x
          BY <1>1, <2>4, ReleasedAlone
      <3>2. ASSUME NEW i \in Jobs(cQueue) \cup Jobs(sQueue') PROVE Owned(i)'
        <4>1. Owned(i)
            BY <1>3 DEF Inv, HandleInv
        <4> QED
            BY <1>2, <2>4, <3>1, <4>1 DEF Owned
      <3>3. Jobs(cQueue)' = Jobs(cQueue') /\ Jobs(sQueue)' = Jobs(sQueue')
          BY DEF Jobs
      <3>4. \A i \in (Jobs(cQueue) \cup Jobs(sQueue))' : Owned(i)'
          BY <1>3, <2>2, <3>2, <3>3
      <3>5. /\ \A o \in opened' : o.handle \in sHandles'
            /\ \A o \in opened', r \in reqs' : o.handle # r.req
          BY <1>2, <2>4, <3>1 DEF Inv, HandleInv
      <3>6. \A n \in Nat : Owners(n)' <= 1
        <4> SUFFICES ASSUME NEW n \in Nat PROVE Owners(n)' <= 1
            OBVIOUS
        <4>1. Owners(n) <= 1
            BY DEF Inv, HandleInv
        <4>2. Owners(n)' \in Nat /\ Owners(n) \in Nat /\ Owners(n)' <= Owners(n)
            BY <2>1
        <4> QED
            BY <4>1, <4>2
      <3> QED
          BY <3>4, <3>5, <3>6, Zenon DEF HandleInv
    <2> QED
        BY <1>1, <2>3, <2>4
  <1>10. RefInv'
    <2>1. ASSUME NEW i PROVE Sum(cQueue', PendingW(i)) = Sum(cQueue, PendingW(i))
      <3>1. PendingW(i)[j] = 0
          BY NotPending
      <3>2. Sum(cQueue', PendingW(i)) = Sum(cQueue, PendingW(i)) + PendingW(i)[j]
          BY <1>1, <1>2, AnsweredWith DEF Inv, TypeInv
      <3>3. Sum(cQueue, PendingW(i)) \in Nat
          BY PendingSums DEF Inv, TypeInv, QueueType
      <3> QED
          BY <3>1, <3>2, <3>3
    <2> QED
        BY <1>2, <2>1, RefFrame DEF Inv
  <1> QED
      BY <1>4, <1>5, <1>6, <1>8, <1>9, <1>10 DEF Inv

LEMMA SameNames ==
    ASSUME NEW t, NEW u, DOMAIN u = DOMAIN t, OneOfAName(t),
           \A i \in DOMAIN t : u[i].name = t[i].name /\ u[i].linked = t[i].linked
    PROVE  OneOfAName(u)
  BY DEF OneOfAName

LEMMA ServerHeadFacts ==
    ASSUME Inv, sQueue # <<>>
    PROVE  /\ Head(sQueue) \in JobType /\ Head(sQueue) \in Jobs(sQueue) /\ Sound(Head(sQueue))
           /\ Owned(Head(sQueue)) /\ Served(Head(sQueue))
           /\ Head(sQueue).req \in Nat /\ Head(sQueue).leaf \in Nat
  <1>1. Head(sQueue) \in JobType /\ Head(sQueue) \in Jobs(sQueue)
      BY QueueTail DEF Inv, TypeInv, QueueType
  <1> QED
      BY <1>1, FieldTypes DEF Inv, SoundInv, HandleInv, RequestInv

\* The reply of a handler.
LEMMA Replied ==
    ASSUME Inv, sQueue # <<>>, NEW op \in Ops, NEW x \in Payloads, ServerDone(<<>>, Reply(op, x))
    PROVE  \E j \in JobType :
              /\ j.op = op /\ j.req = Head(sQueue).req /\ j.leaf = Head(sQueue).leaf /\ j.x = x
              /\ sQueue' = Tail(sQueue) /\ cQueue' = Append(cQueue, j)
              /\ UNCHANGED <<diskVars, clientVars, kernelVars, forgetting>>
  <1>1. PICK j : j = Job(op, Head(sQueue).req, Head(sQueue).leaf, x)
      OBVIOUS
  <1>2. /\ j \in JobType
        /\ j.op = op /\ j.req = Head(sQueue).req /\ j.leaf = Head(sQueue).leaf /\ j.x = x
      BY <1>1, ServerHeadFacts, JobFields
  <1>3. sQueue' = Tail(sQueue) \o <<>> /\ cQueue' = cQueue \o <<j>>
      BY <1>1 DEF ServerDone, Reply, ServerJob
  <1>4. Tail(sQueue) \in Seq(JobType) /\ cQueue \in Seq(JobType)
      BY QueueTail DEF Inv, TypeInv, QueueType
  <1>5. sQueue' = Tail(sQueue) /\ cQueue' = Append(cQueue, j)
      BY <1>2, <1>3, <1>4, QueueJobs, QueueAppend
  <1> QED
      BY <1>2, <1>5 DEF ServerDone

\* A tree in which leaves were only added and counted.
LEMMA ServerTreeSame ==
    ASSUME Inv, sLeaf' = sLeaf, cLeaf' = cLeaf
    PROVE  IsTree(sLeaf') /\ OneOfAName(sLeaf') /\ Grows
  BY DEF Inv, TypeInv, TreeInv, Grows

LEMMA ServerTreeCounted ==
    ASSUME Inv, NEW c, sLeaf' = AddRef(sLeaf, c), cLeaf' = cLeaf
    PROVE  IsTree(sLeaf') /\ OneOfAName(sLeaf') /\ Grows
  <1>1. IsTree(sLeaf) /\ OneOfAName(sLeaf)
      BY DEF Inv, TypeInv, TreeInv
  <1>2. /\ IsTree(sLeaf') /\ DOMAIN sLeaf' = DOMAIN sLeaf
        /\ \A i \in DOMAIN sLeaf : /\ sLeaf'[i].name = sLeaf[i].name
                                   /\ sLeaf'[i].linked = sLeaf[i].linked
      BY <1>1, AddRefFacts
  <1>3. OneOfAName(sLeaf')
      BY <1>1, <1>2, SameNames
  <1> QED
      BY <1>2, <1>3 DEF Grows

LEMMA ServerTreeReleased ==
    ASSUME Inv, NEW n \in Nat, sQueue # <<>>, ServerReleases(n), cLeaf' = cLeaf
    PROVE  IsTree(sLeaf') /\ OneOfAName(sLeaf') /\ Grows /\ fault' # "clientRefs"
  <1>1. IsTree(sLeaf) /\ OneOfAName(sLeaf) /\ fault # "clientRefs"
      BY DEF Inv, TypeInv, TreeInv, RefInv
  <1>2. CASE Released(n)
    <2>1. PICK c : c = ServerJob.leaf
        OBVIOUS
    <2>2. sLeaf[c].refs >= n /\ sLeaf' = ReleaseRef(sLeaf, c, n) /\ fault' = fault
        BY <1>2, <2>1 DEF ServerReleases, Released
    <2>3. /\ IsTree(sLeaf') /\ DOMAIN sLeaf' = DOMAIN sLeaf
          /\ \A i \in DOMAIN sLeaf : /\ sLeaf'[i].name = sLeaf[i].name
                                     /\ sLeaf'[i].linked = sLeaf[i].linked
        BY <1>1, <2>2, ReleaseRefFacts
    <2>4. OneOfAName(sLeaf')
        BY <1>1, <2>3, SameNames
    <2> QED
        BY <1>1, <2>2, <2>3, <2>4 DEF Grows
  <1>3. CASE ~Released(n)
    <2>1. sLeaf' = sLeaf /\ fault' = "serverRefs"
        BY <1>3 DEF ServerReleases, Fail
    <2> QED
        BY <2>1, ServerTreeSame
  <1> QED
      BY <1>2, <1>3

LEMMA ResponseLookupKeeps ==
    ASSUME Inv, ResponseLookup
    PROVE  Inv'
  <1>1. sQueue # <<>> /\ Head(sQueue).op = "Lookup" /\ UNCHANGED <<sHandles, sReads, leaked, fault>>
      BY DEF ResponseLookup, ServerLeaf, ServerHead
  <1>2. Head(sQueue).leaf = Dir /\ Head(sQueue).x \in Files
      BY <1>1, ServerHeadFacts DEF Sound, DirOps
  <1>3. PICK f \in Files : f = Head(sQueue).x
      BY <1>2
  <1>4. f \in Names
      BY DEF Names
  <1>5. /\ IsTree(sLeaf) /\ OneOfAName(sLeaf) /\ fault # "clientRefs" /\ leaked \in Nat
        /\ sHandles \subseteq Nat
      BY DEF Inv, TypeInv, TreeInv, RefInv, KernelType
  <1>6. CASE f \in disk
    <2>1. PICK u, c : u = AddChild(sLeaf, f) /\ c = Find(u, f)
        OBVIOUS
    <2>2. /\ IsTree(u) /\ DOMAIN sLeaf \subseteq DOMAIN u /\ (\A i \in DOMAIN sLeaf : u[i] = sLeaf[i])
          /\ c \in DOMAIN u /\ c # Dir /\ u[c].name = f /\ OneOfAName(u)
        BY <1>4, <1>5, <2>1, AddChildFacts
    <2>3. c \in Nat
        BY <2>2, LeafFields
    <2>4. PICK x : x = [name |-> f, leaf |-> c]
        OBVIOUS
    <2>5. x \in Entries /\ x.name = f /\ x.leaf = c
        BY <1>4, <2>3, <2>4 DEF Entries
    <2>6. sLeaf' = AddRef(u, c) /\ ServerDone(<<>>, Reply("LookupIn", x))
        BY <1>3, <1>6, <2>1, <2>4 DEF ResponseLookup, ServerJob
    <2>7. PICK j \in JobType :
             /\ j.op = "LookupIn" /\ j.req = Head(sQueue).req /\ j.leaf = Head(sQueue).leaf /\ j.x = x
             /\ sQueue' = Tail(sQueue) /\ cQueue' = Append(cQueue, j)
             /\ UNCHANGED <<diskVars, clientVars, kernelVars, forgetting>>
      <3>1. "LookupIn" \in Ops /\ x \in Payloads
          BY <2>5, PayloadTypes DEF Ops
      <3> QED
          BY <1>1, <2>6, <3>1, Replied
    <2>8. cLeaf' = cLeaf
        BY <2>7 DEF clientVars
    <2>9. /\ IsTree(sLeaf') /\ DOMAIN sLeaf' = DOMAIN u
          /\ \A i \in DOMAIN u : sLeaf'[i].name = u[i].name /\ sLeaf'[i].linked = u[i].linked
        BY <2>2, <2>6, AddRefFacts
    <2>10. OneOfAName(sLeaf')
        BY <2>2, <2>9, SameNames
    <2>11. Grows
        BY <2>2, <2>8, <2>9 DEF Grows
    <2>12. Sound(j)'
        BY <1>2, <2>2, <2>5, <2>7, <2>9 DEF Sound, Named, DirOps
    <2>13. /\ j.op \notin RequestOps \cup {"ReadIn", "ReleaseLeafRef"} /\ ~Opens(j)
           /\ Answers(j.op, Head(sQueue).op)
        BY <1>1, <2>7 DEF RequestOps, Opens, Answers
    <2> QED
        BY <1>1, <1>5, <2>7, <2>9, <2>10, <2>11, <2>12, <2>13, Answering
  <1>7. CASE f \notin disk
    <2>1. PICK x : x = [name |-> f, leaf |-> None]
        OBVIOUS
    <2>2. x \in Entries /\ x.leaf = None
        BY <1>4, <2>1 DEF Entries, None
    <2>3. sLeaf' = sLeaf /\ ServerDone(<<>>, Reply("LookupIn", x))
        BY <1>3, <1>7, <2>1 DEF ResponseLookup, ServerJob
    <2>4. PICK j \in JobType :
             /\ j.op = "LookupIn" /\ j.req = Head(sQueue).req /\ j.leaf = Head(sQueue).leaf /\ j.x = x
             /\ sQueue' = Tail(sQueue) /\ cQueue' = Append(cQueue, j)
             /\ UNCHANGED <<diskVars, clientVars, kernelVars, forgetting>>
      <3>1. "LookupIn" \in Ops /\ x \in Payloads
          BY <2>2, PayloadTypes DEF Ops
      <3> QED
          BY <1>1, <2>3, <3>1, Replied
    <2>5. IsTree(sLeaf') /\ OneOfAName(sLeaf') /\ Grows
        BY <2>3, <2>4, ServerTreeSame DEF clientVars
    <2>6. Sound(j)'
        BY <1>2, <2>2, <2>4 DEF Sound, DirOps
    <2>7. /\ j.op \notin RequestOps \cup {"ReadIn", "ReleaseLeafRef"} /\ ~Opens(j)
          /\ Answers(j.op, Head(sQueue).op)
        BY <1>1, <2>4 DEF RequestOps, Opens, Answers
    <2> QED
        BY <1>1, <1>5, <2>4, <2>5, <2>6, <2>7, Answering
  <1> QED
      BY <1>6, <1>7

LEMMA ResponseOpenKeeps ==
    ASSUME Inv, ResponseOpen \/ ResponseOpenDir
    PROVE  Inv'
  <1>1. sQueue # <<>> /\ UNCHANGED <<sReads, fault>>
      BY DEF ResponseOpen, ResponseOpenDir, ServerLeaf, ServerHead
  <1>2. PICK op, a : \/ op = "Open" /\ a = "OpenIn" /\ ResponseOpen
                     \/ op = "OpenDir" /\ a = "OpenDirIn" /\ ResponseOpenDir
      OBVIOUS
  <1>3. Head(sQueue).op = op /\ a \in Ops /\ Answers(a, op)
      BY <1>2 DEF ResponseOpen, ResponseOpenDir, ServerLeaf, ServerHead, Ops, Answers
  <1>4. PICK n \in Nat : n = Head(sQueue).req
      BY <1>1, ServerHeadFacts
  <1>5. PICK x : /\ x \in {n, None}
                 /\ ServerDone(<<>>, Reply(a, x))
                 /\ x # None => sHandles' = sHandles \cup {n}
                 /\ sHandles' \in {sHandles, sHandles \cup {n}}
                 /\ leaked' \in {leaked, leaked + 1}
                 /\ sLeaf' = sLeaf \/ \E c : sLeaf' = AddRef(sLeaf, c)
    <2>1. CASE ResponseOpen /\ a = "OpenIn"
      <3>1. CASE /\ sLeaf' = AddRef(sLeaf, ServerJob.leaf)
                 /\ sHandles' = sHandles \cup {ServerJob.req}
                 /\ ServerDone(<<>>, Reply("OpenIn", ServerJob.req))
          BY <1>4, <2>1, <3>1 DEF ResponseOpen, ServerJob
      <3>2. CASE ServerDone(<<>>, Reply("OpenIn", None)) /\ UNCHANGED <<sLeaf, sHandles>>
          BY <2>1, <3>2 DEF ResponseOpen
      <3> QED
          BY <2>1, <3>1, <3>2 DEF ResponseOpen
    <2>2. CASE ResponseOpenDir /\ a = "OpenDirIn"
      <3>1. CASE /\ sHandles' = sHandles \cup {ServerJob.req}
                 /\ ServerDone(<<>>, Reply("OpenDirIn", ServerJob.req)) /\ UNCHANGED leaked
          BY <1>4, <2>2, <3>1 DEF ResponseOpenDir, ServerJob
      <3>2. CASE /\ leaked' = leaked + 1
                 /\ ServerDone(<<>>, Reply("OpenDirIn", None)) /\ UNCHANGED sHandles
          BY <2>2, <3>2 DEF ResponseOpenDir
      <3> QED
          BY <2>2, <3>1, <3>2 DEF ResponseOpenDir
    <2> QED
        BY <1>2, <2>1, <2>2
  <1>6. x \in Nat /\ x \in Payloads
      BY <1>5, PayloadTypes DEF None
  <1>7. PICK j \in JobType :
           /\ j.op = a /\ j.req = Head(sQueue).req /\ j.leaf = Head(sQueue).leaf /\ j.x = x
           /\ sQueue' = Tail(sQueue) /\ cQueue' = Append(cQueue, j)
           /\ UNCHANGED <<diskVars, clientVars, kernelVars, forgetting>>
      BY <1>1, <1>3, <1>5, <1>6, Replied
  <1>8. cLeaf' = cLeaf
      BY <1>7 DEF clientVars
  <1>9. IsTree(sLeaf') /\ OneOfAName(sLeaf') /\ Grows
      BY <1>5, <1>8, ServerTreeSame, ServerTreeCounted
  <1>10. fault' # "clientRefs" /\ leaked' \in Nat /\ sHandles \subseteq sHandles' /\ sHandles' \subseteq Nat
    <2>1. leaked \in Nat /\ sHandles \subseteq Nat /\ fault # "clientRefs"
        BY DEF Inv, TypeInv, KernelType, RefInv
    <2>2. leaked' \in Nat
        BY <1>5, <2>1
    <2>3. sHandles \subseteq sHandles' /\ sHandles' \subseteq Nat
        BY <1>5, <2>1
    <2> QED
        BY <1>1, <2>1, <2>2, <2>3
  <1>11. Sound(j)' /\ j.op \notin RequestOps \cup {"ReadIn", "ReleaseLeafRef"}
      BY <1>2, <1>7 DEF Sound, DirOps, RequestOps
  <1>12. Opens(j) => j.x = j.req /\ j.x \in sHandles'
      BY <1>4, <1>5, <1>7 DEF Opens
  <1> QED
      BY <1>1, <1>3, <1>7, <1>9, <1>10, <1>11, <1>12, Answering

LEMMA ResponseReleaseKeeps ==
    ASSUME Inv, ResponseForgetMulti \/ ResponseRelease \/ ResponseReleaseDir \/ ResponseGetAttr
    PROVE  Inv'
  <1>1. sQueue # <<>> /\ UNCHANGED <<sReads, leaked>>
      BY DEF ResponseForgetMulti, ResponseRelease, ResponseReleaseDir, ResponseGetAttr, serverVars,
             ServerLeaf, ServerHead
  <1>2. PICK op, a : \/ op = "ForgetMulti" /\ a = "ForgetMultiIn" /\ ResponseForgetMulti
                     \/ op = "Release" /\ a = "ReleaseIn" /\ ResponseRelease
                     \/ op = "ReleaseDir" /\ a = "ReleaseDirIn" /\ ResponseReleaseDir
                     \/ op = "GetAttr" /\ a = "GetAttrIn" /\ ResponseGetAttr
      OBVIOUS
  <1>3. Head(sQueue).op = op
      BY <1>2 DEF ResponseForgetMulti, ResponseRelease, ResponseReleaseDir, ResponseGetAttr,
                  ServerLeaf, ServerHead
  <1>4. ServerDone(<<>>, Reply(a, None))
      BY <1>2 DEF ResponseForgetMulti, ResponseRelease, ResponseReleaseDir, ResponseGetAttr
  <1>5. a \in Ops /\ None \in Payloads
      BY <1>2, PayloadTypes DEF Ops, None
  <1>6. PICK j \in JobType :
           /\ j.op = a /\ j.req = Head(sQueue).req /\ j.leaf = Head(sQueue).leaf /\ j.x = None
           /\ sQueue' = Tail(sQueue) /\ cQueue' = Append(cQueue, j)
           /\ UNCHANGED <<diskVars, clientVars, kernelVars, forgetting>>
      BY <1>1, <1>4, <1>5, Replied
  <1>7. cLeaf' = cLeaf
      BY <1>6 DEF clientVars
  <1>8. IsTree(sLeaf') /\ OneOfAName(sLeaf') /\ Grows /\ fault' # "clientRefs"
    <2>1. CASE op = "ForgetMulti"
      <3>1. ServerReleases(Head(sQueue).x)
          BY <1>2, <2>1 DEF ResponseForgetMulti, ServerJob
      <3>2. Head(sQueue).x \in Nat
          BY <1>1, <1>3, <2>1, ServerHeadFacts DEF Sound
      <3> QED
          BY <1>1, <1>7, <3>1, <3>2, ServerTreeReleased
    <2>2. CASE op \in {"Release", "ReleaseDir"}
      <3>1. ServerReleases(1)
          BY <1>2, <2>2 DEF ResponseRelease, ResponseReleaseDir
      <3> QED
          BY <1>1, <1>7, <3>1, ServerTreeReleased
    <2>3. CASE op = "GetAttr"
      <3>1. sLeaf' = sLeaf /\ fault' = fault /\ fault # "clientRefs"
          BY <1>2, <2>3 DEF ResponseGetAttr, serverVars, Inv, RefInv
      <3> QED
          BY <1>7, <3>1, ServerTreeSame
    <2> QED
        BY <1>2, <2>1, <2>2, <2>3
  <1>9. \/ sHandles' = sHandles
        \/ Releases(Head(sQueue)) /\ sHandles' = sHandles \ {Head(sQueue).x}
      BY <1>2, <1>3 DEF ResponseForgetMulti, ResponseRelease, ResponseReleaseDir, ResponseGetAttr,
                        serverVars, Releases, ServerJob
  <1>10. /\ sHandles' \subseteq Nat /\ leaked' \in Nat
         /\ \/ sHandles \subseteq sHandles'
            \/ Releases(Head(sQueue)) /\ sHandles \ {Head(sQueue).x} \subseteq sHandles'
    <2>1. sHandles \subseteq Nat /\ leaked \in Nat
        BY DEF Inv, TypeInv, KernelType
    <2> QED
        BY <1>1, <1>9, <2>1
  <1>11. Sound(j)' /\ j.op \notin RequestOps \cup {"ReadIn", "ReleaseLeafRef"} /\ ~Opens(j)
    <2>1. op = "ForgetMulti" => j.req = 0
        BY <1>1, <1>3, <1>6, ServerHeadFacts DEF Sound
    <2> QED
        BY <1>2, <1>6, <2>1 DEF Sound, DirOps, RequestOps, Opens
  <1>12. Live(j) => Answers(j.op, Head(sQueue).op)
      BY <1>2, <1>3, <1>6 DEF Answers, Live, RequestOps, AnswerOps
  <1> QED
      BY <1>1, <1>6, <1>8, <1>10, <1>11, <1>12, Answering

\* The tree and the listing that the directory's handler makes.
GivenOut(given, x) ==
    /\ given = {i \in DOMAIN Rescan : i # Dir /\ Rescan[i].linked}
    /\ x = {[name |-> Rescan[i].name, leaf |-> i] : i \in given}
    /\ sLeaf' = [i \in DOMAIN Rescan |->
                    IF i \in given THEN [Rescan[i] EXCEPT !.refs = @ + 1] ELSE Rescan[i]]
LEMMA Listed ==
    ASSUME Inv, NEW given, NEW x, GivenOut(given, x), cLeaf' = cLeaf
    PROVE  /\ IsTree(sLeaf') /\ OneOfAName(sLeaf') /\ Grows
           /\ x \in Listings /\ IsFiniteSet(x) /\ (\A e \in x : Named(e)')
           /\ \A e, g \in x : e.name = g.name => e = g
  <1>0. /\ given = {i \in DOMAIN Rescan : i # Dir /\ Rescan[i].linked}
        /\ x = {[name |-> Rescan[i].name, leaf |-> i] : i \in given}
        /\ sLeaf' = [i \in DOMAIN Rescan |->
                        IF i \in given THEN [Rescan[i] EXCEPT !.refs = @ + 1] ELSE Rescan[i]]
      BY Zenon DEF GivenOut
  <1>1. PICK u : u = Rescan
      OBVIOUS
  <1>2. /\ IsTree(u) /\ DOMAIN sLeaf \subseteq DOMAIN u /\ (\A i \in DOMAIN sLeaf : u[i] = sLeaf[i])
        /\ OneOfAName(u)
    <2>1. IsTree(sLeaf) /\ OneOfAName(sLeaf) /\ disk \subseteq Files
        BY DEF Inv, TypeInv, TreeInv, DiskType
    <2> QED
        BY <1>1, <2>1, RescanFacts
  <1>3. DOMAIN u = 1..Len(u) /\ Len(u) \in Nat /\ Dir \in DOMAIN u
      BY <1>2 DEF IsTree
  <1>4. PICK v : v = sLeaf'
      OBVIOUS
  <1>5. /\ DOMAIN v = DOMAIN u
        /\ \A i \in DOMAIN u : v[i] = IF i \in given THEN [u[i] EXCEPT !.refs = @ + 1] ELSE u[i]
      BY <1>0, <1>1, <1>4
  <1>6. ASSUME NEW i \in DOMAIN u
        PROVE  v[i] \in LeafType /\ v[i].name = u[i].name /\ v[i].linked = u[i].linked
    <2>1. u[i] \in LeafType /\ u[i].refs \in Nat
        BY <1>2, <1>6, LeafFields
    <2>2. PICK m \in Nat : m = u[i].refs + 1
        BY <2>1
    <2>3. v[i] = [u[i] EXCEPT !.refs = m] \/ v[i] = u[i]
        BY <1>5, <2>2
    <2>4. CASE v[i] = [u[i] EXCEPT !.refs = m]
        BY <2>1, <2>4 DEF LeafType
    <2> QED
        BY <2>1, <2>3, <2>4
  <1>7. IsTree(v) /\ OneOfAName(v)
    <2>1. v \in [1..Len(u) -> LeafType]
        BY <1>0, <1>1, <1>3, <1>4, <1>5, <1>6
    <2>2. IsTree(v)
        BY <1>3, <2>1 DEF IsTree
    <2>3. OneOfAName(v)
        BY <1>2, <1>5, <1>6, SameNames
    <2> QED
        BY <2>2, <2>3
  <1>8. Grows
    <2>1. \A i \in DOMAIN sLeaf : i \in DOMAIN v /\ v[i].name = sLeaf[i].name
        BY <1>2, <1>5, <1>6
    <2> QED
        BY <1>4, <2>1 DEF Grows
  <1>9. given \subseteq DOMAIN u /\ \A i \in given : i # Dir /\ u[i].linked
      BY <1>0, <1>1
  <1>10. IsFiniteSet(x)
    <2>1. IsFiniteSet(DOMAIN u)
        BY <1>3, FS_Interval
    <2>2. IsFiniteSet(given)
        BY <1>9, <2>1, FS_Subset
    <2>3. PICK f : f = [i \in given |-> [name |-> Rescan[i].name, leaf |-> i]]
        OBVIOUS
    <2>4. x = {f[i] : i \in given}
        BY <1>0, <2>3
    <2>5. f \in Surjection(given, x)
        BY <2>3, <2>4 DEF Surjection
    <2> QED
        BY <2>2, <2>5, FS_Surjection
  <1>11. ASSUME NEW e \in x
         PROVE  \E i \in given : /\ i \in DOMAIN u /\ i # Dir /\ i \in Nat /\ u[i].linked /\ u[i].name \in Names
                                 /\ e = [name |-> u[i].name, leaf |-> i]
    <2>1. PICK i \in given : e = [name |-> u[i].name, leaf |-> i]
        BY <1>0, <1>1
    <2>2. i \in DOMAIN u /\ i # Dir /\ u[i].linked
        BY <1>9
    <2>3. i \in Nat /\ u[i].name \in Names
        BY <1>2, <2>2, LeafFields
    <2> QED
        BY <2>1, <2>2, <2>3
  <1>12. x \in Listings
    <2>1. ASSUME NEW e \in x PROVE e \in Entries
        BY <1>11, <2>1 DEF Entries
    <2> QED
        BY <2>1 DEF Listings
  <1>13. ASSUME NEW e \in x PROVE Named(e)'
    <2>1. PICK i \in DOMAIN u : i # Dir /\ e.name = u[i].name /\ e.leaf = i
        BY <1>11
    <2> QED
        BY <1>4, <1>5, <1>6, <2>1 DEF Named
  <1>14. ASSUME NEW e \in x, NEW g \in x, e.name = g.name PROVE e = g
    <2>1. PICK i \in DOMAIN u : i # Dir /\ u[i].linked /\ e = [name |-> u[i].name, leaf |-> i]
        BY <1>11
    <2>2. PICK k \in DOMAIN u : k # Dir /\ u[k].linked /\ g = [name |-> u[k].name, leaf |-> k]
        BY <1>11
    <2>3. u[i].name = u[k].name
        BY <1>14, <2>1, <2>2
    <2>4. i = k
        BY <1>2, <2>1, <2>2, <2>3 DEF OneOfAName
    <2> QED
        BY <2>1, <2>2, <2>4
  <1> QED
      BY <1>4, <1>7, <1>8, <1>10, <1>12, <1>13, <1>14

LEMMA ResponseReadDirPlusKeeps ==
    ASSUME Inv, ResponseReadDirPlus
    PROVE  Inv'
  <1>1. /\ sQueue # <<>> /\ Head(sQueue).op = "ReadDirPlus"
        /\ UNCHANGED <<sHandles, sReads, leaked, fault>>
      BY DEF ResponseReadDirPlus, ServerLeaf, ServerHead
  <1>2. PICK given : given = {i \in DOMAIN Rescan : i # Dir /\ Rescan[i].linked}
      OBVIOUS
  <1>3. PICK x : x = {[name |-> Rescan[i].name, leaf |-> i] : i \in given}
      OBVIOUS
  <1>4. /\ sLeaf' = [i \in DOMAIN Rescan |->
                        IF i \in given THEN [Rescan[i] EXCEPT !.refs = @ + 1] ELSE Rescan[i]]
        /\ ServerDone(<<>>, Reply("ReadDirPlusIn", x))
      BY <1>2, <1>3, Zenon DEF ResponseReadDirPlus
  <1>5. cLeaf' = cLeaf
      BY <1>4 DEF ServerDone, clientVars
  <1>6. /\ IsTree(sLeaf') /\ OneOfAName(sLeaf') /\ Grows
        /\ x \in Listings /\ IsFiniteSet(x) /\ (\A e \in x : Named(e)')
        /\ \A e, g \in x : e.name = g.name => e = g
    <2>1. GivenOut(given, x)
        BY <1>2, <1>3, <1>4, Zenon DEF GivenOut
    <2> QED
        BY <1>5, <2>1, Listed
  <1>7. PICK j \in JobType :
           /\ j.op = "ReadDirPlusIn" /\ j.req = Head(sQueue).req /\ j.leaf = Head(sQueue).leaf /\ j.x = x
           /\ sQueue' = Tail(sQueue) /\ cQueue' = Append(cQueue, j)
           /\ UNCHANGED <<diskVars, clientVars, kernelVars, forgetting>>
    <2>1. "ReadDirPlusIn" \in Ops /\ x \in Payloads
        BY <1>6, PayloadTypes DEF Ops
    <2> QED
        BY <1>1, <1>4, <2>1, Replied
  <1>8. Sound(j)'
    <2>1. /\ j.x \in Listings /\ IsFiniteSet(j.x) /\ (\A e \in j.x : Named(e)')
          /\ \A e, g \in j.x : e.name = g.name => e = g
        BY <1>6, <1>7
    <2>2. j.op = "ReadDirPlusIn"
        BY <1>7
    <2> QED
        BY <2>1, <2>2 DEF Sound, DirOps
  <1>9. /\ j.op \notin RequestOps \cup {"ReadIn", "ReleaseLeafRef"} /\ ~Opens(j)
        /\ Answers(j.op, Head(sQueue).op)
      BY <1>1, <1>7 DEF RequestOps, Opens, Answers
  <1>10. fault' # "clientRefs" /\ leaked' \in Nat /\ sHandles' \subseteq Nat /\ sHandles \subseteq sHandles'
      BY <1>1 DEF Inv, TypeInv, KernelType, RefInv
  <1> QED
      BY <1>1, <1>6, <1>7, <1>8, <1>9, <1>10, Answering

LEMMA SendNotifyInvalEntryKeeps ==
    ASSUME Inv, SendNotifyInvalEntry
    PROVE  Inv'
  <1>1. sQueue # <<>> /\ Head(sQueue).op = "NotifyEntry"
      BY DEF SendNotifyInvalEntry, ServerHead
  <1>2. UNCHANGED <<sLeaf, sHandles, sReads, leaked, fault>>
      BY DEF SendNotifyInvalEntry, serverVars
  <1>3. PICK j \in JobType : j = Head(sQueue)
      BY <1>1, ServerHeadFacts
  <1>4. /\ sQueue' = Tail(sQueue) /\ cQueue' = Append(cQueue, j)
        /\ UNCHANGED <<diskVars, clientVars, kernelVars, forgetting>>
    <2>1. /\ sQueue' = Tail(sQueue) \o <<>> /\ cQueue' = cQueue \o <<j>>
          /\ UNCHANGED <<diskVars, clientVars, kernelVars, forgetting>>
        BY <1>3 DEF SendNotifyInvalEntry, ServerDone, ServerJob
    <2>2. Tail(sQueue) \in Seq(JobType) /\ cQueue \in Seq(JobType)
        BY <1>1, QueueTail DEF Inv, TypeInv, QueueType
    <2> QED
        BY <2>1, <2>2, QueueJobs, QueueAppend
  <1>5. IsTree(sLeaf') /\ OneOfAName(sLeaf') /\ Grows
      BY <1>2, <1>4, ServerTreeSame DEF clientVars
  <1>6. Sound(j)'
      BY <1>1, <1>3, <1>5, ServerHeadFacts, SoundStays
  <1>7. j.op \notin RequestOps \cup {"ReadIn", "ReleaseLeafRef"} /\ ~Opens(j) /\ ~Live(j)
      BY <1>1, <1>3 DEF RequestOps, AnswerOps, Opens, Live
  <1>8. fault' # "clientRefs" /\ leaked' \in Nat /\ sHandles' \subseteq Nat /\ sHandles \subseteq sHandles'
      BY <1>2 DEF Inv, TypeInv, KernelType, RefInv
  <1> QED
      BY <1>1, <1>2, <1>3, <1>4, <1>5, <1>6, <1>7, <1>8, Answering

LEMMA ResponseReadAllocKeeps ==
    ASSUME Inv, ResponseReadAlloc
    PROVE  Inv'
  <1>1. sQueue # <<>> /\ QueueType
      BY DEF ResponseReadAlloc, ServerHead, Inv, TypeInv
  <1>2. PICK h \in JobType : h = Head(sQueue) /\ h \in Jobs(sQueue)
      BY <1>1, ServerHeadFacts
  <1>3. /\ sQueue' = Tail(sQueue) /\ cQueue' = cQueue /\ sReads' = sReads \cup {Head(sQueue)}
        /\ UNCHANGED <<diskVars, clientVars, kernelVars, forgetting, sLeaf, sHandles, leaked, fault>>
    <2>1. /\ sQueue' = Tail(sQueue) \o <<>> /\ cQueue' = cQueue \o <<>>
          /\ UNCHANGED <<diskVars, clientVars, kernelVars, forgetting>>
        BY DEF ResponseReadAlloc, ServerDone
    <2>2. Tail(sQueue) \in Seq(JobType) /\ cQueue \in Seq(JobType)
        BY <1>1, QueueTail DEF QueueType
    <2>3. sQueue' = Tail(sQueue) /\ cQueue' = cQueue
        BY <2>1, <2>2, QueueJobs
    <2> QED
        BY <2>1, <2>3 DEF ResponseReadAlloc, ServerJob
  <1>4. UNCHANGED <<cLeaf, index, applying, reqs, known, opened, requests>>
      BY <1>3 DEF clientVars, kernelVars
  <1>5. /\ QueueType' /\ Jobs(sQueue') \subseteq Jobs(sQueue)
        /\ \A n : LiveCount(n) \in Nat /\ LiveCount(n)' \in Nat /\ LiveCount(n)' <= LiveCount(n)
        /\ \A n, O : IsFiniteSet(O) =>
              /\ OwnerSum(n, cQueue, sQueue, O) \in Nat /\ OwnerSum(n, cQueue', sQueue', O) \in Nat
              /\ OwnerSum(n, cQueue', sQueue', O) <= OwnerSum(n, cQueue, sQueue, O)
      BY <1>1, <1>3, <1>4, HandedToDisk
  <1>6. TypeInv' /\ TreeInv' /\ Grows
      BY <1>3, <1>4, <1>5, QueueStep
  <1>7. SoundInv'
    <2>1. \A j \in Jobs(cQueue') \cup Jobs(sQueue') : j \in Jobs(cQueue) \cup Jobs(sQueue) \/ Sound(j)'
        BY <1>3, <1>5
    <2> QED
        BY <1>6, <2>1, SoundFrame DEF Inv
  <1>8. RequestInv'
    <2>1. /\ \A i \in Jobs(cQueue') : i \in Jobs(cQueue) \/ ServedByClient(i)
          /\ \A i \in Jobs(sQueue') \cup sReads' \cup Jobs(applying') :
                 i \in Jobs(sQueue) \cup sReads \cup Jobs(applying) \/ Served(i)
        BY <1>2, <1>3, <1>4, <1>5
    <2> QED
        BY <1>4, <1>5, <2>1, RequestFrame DEF Inv
  <1>9. HandleInv'
    <2>1. \A n \in Nat : Owners(n)' \in Nat /\ Owners(n) \in Nat /\ Owners(n)' <= Owners(n)
      <3>1. IsFiniteSet(opened)
          BY DEF Inv, TypeInv, KernelType
      <3> QED
          BY <1>4, <1>5, <3>1 DEF Owners
    <2>2. \A j \in Jobs(cQueue') \cup Jobs(sQueue') : j \in Jobs(cQueue) \cup Jobs(sQueue) \/ Owned(j)'
        BY <1>3, <1>5
    <2>3. sHandles \subseteq sHandles'
        BY <1>3
    <2> QED
        BY <1>4, <2>1, <2>2, <2>3, HandleFrame DEF Inv
  <1>10. RefInv'
    <2>1. \A i : Sum(cQueue', PendingW(i)) = Sum(cQueue, PendingW(i))
        BY <1>3
    <2>2. fault' # "clientRefs" /\ RefInv
        BY <1>3 DEF Inv, RefInv
    <2> QED
        BY <1>4, <2>1, <2>2, RefFrame
  <1> QED
      BY <1>6, <1>7, <1>8, <1>9, <1>10 DEF Inv

\* What a disk thread writes when it has the handle: the data, or the error.
LEMMA ReadAnswer ==
    ASSUME NEW r \in JobType, ResponseReadFile(r), r.x \in sHandles
    PROVE  \E op \in Ops : /\ op \in {"ReadIn", "PrefetchIn", "ReadErrorIn"}
                           /\ op = "ReadIn" => r.op = "Read"
                           /\ cQueue' = Append(cQueue, [r EXCEPT !.op = op]) /\ fault' = fault
  <1>1. PICK op \in Ops : op = IF r.op = "Read" THEN "ReadIn" ELSE "PrefetchIn"
      BY DEF Ops
  <1>2. "ReadErrorIn" \in Ops
      BY DEF Ops
  <1>3. CASE cQueue' = Append(cQueue, [r EXCEPT !.op = op]) /\ fault' = fault
      BY <1>1, <1>3
  <1>4. CASE cQueue' = Append(cQueue, [r EXCEPT !.op = "ReadErrorIn"]) /\ fault' = fault
      BY <1>2, <1>4
  <1>5. \/ /\ cQueue' = Append(cQueue, [r EXCEPT !.op = IF @ = "Read" THEN "ReadIn" ELSE "PrefetchIn"])
           /\ fault' = fault
        \/ cQueue' = Append(cQueue, [r EXCEPT !.op = "ReadErrorIn"]) /\ fault' = fault
      BY DEF ResponseReadFile
  <1>6. \/ cQueue' = Append(cQueue, [r EXCEPT !.op = op]) /\ fault' = fault
        \/ cQueue' = Append(cQueue, [r EXCEPT !.op = "ReadErrorIn"]) /\ fault' = fault
      BY <1>1, <1>5 DEF JobType
  <1> QED
      BY <1>3, <1>4, <1>6

LEMMA ResponseReadFileKeeps ==
    ASSUME Inv, NEW r \in sReads, ResponseReadFile(r)
    PROVE  Inv'
  <1>1. /\ QueueType /\ sReads' = sReads \ {r} /\ r \in JobType
        /\ UNCHANGED <<diskVars, sLeaf, sHandles, leaked, sQueue, forgetting>>
        /\ UNCHANGED <<cLeaf, index, applying, reqs, known, opened, requests>>
      BY DEF ResponseReadFile, clientVars, kernelVars, Inv, TypeInv, QueueType
  <1>2. CASE r.x \in sHandles
    <2>1. PICK op \in Ops : /\ op \in {"ReadIn", "PrefetchIn", "ReadErrorIn"}
                            /\ op = "ReadIn" => r.op = "Read"
                            /\ cQueue' = Append(cQueue, [r EXCEPT !.op = op]) /\ fault' = fault
        BY <1>1, <1>2, ReadAnswer
    <2>2. PICK j : j = [r EXCEPT !.op = op]
        OBVIOUS
    <2>3. j \in JobType /\ j.op = op /\ j.leaf = r.leaf /\ j.req = r.req /\ j.x = r.x
        BY <1>1, <2>2, JobWithOp
    <2>4. cQueue' = Append(cQueue, j) /\ fault' = fault
        BY <2>1, <2>2, Zenon
    <2>5. /\ ~Releases(j) /\ ~Opens(j) /\ (Live(j) => Live(r) /\ r.op = "Read" /\ j.op = "ReadIn")
          /\ Sound(j)' /\ j.op # "ReleaseLeafRef" /\ j.op \notin RequestOps
      <3>1. j.op \in {"ReadIn", "PrefetchIn", "ReadErrorIn"} /\ (j.op = "ReadIn" => r.op = "Read")
          BY <2>1, <2>3, Zenon
      <3>2. ~Releases(j) /\ ~Opens(j) /\ j.op # "ReleaseLeafRef" /\ j.op \notin RequestOps
          BY <3>1 DEF Releases, Opens, RequestOps
      <3>3. Sound(j)'
          BY <3>1 DEF Sound, DirOps
      <3>4. Live(j) => Live(r) /\ r.op = "Read" /\ j.op = "ReadIn"
          BY <3>1 DEF Live, RequestOps, AnswerOps
      <3> QED
          BY <3>2, <3>3, <3>4
    <2>6. /\ QueueType' /\ Jobs(cQueue') = Jobs(cQueue) \cup {j} /\ Jobs(sQueue') = Jobs(sQueue)
          /\ \A n : LiveCount(n) \in Nat /\ LiveCount(n)' \in Nat /\ LiveCount(n)' <= LiveCount(n)
          /\ \A n, O : IsFiniteSet(O) =>
                /\ OwnerSum(n, cQueue, sQueue, O) \in Nat
                /\ OwnerSum(n, cQueue', sQueue', O) = OwnerSum(n, cQueue, sQueue, O)
          /\ \A i : Sum(cQueue', PendingW(i)) = Sum(cQueue, PendingW(i)) + PendingW(i)[j]
        BY <1>1, <2>3, <2>4, <2>5, ReadFromDisk
    <2>7. TypeInv' /\ TreeInv' /\ Grows
        BY <1>1, <2>6, QueueStep
    <2>8. SoundInv'
      <3>1. \A i \in Jobs(cQueue') \cup Jobs(sQueue') : i \in Jobs(cQueue) \cup Jobs(sQueue) \/ Sound(i)'
          BY <2>5, <2>6
      <3> QED
          BY <2>7, <3>1, SoundFrame DEF Inv
    <2>9. RequestInv'
      <3>1. ServedByClient(j)
        <4>1. Served(r)
            BY DEF Inv, RequestInv
        <4>2. ASSUME Live(j), NEW p, Serves(r, p) PROVE Serves(j, p)
          <5>1. r.op = "Read" /\ j.op = "ReadIn"
              BY <2>5, <4>2
          <5>2. p.op = "Read"
              BY <4>2, <5>1 DEF Serves, Answers
          <5> QED
              BY <2>3, <4>2, <5>1, <5>2 DEF Serves, Answers, ReadsHandle
        <4> QED
            BY <2>5, <4>1, <4>2 DEF Served, ServedByClient
      <3>2. /\ \A i \in Jobs(cQueue') : i \in Jobs(cQueue) \/ ServedByClient(i)
            /\ \A i \in Jobs(sQueue') \cup sReads' \cup Jobs(applying') :
                   i \in Jobs(sQueue) \cup sReads \cup Jobs(applying) \/ Served(i)
          BY <1>1, <2>6, <3>1
      <3> QED
          BY <1>1, <2>6, <3>2, RequestFrame DEF Inv
    <2>10. HandleInv'
      <3>1. \A n \in Nat : Owners(n)' \in Nat /\ Owners(n) \in Nat /\ Owners(n)' <= Owners(n)
        <4>1. IsFiniteSet(opened)
            BY DEF Inv, TypeInv, KernelType
        <4>2. \A n : Owners(n) \in Nat /\ Owners(n)' = Owners(n)
            BY <1>1, <2>6, <4>1 DEF Owners
        <4> QED
            BY <4>2
      <3>2. \A i \in Jobs(cQueue') \cup Jobs(sQueue') : i \in Jobs(cQueue) \cup Jobs(sQueue) \/ Owned(i)'
        <4>1. Owned(j)'
            BY <2>5 DEF Owned, Releases, Opens
        <4> QED
            BY <2>6, <4>1
      <3> QED
          BY <1>1, <3>1, <3>2, HandleFrame DEF Inv
    <2>11. RefInv'
      <3>1. ASSUME NEW i PROVE Sum(cQueue', PendingW(i)) = Sum(cQueue, PendingW(i))
        <4>1. PendingW(i)[j] = 0
            BY <2>3, <2>5, NotPending
        <4>2. Sum(cQueue, PendingW(i)) \in Nat
            BY <1>1, PendingSums DEF QueueType
        <4>3. Sum(cQueue', PendingW(i)) = Sum(cQueue, PendingW(i)) + PendingW(i)[j]
            BY <2>6
        <4> QED
            BY <4>1, <4>2, <4>3
      <3>2. fault' # "clientRefs" /\ RefInv
          BY <2>4 DEF Inv, RefInv
      <3> QED
          BY <1>1, <3>1, <3>2, RefFrame
    <2> QED
        BY <2>7, <2>8, <2>9, <2>10, <2>11 DEF Inv
  <1>3. CASE r.x \notin sHandles
    <2>1. cQueue' = cQueue /\ fault' = "readHandle"
        BY <1>3 DEF ResponseReadFile, Fail
    <2>2. /\ QueueType'
          /\ \A n : LiveCount(n) \in Nat /\ LiveCount(n)' \in Nat /\ LiveCount(n)' <= LiveCount(n)
        BY <1>1, <2>1, ReadDropped
    <2>3. TypeInv' /\ TreeInv' /\ Grows
        BY <1>1, <2>2, QueueStep
    <2>4. SoundInv'
      <3>1. \A i \in Jobs(cQueue') \cup Jobs(sQueue') : i \in Jobs(cQueue) \cup Jobs(sQueue) \/ Sound(i)'
          BY <1>1, <2>1
      <3> QED
          BY <2>3, <3>1, SoundFrame DEF Inv
    <2>5. RequestInv'
      <3>1. /\ \A i \in Jobs(cQueue') : i \in Jobs(cQueue) \/ ServedByClient(i)
            /\ \A i \in Jobs(sQueue') \cup sReads' \cup Jobs(applying') :
                   i \in Jobs(sQueue) \cup sReads \cup Jobs(applying) \/ Served(i)
          BY <1>1, <2>1
      <3> QED
          BY <1>1, <2>2, <3>1, RequestFrame DEF Inv
    <2>6. HandleInv'
        BY <1>1, <2>1 DEF Inv, HandleInv, Owned, Owners
    <2>7. RefInv'
      <3>1. \A i : Sum(cQueue', PendingW(i)) = Sum(cQueue, PendingW(i))
          BY <2>1
      <3>2. fault' # "clientRefs" /\ RefInv
          BY <2>1 DEF Inv, RefInv
      <3> QED
          BY <1>1, <3>1, <3>2, RefFrame
    <2> QED
        BY <2>3, <2>4, <2>5, <2>6, <2>7 DEF Inv
  <1> QED
      BY <1>2, <1>3

\* A step that leaves the queues and the kernel alone.
LEMMA QueuesStand ==
    ASSUME Inv, UNCHANGED <<cQueue, sQueue, applying, sReads, kernelVars, forgetting>>,
           UNCHANGED <<sLeaf, sHandles, leaked, cLeaf, index>>, DiskType', fault' # "clientRefs"
    PROVE  Inv'
  <1>1. UNCHANGED <<reqs, known, opened, requests>>
      BY DEF kernelVars
  <1>2. TypeInv'
      BY <1>1 DEF Inv, TypeInv, IsTree, QueueType, KernelType
  <1>3. Grows /\ OneOfAName(sLeaf')
      BY DEF Grows, Inv, TreeInv
  <1>4. TreeInv'
      BY <1>3, TreeFrame DEF Inv
  <1>5. SoundInv'
      BY <1>3, SoundFrame DEF Inv
  <1>6. RequestInv'
    <2>1. \A n : LiveCount(n) \in Nat /\ LiveCount(n)' = LiveCount(n)
      <3>1. Places(cQueue, sQueue, applying, sReads)
          BY QueuesArePlaces DEF Inv, TypeInv
      <3>2. \A n : LiveCount(n) \in Nat
          BY <3>1, LiveType DEF LiveCount
      <3> QED
          BY <3>2 DEF LiveCount
    <2>2. \A n \in Nat : LiveCount(n)' \in Nat /\ LiveCount(n) \in Nat /\ LiveCount(n)' <= LiveCount(n)
        BY <2>1
    <2> QED
        BY <1>1, <2>2, RequestFrame DEF Inv
  <1>7. HandleInv'
      BY <1>1 DEF Inv, HandleInv, Owned, Owners
  <1>8. RefInv'
      BY <1>1, RefFrame DEF Inv
  <1> QED
      BY <1>2, <1>4, <1>5, <1>6, <1>7, <1>8 DEF Inv

LEMMA ServerUsesFreedKeeps ==
    ASSUME Inv, ServerUsesFreed
    PROVE  Inv'
  <1>1. DiskType' /\ fault' # "clientRefs"
      BY DEF ServerUsesFreed, Fail, diskVars, DiskType, Inv, TypeInv
  <1> QED
      BY <1>1, QueuesStand DEF ServerUsesFreed, serverVars, clientVars

LEMMA OpenAssertsKeeps ==
    ASSUME Inv, OpenAsserts
    PROVE  Inv'
  <1>1. DiskType' /\ fault' # "clientRefs"
      BY DEF OpenAsserts, Fail, diskVars, DiskType, Inv, TypeInv
  <1> QED
      BY <1>1, QueuesStand DEF OpenAsserts, serverVars, clientVars

LEMMA ChangeKeeps ==
    ASSUME Inv, NEW f \in Files, CreateFile(f) \/ DeleteFile(f)
    PROVE  Inv'
  <1>1. PICK type \in {"Created", "Deleted"} : Change(type, f)
      BY DEF CreateFile, DeleteFile
  <1>2. DiskType'
    <2>1. events' = Append(events, [type |-> type, name |-> f])
        BY <1>1 DEF Change
    <2>2. [type |-> type, name |-> f] \in [type : {"Created", "Deleted"}, name : Files]
        OBVIOUS
    <2>3. events' \in Seq([type : {"Created", "Deleted"}, name : Files])
        BY <2>1, <2>2 DEF Inv, TypeInv, DiskType
    <2>4. disk' \subseteq Files /\ deleted' \subseteq Files /\ recreated' \in BOOLEAN
        BY DEF CreateFile, DeleteFile, Inv, TypeInv, DiskType
    <2> QED
        BY <2>3, <2>4 DEF DiskType
  <1>3. fault' # "clientRefs"
      BY <1>1 DEF Change, Inv, RefInv
  <1> QED
      BY <1>1, <1>2, <1>3, QueuesStand DEF Change, serverVars, clientVars

\* The event's tree, and what the notification says of it.
LEMMA Followed ==
    ASSUME Inv, NEW type \in {"Created", "Deleted"}, NEW f \in Files, NEW tree, NEW x,
           tree = IF type = "Created" THEN AddChild(sLeaf, f) ELSE RemoveChild(sLeaf, f),
           x = [type |-> type, name |-> f, leaf |-> Find(tree, f)], sLeaf' = tree, cLeaf' = cLeaf
    PROVE  /\ IsTree(sLeaf') /\ OneOfAName(sLeaf') /\ Grows
           /\ x \in Notices /\ x.type = type /\ (type = "Created" => Named(x)')
  <1>1. IsTree(sLeaf) /\ OneOfAName(sLeaf) /\ f \in Names
      BY DEF Inv, TypeInv, TreeInv, Names
  <1>2. PICK c : c = Find(tree, f)
      OBVIOUS
  <1>3. CASE type = "Created"
    <2>1. tree = AddChild(sLeaf, f)
        BY <1>3
    <2>2. /\ IsTree(tree) /\ DOMAIN sLeaf \subseteq DOMAIN tree
          /\ (\A i \in DOMAIN sLeaf : tree[i] = sLeaf[i])
          /\ c \in DOMAIN tree /\ c # Dir /\ tree[c].name = f /\ OneOfAName(tree)
        BY <1>1, <1>2, <2>1, AddChildFacts
    <2>3. c \in Nat
        BY <2>2, LeafFields
    <2>4. x \in Notices /\ x.type = type /\ x.name = f /\ x.leaf = c
        BY <1>2, <2>3 DEF Notices
    <2>5. Grows
        BY <2>2 DEF Grows
    <2>6. Named(x)'
        BY <2>2, <2>4 DEF Named
    <2> QED
        BY <2>2, <2>4, <2>5, <2>6
  <1>4. CASE type = "Deleted"
    <2>1. tree = RemoveChild(sLeaf, f)
        BY <1>4
    <2>2. /\ IsTree(tree) /\ DOMAIN tree = DOMAIN sLeaf /\ OneOfAName(tree)
          /\ \A i \in DOMAIN sLeaf : tree[i].name = sLeaf[i].name
        BY <1>1, <2>1, RemoveChildFacts
    <2>3. c \in Nat
      <3>1. c # None => c \in DOMAIN tree
          BY <1>2, <2>2, FindChild
      <3>2. c \in DOMAIN tree => c \in Nat
          BY <2>2, LeafFields
      <3> QED
          BY <3>1, <3>2 DEF None
    <2>4. x \in Notices /\ x.type = type
        BY <1>2, <2>3 DEF Notices
    <2>5. Grows
        BY <2>2 DEF Grows
    <2> QED
        BY <1>4, <2>2, <2>4, <2>5
  <1> QED
      BY <1>3, <1>4

LEMMA ProcessInotifyEventKeeps ==
    ASSUME Inv, ProcessInotifyEvent
    PROVE  Inv'
  <1>1. /\ events # <<>> /\ events' = Tail(events) /\ QueueType
        /\ UNCHANGED <<disk, changes, deleted, recreated, sHandles, sReads, leaked, cQueue,
                       forgetting, fault, cLeaf, index, applying, reqs, known, opened, requests>>
      BY DEF ProcessInotifyEvent, clientVars, kernelVars, Inv, TypeInv
  <1>2. PICK e \in [type : {"Created", "Deleted"}, name : Files] :
           /\ e = Head(events)
           /\ events' \in Seq([type : {"Created", "Deleted"}, name : Files])
    <2>1. PICK E : E = [type : {"Created", "Deleted"}, name : Files]
        OBVIOUS
    <2>2. events \in Seq(E)
        BY <2>1 DEF Inv, TypeInv, DiskType
    <2>3. Head(events) \in E /\ Tail(events) \in Seq(E)
        BY <1>1, <2>2
    <2> QED
        BY <1>1, <2>1, <2>3
  <1>3. PICK type \in {"Created", "Deleted"}, f \in Files : type = e.type /\ f = e.name
      BY <1>2
  <1>4. PICK tree : tree = IF type = "Created" THEN AddChild(sLeaf, f) ELSE RemoveChild(sLeaf, f)
      OBVIOUS
  <1>5. PICK x : x = [type |-> type, name |-> f, leaf |-> Find(tree, f)]
      OBVIOUS
  <1>6. sLeaf' = tree /\ sQueue' = Append(sQueue, Job("NotifyEntry", 0, Dir, x))
      BY <1>2, <1>3, <1>4, <1>5 DEF ProcessInotifyEvent
  <1>7. /\ IsTree(sLeaf') /\ OneOfAName(sLeaf') /\ Grows
        /\ x \in Notices /\ x.type = type /\ (type = "Created" => Named(x)')
      BY <1>1, <1>4, <1>5, <1>6, Followed
  <1>8. PICK j : j = Job("NotifyEntry", 0, Dir, x)
      OBVIOUS
  <1>9. j \in JobType /\ j.op = "NotifyEntry" /\ j.x = x
    <2>1. "NotifyEntry" \in Ops /\ 0 \in Nat /\ Dir \in Nat /\ x \in Payloads
        BY <1>7, PayloadTypes DEF Ops, Dir
    <2> QED
        BY <1>8, <2>1, JobFields
  <1>10. Sound(j)' /\ Idle(j) /\ ~Opens(j) /\ ~Releases(j)
      BY <1>7, <1>9 DEF Sound, DirOps, Idle, Live, RequestOps, AnswerOps, Releases, Opens
  <1>11. /\ QueueType' /\ Jobs(sQueue') = Jobs(sQueue) \cup {j} /\ Jobs(cQueue') = Jobs(cQueue)
         /\ \A n : LiveCount(n) \in Nat /\ LiveCount(n)' = LiveCount(n)
         /\ \A n, O : IsFiniteSet(O) =>
               /\ OwnerSum(n, cQueue, sQueue, O) \in Nat
               /\ OwnerSum(n, cQueue', sQueue', O) = OwnerSum(n, cQueue, sQueue, O)
      BY <1>1, <1>6, <1>8, <1>9, <1>10, Notified
  <1>12. TypeInv'
    <2>1. DiskType'
        BY <1>1, <1>2 DEF Inv, TypeInv, DiskType
    <2>2. KernelType' /\ IsTree(sLeaf)' /\ IsTree(cLeaf)'
        BY <1>1, <1>7 DEF Inv, TypeInv, KernelType, IsTree
    <2> QED
        BY <1>11, <2>1, <2>2 DEF TypeInv
  <1>13. TreeInv'
      BY <1>1, <1>7, TreeFrame DEF Inv
  <1>14. SoundInv'
    <2>1. \A i \in Jobs(cQueue') \cup Jobs(sQueue') : i \in Jobs(cQueue) \cup Jobs(sQueue) \/ Sound(i)'
        BY <1>10, <1>11
    <2> QED
        BY <1>7, <2>1, SoundFrame DEF Inv
  <1>15. RequestInv'
    <2>1. Served(j)
        BY <1>10 DEF Served, Idle
    <2>2. /\ \A i \in Jobs(cQueue') : i \in Jobs(cQueue) \/ ServedByClient(i)
          /\ \A i \in Jobs(sQueue') \cup sReads' \cup Jobs(applying') :
                 i \in Jobs(sQueue) \cup sReads \cup Jobs(applying) \/ Served(i)
        BY <1>1, <1>11, <2>1
    <2>3. \A n \in Nat : LiveCount(n)' \in Nat /\ LiveCount(n) \in Nat /\ LiveCount(n)' <= LiveCount(n)
        BY <1>11
    <2> QED
        BY <1>1, <2>2, <2>3, RequestFrame DEF Inv
  <1>16. HandleInv'
    <2>1. \A n \in Nat : Owners(n)' \in Nat /\ Owners(n) \in Nat /\ Owners(n)' <= Owners(n)
      <3>1. IsFiniteSet(opened)
          BY DEF Inv, TypeInv, KernelType
      <3>2. \A n : Owners(n) \in Nat /\ Owners(n)' = Owners(n)
          BY <1>1, <1>11, <3>1 DEF Owners
      <3> QED
          BY <3>2
    <2>2. Owned(j)'
        BY <1>10 DEF Owned, Releases, Opens
    <2>3. \A i \in Jobs(cQueue') \cup Jobs(sQueue') : i \in Jobs(cQueue) \cup Jobs(sQueue) \/ Owned(i)'
        BY <1>11, <2>2
    <2> QED
        BY <1>1, <2>1, <2>3, HandleFrame DEF Inv
  <1>17. RefInv'
    <2>1. fault' # "clientRefs" /\ RefInv
        BY <1>1 DEF Inv, RefInv
    <2> QED
        BY <1>1, <2>1, RefFrame
  <1> QED
      BY <1>12, <1>13, <1>14, <1>15, <1>16, <1>17 DEF Inv

-----------------------------------------------------------------------------
(* What the kernel asks for.                                               *)

LEMMA OwnerGone ==
    ASSUME NEW q, NEW p, NEW O, Homes(q, p, O), NEW h, NEW P, Without(O, h, P), NEW n
    PROVE  /\ Homes(q, p, P)
           /\ OwnerSum(n, q, p, O) = OwnerSum(n, q, p, P) + (IF h.handle = n THEN 1 ELSE 0)
  <1>1. h \in O /\ P = O \ {h}
      BY DEF Without
  <1>2. PICK S : S = {o \in O : o.handle = n}
      OBVIOUS
  <1>3. PICK T : T = {o \in P : o.handle = n}
      OBVIOUS
  <1>4. Homes(q, p, P)
      BY <1>1, FS_RemoveElement DEF Homes
  <1>5. PICK w : w = ReleaseW(n)
      OBVIOUS
  <1>6. /\ Sum(q, w) \in Nat /\ Sum(p, w) \in Nat /\ IsFiniteSet(S) /\ Cardinality(S) \in Nat
        /\ IsFiniteSet(T) /\ Cardinality(T) \in Nat
      BY <1>2, <1>3, <1>4, <1>5, OwnerParts
  <1>7. Cardinality(S) = Cardinality(T) + (IF h.handle = n THEN 1 ELSE 0)
    <2>1. CASE h.handle = n
      <3>1. h \in S /\ T = S \ {h}
          BY <1>1, <1>2, <1>3, <2>1
      <3>2. Cardinality(S \ {h}) = Cardinality(S) - 1
          BY <1>6, <3>1, FS_RemoveElement
      <3> QED
          BY <1>6, <2>1, <3>1, <3>2
    <2>2. CASE h.handle # n
      <3>1. T = S
          BY <1>1, <1>2, <1>3, <2>2
      <3> QED
          BY <1>6, <2>2, <3>1
    <2> QED
        BY <2>1, <2>2
  <1>8. /\ OwnerSum(n, q, p, O) = Sum(q, w) + Sum(p, w) + Cardinality(S)
        /\ OwnerSum(n, q, p, P) = Sum(q, w) + Sum(p, w) + Cardinality(T)
      BY <1>2, <1>3, <1>5 DEF OwnerSum
  <1>9. PICK k \in {0, 1} : k = IF h.handle = n THEN 1 ELSE 0
      OBVIOUS
  <1>10. OwnerSum(n, q, p, O) = OwnerSum(n, q, p, P) + k
      BY <1>6, <1>7, <1>8, <1>9
  <1> QED
      BY <1>4, <1>9, <1>10

\* What the kernel gives up with a request: nothing, or an open file that no request uses.
GivesUp(op, leaf, x) ==
    \/ op \notin {"Release", "ReleaseDir"} /\ opened' = opened
    \/ /\ op \in {"Release", "ReleaseDir"}
       /\ \E h \in opened : /\ h.leaf = leaf /\ h.handle = x /\ Without(opened, h, opened')
                            /\ \A r \in reqs : r.leaf = leaf => r.op \notin {"Read", "GetAttr", "ReadDirPlus"}

\* What a request of the kernel may be.
Asks(op, leaf, x) ==
    /\ op \in RequestOps /\ x \in Payloads /\ (leaf = Dir <=> op \in DirOps)
    /\ op = "Lookup" => x \in Files
    /\ op \in {"Read", "ReadDirPlus"} \/ (op = "GetAttr" /\ x # None) =>
          [leaf |-> leaf, handle |-> x] \in opened
    /\ GivesUp(op, leaf, x)

LEMMA FuseParts ==
    ASSUME Inv, NEW op, NEW leaf, NEW x, Asks(op, leaf, x), Fuse(op, leaf, x)
    PROVE  \E n \in Nat, j \in JobType, r \in [req : Nat, op : RequestOps, leaf : DOMAIN known] :
              /\ n = requests + 1 /\ requests' = n
              /\ r = [req |-> n, op |-> op, leaf |-> leaf] /\ reqs' = reqs \cup {r}
              /\ j.op = op /\ j.req = n /\ j.leaf = leaf /\ j.x = x /\ cQueue' = Append(cQueue, j)
              /\ leaf \in DOMAIN known /\ leaf \in DOMAIN cLeaf
              /\ \A p \in reqs : p.req # n
              /\ \A h \in opened : h.handle # n
              /\ 1..requests \subseteq 1..n /\ n \in 1..n /\ n \notin 1..requests
  <1>1. requests \in Nat /\ leaf \in DOMAIN known /\ leaf \in DOMAIN cLeaf
      BY DEF Inv, TypeInv, KernelType, Fuse
  <1>2. PICK n \in Nat : n = requests + 1
      BY <1>1
  <1>3. PICK j : j = Job(op, n, leaf, x)
      OBVIOUS
  <1>4. j \in JobType /\ j.op = op /\ j.req = n /\ j.leaf = leaf /\ j.x = x
    <2>1. op \in Ops /\ x \in Payloads
        BY DEF Asks, RequestOps, Ops
    <2>2. leaf \in Nat
        BY <1>1, LeafFields DEF Inv, TypeInv
    <2> QED
        BY <1>3, <2>1, <2>2, JobFields
  <1>5. 1..requests \subseteq 1..n /\ n \in 1..n /\ n \notin 1..requests
      BY <1>1, <1>2
  <1>6. (\A p \in reqs : p.req \in 1..requests) /\ (\A h \in opened : h.handle \in 1..requests)
      BY DEF Inv, TypeInv, KernelType
  <1>7. /\ requests' = n /\ reqs' = reqs \cup {[req |-> n, op |-> op, leaf |-> leaf]}
        /\ cQueue' = Append(cQueue, j)
      BY <1>2, <1>3 DEF Fuse
  <1>8. PICK r \in [req : Nat, op : RequestOps, leaf : DOMAIN known] :
           r = [req |-> n, op |-> op, leaf |-> leaf]
      BY <1>1 DEF Asks
  <1> QED
      BY <1>1, <1>2, <1>4, <1>5, <1>6, <1>7, <1>8

LEMMA FuseKeeps ==
    ASSUME Inv, NEW op, NEW leaf, NEW x, Asks(op, leaf, x), Fuse(op, leaf, x)
    PROVE  Inv'
  <1>1. /\ UNCHANGED <<diskVars, sLeaf, sHandles, sReads, leaked, sQueue>>
        /\ UNCHANGED <<cLeaf, index, applying, known, forgetting, fault>>
      BY DEF Fuse, serverVars, clientVars
  <1>2. PICK n \in Nat, j \in JobType, r \in [req : Nat, op : RequestOps, leaf : DOMAIN known] :
           /\ n = requests + 1 /\ requests' = n
           /\ r = [req |-> n, op |-> op, leaf |-> leaf] /\ reqs' = reqs \cup {r}
           /\ j.op = op /\ j.req = n /\ j.leaf = leaf /\ j.x = x /\ cQueue' = Append(cQueue, j)
           /\ leaf \in DOMAIN known /\ leaf \in DOMAIN cLeaf
           /\ \A p \in reqs : p.req # n
           /\ \A h \in opened : h.handle # n
           /\ 1..requests \subseteq 1..n /\ n \in 1..n /\ n \notin 1..requests
      BY FuseParts
  <1>3. /\ op \in RequestOps /\ (leaf = Dir <=> op \in DirOps)
        /\ op = "Lookup" => x \in Files
        /\ op \in {"Read", "ReadDirPlus"} \/ (op = "GetAttr" /\ x # None) =>
              [leaf |-> leaf, handle |-> x] \in opened
        /\ GivesUp(op, leaf, x)
      BY DEF Asks
  <1>4. r.req = n /\ r.op = op /\ r.leaf = leaf
      BY <1>2
  <1>5. QueueType
      BY DEF Inv, TypeInv
  <1>6. /\ QueueType' /\ Jobs(cQueue') = Jobs(cQueue) \cup {j} /\ Jobs(sQueue') = Jobs(sQueue)
        /\ \A m : /\ LiveCount(m) \in Nat /\ LiveCount(m)' \in Nat
                  /\ LiveCount(m)' = LiveCount(m) + LiveW(m)[j]
        /\ \A m, O : IsFiniteSet(O) =>
              /\ OwnerSum(m, cQueue, sQueue, O) \in Nat /\ OwnerSum(m, cQueue', sQueue', O) \in Nat
              /\ OwnerSum(m, cQueue', sQueue', O) = OwnerSum(m, cQueue, sQueue, O) + ReleaseW(m)[j]
        /\ \A i : Sum(cQueue', PendingW(i)) = Sum(cQueue, PendingW(i)) + PendingW(i)[j]
      BY <1>1, <1>2, <1>5, Scheduled
  <1>7. opened' \subseteq opened /\ IsFiniteSet(opened) /\ IsFiniteSet(opened')
    <2>1. opened' \subseteq opened /\ IsFiniteSet(opened)
        BY <1>3 DEF GivesUp, Without, Inv, TypeInv, KernelType
    <2> QED
        BY <2>1, FS_Subset
  <1>8. TypeInv'
    <2>1. DiskType' /\ IsTree(sLeaf)' /\ IsTree(cLeaf)'
        BY <1>1 DEF Inv, TypeInv, DiskType, diskVars, IsTree
    <2>2. reqs' \subseteq [req : 1..requests', op : RequestOps, leaf : DOMAIN known']
      <3>1. \A p \in reqs : p \in [req : 1..n, op : RequestOps, leaf : DOMAIN known]
        <4>1. \A p \in reqs : p \in [req : 1..requests, op : RequestOps, leaf : DOMAIN known]
            BY DEF Inv, TypeInv, KernelType
        <4> QED
            BY <1>2, <4>1
      <3>2. r \in [req : 1..n, op : RequestOps, leaf : DOMAIN known]
          BY <1>2, <1>3
      <3> QED
          BY <1>1, <1>2, <3>1, <3>2
    <2>3. opened' \subseteq [leaf : DOMAIN known', handle : 1..requests']
      <3>1. \A h \in opened : h \in [leaf : DOMAIN known, handle : 1..requests]
          BY DEF Inv, TypeInv, KernelType
      <3>2. \A h \in opened : h \in [leaf : DOMAIN known, handle : 1..n]
          BY <1>2, <3>1
      <3> QED
          BY <1>1, <1>2, <1>7, <3>2
    <2>4. KernelType'
        BY <1>1, <1>2, <1>7, <2>2, <2>3 DEF Inv, TypeInv, KernelType
    <2> QED
        BY <1>6, <2>1, <2>4 DEF TypeInv
  <1>9. Grows /\ TreeInv'
    <2>1. Grows /\ OneOfAName(sLeaf')
        BY <1>1 DEF Grows, Inv, TreeInv
    <2> QED
        BY <1>1, <2>1, TreeFrame DEF Inv
  <1>10. SoundInv'
    <2>1. Sound(j)'
        BY <1>2, <1>3 DEF Sound, RequestOps
    <2>2. \A i \in Jobs(cQueue') \cup Jobs(sQueue') : i \in Jobs(cQueue) \cup Jobs(sQueue) \/ Sound(i)'
        BY <1>6, <2>1
    <2> QED
        BY <1>9, <2>2, SoundFrame DEF Inv
  <1>11. ASSUME NEW i, NEW p \in reqs, Serves(i, p) PROVE Serves(i, p)' /\ p \in reqs'
    <2>1. ReadsHandle(i) => p.op \in {"Read", "GetAttr", "ReadDirPlus"}
      <3>1. p.op = i.op \/ Answers(i.op, p.op)
          BY <1>11 DEF Serves
      <3>2. Answers(i.op, p.op) /\ i.op = "ReadIn" => p.op = "Read"
          BY DEF Answers
      <3>3. Answers(i.op, p.op) => i.op \notin {"Read", "ReadDirPlus", "GetAttr"}
          BY DEF Answers
      <3>4. p.op # "ReadIn"
          BY DEF Inv, TypeInv, KernelType, RequestOps
      <3> QED
          BY <3>1, <3>2, <3>3, <3>4 DEF ReadsHandle
    <2>2. ReadsHandle(i) => [leaf |-> p.leaf, handle |-> i.x] \in opened'
      <3>1. SUFFICES ASSUME ReadsHandle(i) PROVE [leaf |-> p.leaf, handle |-> i.x] \in opened'
          OBVIOUS
      <3>2. PICK o : o = [leaf |-> p.leaf, handle |-> i.x] /\ o \in opened /\ o.leaf = p.leaf
          BY <1>11, <3>1 DEF Serves
      <3>3. CASE opened' = opened
          BY <3>2, <3>3
      <3>4. ASSUME NEW h \in opened, h.leaf = leaf, Without(opened, h, opened'),
                   \A q \in reqs : q.leaf = leaf => q.op \notin {"Read", "GetAttr", "ReadDirPlus"}
            PROVE  o \in opened'
        <4>1. p.leaf # leaf
            BY <2>1, <3>1, <3>4
        <4>2. o # h
            BY <3>2, <3>4, <4>1
        <4> QED
            BY <3>2, <3>4, <4>2 DEF Without
      <3> QED
          BY <1>3, <3>2, <3>3, <3>4 DEF GivesUp
    <2> QED
        BY <1>2, <1>11, <2>2 DEF Serves
  <1>12. RequestInv'
    <2>1. /\ \A p, q \in reqs' : p.req = q.req => p = q
          /\ \A p \in reqs' : p.leaf = Dir <=> p.op \in DirOps
        BY <1>2, <1>3, <1>4 DEF Inv, RequestInv
    <2>2. ServedByClient(j)'
      <3>1. Serves(j, r)'
        <4>1. ReadsHandle(j) => opened' = opened /\ [leaf |-> leaf, handle |-> x] \in opened
            BY <1>2, <1>3 DEF ReadsHandle, GivesUp, RequestOps
        <4> QED
            BY <1>2, <1>4, <4>1 DEF Serves
      <3> QED
          BY <1>2, <1>4, <3>1 DEF ServedByClient
    <2>3. ASSUME NEW i, ServedByClient(i) PROVE ServedByClient(i)'
        BY <1>11, <2>3 DEF ServedByClient
    <2>4. ASSUME NEW i, Served(i) PROVE Served(i)'
        BY <1>11, <2>4 DEF Served
    <2>5. \A i \in Jobs(cQueue)' : ServedByClient(i)'
      <3>1. Jobs(cQueue)' = Jobs(cQueue) \cup {j}
          BY <1>6 DEF Jobs
      <3> QED
          BY <2>2, <2>3, <3>1 DEF Inv, RequestInv
    <2>6. \A i \in (Jobs(sQueue) \cup sReads \cup Jobs(applying))' : Served(i)'
      <3>1. (Jobs(sQueue) \cup sReads \cup Jobs(applying))' = Jobs(sQueue) \cup sReads \cup Jobs(applying)
          BY <1>1 DEF Jobs
      <3> QED
          BY <2>4, <3>1 DEF Inv, RequestInv
    <2>7. ASSUME NEW m \in Nat PROVE LiveCount(m)' <= 1
      <3>1. LiveCount(m) <= 1 /\ LiveCount(m) \in Nat /\ LiveCount(m)' = LiveCount(m) + LiveW(m)[j]
          BY <1>6 DEF Inv, RequestInv
      <3>2. CASE m # n
        <4>1. LiveW(m)[j] = 0
            BY <1>2, <3>2, Weights
        <4> QED
            BY <3>1, <4>1
      <3>3. CASE m = n
        <4>1. ASSUME NEW i \in Jobs(cQueue) \cup Jobs(sQueue) \cup Jobs(applying) \cup sReads
              PROVE  ~(Live(i) /\ i.req = n)
          <5>1. Live(i) => \E p \in reqs : Serves(i, p)
              BY <4>1 DEF Inv, RequestInv, Served, ServedByClient
          <5>2. Live(i) => \E p \in reqs : i.req = p.req
              BY <5>1 DEF Serves
          <5> QED
              BY <1>2, <5>2
        <4>2. Places(cQueue, sQueue, applying, sReads)
            BY <1>5, QueuesArePlaces
        <4>3. LiveCount(n) = 0
            BY <4>1, <4>2, NoneLive DEF LiveCount
        <4>4. LiveW(n)[j] \in {0, 1}
            BY Weights
        <4> QED
            BY <3>1, <3>3, <4>3, <4>4
      <3> QED
          BY <3>2, <3>3
    <2> QED
        BY <2>1, <2>5, <2>6, <2>7, Zenon DEF RequestInv
  <1>13. HandleInv'
    <2>1. /\ \A h \in opened' : h.handle \in sHandles'
          /\ \A h \in opened', p \in reqs' : h.handle # p.req
        BY <1>1, <1>2, <1>4, <1>7 DEF Inv, HandleInv
    <2>2. ASSUME NEW i, Owned(i) PROVE Owned(i)'
        BY <1>1, <1>2, <1>4, <2>2 DEF Owned
    <2>3. Owned(j)'
      <3>1. ~Opens(j)
          BY <1>2, <1>3 DEF Opens, RequestOps
      <3>2. ASSUME Releases(j) PROVE \E h \in opened : h.handle = x
          BY <1>2, <1>3, <3>2 DEF Releases, GivesUp
      <3>3. ASSUME NEW h \in opened, h.handle = x
            PROVE  x \in sHandles' /\ x \in 1..requests' /\ \A p \in reqs' : x # p.req
        <4>1. x \in sHandles /\ x \in 1..requests /\ (\A p \in reqs : x # p.req) /\ x # n
            BY <1>2, <3>3 DEF Inv, HandleInv, TypeInv, KernelType
        <4> QED
            BY <1>1, <1>2, <1>4, <4>1
      <3> QED
          BY <1>2, <3>1, <3>2, <3>3 DEF Owned
    <2>4. \A i \in (Jobs(cQueue) \cup Jobs(sQueue))' : Owned(i)'
      <3>1. (Jobs(cQueue) \cup Jobs(sQueue))' = Jobs(cQueue) \cup Jobs(sQueue) \cup {j}
          BY <1>6 DEF Jobs
      <3> QED
          BY <2>2, <2>3, <3>1 DEF Inv, HandleInv
    <2>5. ASSUME NEW m \in Nat PROVE Owners(m)' <= 1
      <3>1. /\ OwnerSum(m, cQueue, sQueue, opened) \in Nat /\ OwnerSum(m, cQueue, sQueue, opened) <= 1
          BY <1>6, <1>7 DEF Inv, HandleInv, Owners
      <3>2. CASE ~Releases(j) /\ opened' = opened
        <4>1. ReleaseW(m)[j] = 0
            BY <3>2, Weights
        <4>2. Owners(m)' = OwnerSum(m, cQueue, sQueue, opened) + ReleaseW(m)[j]
            BY <1>6, <1>7, <3>2 DEF Owners
        <4> QED
            BY <3>1, <4>1, <4>2
      <3>3. ASSUME NEW h \in opened, h.handle = x, Without(opened, h, opened') PROVE Owners(m)' <= 1
        <4>1. PICK k \in {0, 1} : k = IF h.handle = m THEN 1 ELSE 0
            OBVIOUS
        <4>2. ReleaseW(m)[j] \in {0, 1} /\ ReleaseW(m)[j] <= k
            BY <1>2, <3>3, <4>1, Weights
        <4>3. Homes(cQueue, sQueue, opened)
            BY <1>5, <1>7 DEF Homes, QueueType
        <4>4. OwnerSum(m, cQueue, sQueue, opened) = OwnerSum(m, cQueue, sQueue, opened') + k
            BY <3>3, <4>1, <4>3, OwnerGone
        <4>5. /\ OwnerSum(m, cQueue, sQueue, opened') \in Nat
              /\ Owners(m)' = OwnerSum(m, cQueue, sQueue, opened') + ReleaseW(m)[j]
            BY <1>6, <1>7 DEF Owners
        <4> QED
            BY <3>1, <4>2, <4>4, <4>5
      <3> QED
          BY <1>2, <1>3, <3>2, <3>3 DEF GivesUp, Releases
    <2> QED
        BY <2>1, <2>4, <2>5, Zenon DEF HandleInv
  <1>14. RefInv'
    <2>1. ASSUME NEW i PROVE Sum(cQueue', PendingW(i)) = Sum(cQueue, PendingW(i))
      <3>1. PendingW(i)[j] = 0
          BY <1>2, <1>3, NotPending DEF RequestOps
      <3>2. Sum(cQueue, PendingW(i)) \in Nat
          BY <1>5, PendingSums DEF QueueType
      <3>3. Sum(cQueue', PendingW(i)) = Sum(cQueue, PendingW(i)) + PendingW(i)[j]
          BY <1>6
      <3> QED
          BY <3>1, <3>2, <3>3
    <2>2. fault' # "clientRefs" /\ RefInv
        BY <1>1 DEF Inv, RefInv
    <2> QED
        BY <1>1, <2>1, <2>2, RefFrame
  <1> QED
      BY <1>8, <1>9, <1>10, <1>12, <1>13, <1>14 DEF Inv

\* What the kernel may ask for.
LEMMA FuseStepAsks ==
    ASSUME Inv,
           \/ \E f \in Files : FuseLookup(f)
           \/ FuseOpendir
           \/ \E c \in DOMAIN cLeaf :
                 \/ FuseOpen(c)
                 \/ \E x \in {None} \cup {h.handle : h \in {o \in opened : o.leaf = c}} : FuseGetattr(c, x)
           \/ \E h \in opened : FuseReadDirPlus(h) \/ FuseRead(h) \/ FuseRelease(h) \/ FuseReleaseDir(h)
    PROVE  \E op, leaf, x : Asks(op, leaf, x) /\ Fuse(op, leaf, x)
  <1> DEFINE AskedNow == \E op, leaf, x : Asks(op, leaf, x) /\ Fuse(op, leaf, x)
  <1> USE DEF Asks, GivesUp, RequestOps, DirOps
  <1>1. None \in Payloads /\ \A n \in Nat : n \in Payloads
      BY PayloadTypes DEF None
  <1>2. \A h \in opened : /\ h.handle \in Payloads /\ [leaf |-> h.leaf, handle |-> h.handle] \in opened
                          /\ [leaf |-> h.leaf, handle |-> h.handle] = h
    <2>1. SUFFICES ASSUME NEW h \in opened
                   PROVE  h.handle \in Payloads /\ [leaf |-> h.leaf, handle |-> h.handle] = h
        BY Zenon
    <2>2. h \in [leaf : DOMAIN known, handle : 1..requests] /\ requests \in Nat
        BY DEF Inv, TypeInv, KernelType
    <2>3. h.handle \in Nat
        BY <2>2
    <2> QED
        BY <1>1, <2>2, <2>3
  <1>3. ASSUME NEW f \in Files, FuseLookup(f) PROVE AskedNow
    <2>1. f \in Payloads
        BY PayloadTypes
    <2>2. Asks("Lookup", Dir, f)
        BY <1>3, <2>1 DEF FuseLookup
    <2> QED
        BY <1>3, <2>2, Zenon DEF FuseLookup
  <1>4. ASSUME FuseOpendir PROVE AskedNow
    <2>1. Asks("OpenDir", Dir, None)
        BY <1>1, <1>4 DEF FuseOpendir
    <2> QED
        BY <1>4, <2>1, Zenon DEF FuseOpendir
  <1>5. ASSUME NEW c, FuseOpen(c) PROVE AskedNow
    <2>1. Asks("Open", c, None)
        BY <1>1, <1>5 DEF FuseOpen
    <2> QED
        BY <1>5, <2>1, Zenon DEF FuseOpen
  <1>6. ASSUME NEW c, NEW x \in {None} \cup {h.handle : h \in {o \in opened : o.leaf = c}},
               FuseGetattr(c, x)
        PROVE  AskedNow
    <2>1. x = None \/ \E h \in opened : h.leaf = c /\ h.handle = x
        OBVIOUS
    <2>2. x \in Payloads /\ (x # None => [leaf |-> c, handle |-> x] \in opened)
        BY <1>1, <1>2, <2>1
    <2>3. Asks("GetAttr", c, x)
        BY <1>6, <2>2 DEF FuseGetattr
    <2> QED
        BY <1>6, <2>3, Zenon DEF FuseGetattr
  <1>7. ASSUME NEW h \in opened, FuseReadDirPlus(h) PROVE AskedNow
    <2>1. Asks("ReadDirPlus", Dir, h.handle)
        BY <1>2, <1>7 DEF FuseReadDirPlus
    <2> QED
        BY <1>7, <2>1, Zenon DEF FuseReadDirPlus
  <1>8. ASSUME NEW h \in opened, FuseRead(h) PROVE AskedNow
    <2>1. Asks("Read", h.leaf, h.handle)
        BY <1>2, <1>8 DEF FuseRead
    <2> QED
        BY <1>8, <2>1, Zenon DEF FuseRead
  <1>9. \A r \in reqs : /\ r.leaf = Dir => r.op \notin {"Read", "GetAttr"}
                        /\ r.leaf # Dir => r.op # "ReadDirPlus"
      BY DEF Inv, RequestInv
  <1>10. ASSUME NEW h \in opened, FuseRelease(h) PROVE AskedNow
    <2>1. Asks("Release", h.leaf, h.handle)
        BY <1>2, <1>9, <1>10 DEF FuseRelease, Without
    <2> QED
        BY <1>10, <2>1, Zenon DEF FuseRelease
  <1>11. ASSUME NEW h \in opened, FuseReleaseDir(h) PROVE AskedNow
    <2>1. Asks("ReleaseDir", Dir, h.handle)
        BY <1>2, <1>9, <1>11 DEF FuseReleaseDir, Without
    <2> QED
        BY <1>11, <2>1, Zenon DEF FuseReleaseDir
  <1> QED
      BY <1>3, <1>4, <1>5, <1>6, <1>7, <1>8, <1>10, <1>11

\* The handlers that schedule a request.
LEMMA FuseStepKeeps ==
    ASSUME Inv,
           \/ \E f \in Files : FuseLookup(f)
           \/ FuseOpendir
           \/ \E c \in DOMAIN cLeaf :
                 \/ FuseOpen(c)
                 \/ \E x \in {None} \cup {h.handle : h \in {o \in opened : o.leaf = c}} : FuseGetattr(c, x)
           \/ \E h \in opened : FuseReadDirPlus(h) \/ FuseRead(h) \/ FuseRelease(h) \/ FuseReleaseDir(h)
    PROVE  Inv'
  BY FuseStepAsks, FuseKeeps

-----------------------------------------------------------------------------
(* What the kernel forgets.                                                *)

LEMMA ForgetJobs ==
    ASSUME Inv, NEW m \in [leaf : DOMAIN cLeaf, n : Nat \ {0}]
    PROVE  \E j \in JobType, k \in JobType :
              /\ j = ForwardForget(m) /\ k = ReleaseJob(m) /\ Sound(j) /\ Sound(k) /\ Idle(j) /\ Idle(k)
              /\ j.op = "ForgetMulti" /\ k.op = "ReleaseLeafRef" /\ k.leaf = m.leaf /\ k.x = m.n
  <1>1. m.leaf \in DOMAIN cLeaf /\ m.n \in Nat \ {0} /\ m.leaf \in Nat
      BY LeafFields DEF Inv, TypeInv
  <1>2. PICK s \in Nat : s = cLeaf[m.leaf].server
      BY <1>1, LeafFields DEF Inv, TypeInv
  <1>3. s \in DOMAIN sLeaf
    <2>1. m.leaf = Dir => s = Dir
        BY <1>2 DEF Inv, TreeInv
    <2>2. m.leaf # Dir => s \in DOMAIN sLeaf
        BY <1>1, <1>2 DEF Inv, TreeInv, Stands
    <2>3. Dir \in DOMAIN sLeaf
        BY DEF Inv, TypeInv, IsTree
    <2> QED
        BY <2>1, <2>2, <2>3
  <1>4. PICK j : j = Job("ForgetMulti", 0, s, m.n)
      OBVIOUS
  <1>5. PICK k : k = Job("ReleaseLeafRef", 0, m.leaf, m.n)
      OBVIOUS
  <1>6. PICK a \in Ops, b \in Ops : a = "ForgetMulti" /\ b = "ReleaseLeafRef"
      BY DEF Ops
  <1>7. PICK x \in Payloads : x = m.n
      BY <1>1, PayloadTypes
  <1>8. /\ j \in JobType /\ j.op = "ForgetMulti" /\ j.req = 0 /\ j.leaf = s /\ j.x = m.n
        /\ k \in JobType /\ k.op = "ReleaseLeafRef" /\ k.leaf = m.leaf /\ k.x = m.n
      BY <1>1, <1>4, <1>5, <1>6, <1>7, JobFields
  <1>9. j = ForwardForget(m) /\ k = ReleaseJob(m)
      BY <1>2, <1>4, <1>5 DEF ForwardForget, ReleaseJob
  <1>10. Sound(j) /\ Sound(k)
      BY <1>1, <1>3, <1>8 DEF Sound, DirOps
  <1>11. Idle(j) /\ Idle(k)
      BY <1>8 DEF Idle, Live, Releases, RequestOps, AnswerOps
  <1> QED
      BY <1>8, <1>9, <1>10, <1>11

\* What the kernel has counted goes to the releases that wait.
LEMMA ForgetKeeps ==
    ASSUME Inv, NEW c, Forget(c), QueueType', requests' \in Nat, 1..requests \subseteq 1..requests',
           forgetting' \subseteq [leaf : DOMAIN cLeaf, n : Nat \ {0}], IsFiniteSet(forgetting'),
           sQueue' = sQueue,
           \A j \in Jobs(cQueue') : j \in Jobs(cQueue) \/ (Idle(j) /\ Sound(j)),
           \A n : LiveCount(n) \in Nat /\ LiveCount(n)' = LiveCount(n),
           \A n, O : IsFiniteSet(O) =>
              /\ OwnerSum(n, cQueue, sQueue, O) \in Nat
              /\ OwnerSum(n, cQueue', sQueue', O) = OwnerSum(n, cQueue, sQueue, O),
           \A i : Sum(cQueue', PendingW(i)) = Sum(cQueue, PendingW(i)) + (IF i = c THEN known[c] ELSE 0)
    PROVE  Inv'
  <1>1. /\ UNCHANGED <<diskVars, sLeaf, sHandles, sReads, leaked>>
        /\ UNCHANGED <<cLeaf, index, applying, reqs, opened, fault>>
        /\ c \in DOMAIN known /\ known' = [i \in DOMAIN known \ {c} |-> known[i]] /\ ~Busy(c)
      BY DEF Forget, serverVars, clientVars
  <1>2. DOMAIN known' = DOMAIN known \ {c} /\ \A i \in DOMAIN known' : known'[i] = known[i]
      BY <1>1
  <1>3. TypeInv'
    <2>1. DiskType' /\ IsTree(sLeaf)' /\ IsTree(cLeaf)'
        BY <1>1 DEF Inv, TypeInv, DiskType, diskVars, IsTree
    <2>2. DOMAIN known' \subseteq DOMAIN cLeaf' /\ known' \in [DOMAIN known' -> Nat \ {0}]
      <3>1. known \in [DOMAIN known -> Nat \ {0}] /\ DOMAIN known \subseteq DOMAIN cLeaf
          BY DEF Inv, TypeInv, KernelType
      <3> QED
          BY <1>1, <1>2, <3>1
    <2>3. \A r \in reqs : r \in [req : 1..requests', op : RequestOps, leaf : DOMAIN known']
      <3>1. SUFFICES ASSUME NEW r \in reqs
                     PROVE  r \in [req : 1..requests', op : RequestOps, leaf : DOMAIN known']
          OBVIOUS
      <3>2. r \in [req : 1..requests, op : RequestOps, leaf : DOMAIN known] /\ r.leaf # c
          BY <1>1 DEF Inv, TypeInv, KernelType, Busy
      <3> QED
          BY <1>2, <3>2
    <2>4. \A h \in opened : h \in [leaf : DOMAIN known', handle : 1..requests']
      <3>1. SUFFICES ASSUME NEW h \in opened
                     PROVE  h \in [leaf : DOMAIN known', handle : 1..requests']
          OBVIOUS
      <3>2. h \in [leaf : DOMAIN known, handle : 1..requests] /\ h.leaf # c
          BY <1>1 DEF Inv, TypeInv, KernelType, Busy
      <3> QED
          BY <1>2, <3>2
    <2>5. sHandles' \subseteq Nat /\ leaked' \in Nat /\ IsFiniteSet(opened')
        BY <1>1 DEF Inv, TypeInv, KernelType
    <2>6. KernelType'
        BY <1>1, <2>2, <2>3, <2>4, <2>5 DEF KernelType
    <2> QED
        BY <2>1, <2>6 DEF TypeInv
  <1>4. Grows /\ TreeInv'
    <2>1. Grows /\ OneOfAName(sLeaf')
        BY <1>1 DEF Grows, Inv, TreeInv
    <2> QED
        BY <1>1, <2>1, TreeFrame DEF Inv
  <1>5. SoundInv'
    <2>1. \A j : Sound(j) => Sound(j)'
        BY <1>4, SoundStays
    <2>2. Jobs(sQueue') = Jobs(sQueue)
        BY Zenon
    <2> QED
        BY <1>4, <2>1, <2>2, SoundFrame DEF Inv
  <1>6. RequestInv'
    <2>1. \A j \in Jobs(cQueue') : j \in Jobs(cQueue) \/ ServedByClient(j)
        BY DEF ServedByClient, Idle
    <2>2. \A j \in Jobs(sQueue') \cup sReads' \cup Jobs(applying') :
             j \in Jobs(sQueue) \cup sReads \cup Jobs(applying)
        BY <1>1
    <2>3. \A n \in Nat : LiveCount(n)' \in Nat /\ LiveCount(n) \in Nat /\ LiveCount(n)' <= LiveCount(n)
        OBVIOUS
    <2> QED
        BY <1>1, <2>1, <2>2, <2>3, RequestFrame DEF Inv
  <1>7. HandleInv'
    <2>1. \A j : Idle(j) => Owned(j)' \/ Opens(j)
        BY DEF Idle, Owned
    <2>2. \A j : Idle(j) => ~Opens(j)
        BY DEF Idle, Opens, Live, AnswerOps
    <2>3. \A j \in Jobs(cQueue') \cup Jobs(sQueue') : j \in Jobs(cQueue) \cup Jobs(sQueue) \/ Owned(j)'
        BY <2>1, <2>2
    <2>4. IsFiniteSet(opened)
        BY DEF Inv, TypeInv, KernelType
    <2>5. \A n \in Nat : Owners(n)' \in Nat /\ Owners(n) \in Nat /\ Owners(n)' <= Owners(n)
      <3>1. \A n : Owners(n)' = Owners(n) /\ Owners(n) \in Nat
          BY <1>1, <2>4 DEF Owners
      <3> QED
          BY <3>1
    <2> QED
        BY <1>1, <2>3, <2>5, HandleFrame DEF Inv
  <1>8. RefInv'
    <2>1. ASSUME NEW i \in DOMAIN cLeaf
          PROVE  cLeaf[i].refs = Lookups(i)' + Sum(cQueue', PendingW(i))
      <3>1. PICK s \in Nat, l \in Nat : s = Sum(cQueue, PendingW(i)) /\ l = Lookups(i)
        <4>1. Sum(cQueue, PendingW(i)) \in Nat
            BY PendingSums DEF Inv, TypeInv, QueueType
        <4>2. Lookups(i) \in Nat
            BY DEF Lookups, Inv, TypeInv, KernelType
        <4> QED
            BY <4>1, <4>2
      <3>2. cLeaf[i].refs = l + s
          BY <3>1 DEF Inv, RefInv
      <3>3. CASE i # c
        <4>1. Lookups(i)' = l
            BY <1>1, <1>2, <3>1, <3>3 DEF Lookups
        <4>2. Sum(cQueue', PendingW(i)) = s
            BY <3>1, <3>3
        <4> QED
            BY <3>2, <4>1, <4>2
      <3>4. CASE i = c
        <4>1. Lookups(i)' = 0 /\ l = known[c]
            BY <1>1, <1>2, <3>1, <3>4 DEF Lookups
        <4>2. Sum(cQueue', PendingW(i)) = s + l
            BY <3>1, <3>4, <4>1
        <4> QED
            BY <3>2, <4>1, <4>2
      <3> QED
          BY <3>3, <3>4
    <2> QED
        BY <1>1, <2>1 DEF RefInv, Inv
  <1> QED
      BY <1>3, <1>4, <1>5, <1>6, <1>7, <1>8 DEF Inv

LEMMA FuseForgetKeeps ==
    ASSUME Inv, NEW c, FuseForget(c)
    PROVE  Inv'
  <1>1. PICK m : m = [leaf |-> c, n |-> known[c]]
      OBVIOUS
  <1>2. /\ Forget(c) /\ cQueue' = cQueue \o <<ForwardForget(m), ReleaseJob(m)>>
        /\ forgetting' = forgetting /\ requests' = requests
      BY <1>1 DEF FuseForget
  <1>3. c \in DOMAIN known /\ sQueue' = sQueue /\ applying' = applying /\ sReads' = sReads
      BY <1>2 DEF Forget, clientVars, serverVars
  <1>4. c \in DOMAIN cLeaf /\ known[c] \in Nat \ {0}
      BY <1>3 DEF Inv, TypeInv, KernelType
  <1>5. m \in [leaf : DOMAIN cLeaf, n : Nat \ {0}] /\ m.leaf = c /\ m.n = known[c]
      BY <1>1, <1>4
  <1>6. PICK j \in JobType, k \in JobType :
           /\ j = ForwardForget(m) /\ k = ReleaseJob(m) /\ Sound(j) /\ Sound(k) /\ Idle(j) /\ Idle(k)
           /\ j.op = "ForgetMulti" /\ k.op = "ReleaseLeafRef" /\ k.leaf = m.leaf /\ k.x = m.n
      BY <1>5, ForgetJobs
  <1>7. QueueType /\ cQueue' = cQueue \o <<j, k>>
      BY <1>2, <1>6 DEF Inv, TypeInv
  <1>8. /\ QueueType' /\ Jobs(cQueue') = Jobs(cQueue) \cup {j, k} /\ Jobs(sQueue') = Jobs(sQueue)
        /\ \A n : LiveCount(n) \in Nat /\ LiveCount(n)' = LiveCount(n)
        /\ \A n, O : IsFiniteSet(O) =>
              /\ OwnerSum(n, cQueue, sQueue, O) \in Nat
              /\ OwnerSum(n, cQueue', sQueue', O) = OwnerSum(n, cQueue, sQueue, O)
        /\ \A i : Sum(cQueue', PendingW(i)) = (Sum(cQueue, PendingW(i)) + PendingW(i)[j]) + PendingW(i)[k]
      BY <1>3, <1>6, <1>7, ScheduledTwo
  <1>9. \A i : Sum(cQueue', PendingW(i)) = Sum(cQueue, PendingW(i)) + (IF i = c THEN known[c] ELSE 0)
    <2>1. SUFFICES ASSUME NEW i
                   PROVE  Sum(cQueue', PendingW(i)) = Sum(cQueue, PendingW(i)) + (IF i = c THEN known[c] ELSE 0)
        OBVIOUS
    <2>2. PendingW(i)[j] = 0
        BY <1>6, NotPending
    <2>3. PendingW(i)[k] = IF i = c THEN known[c] ELSE 0
        BY <1>4, <1>5, <1>6, Weights
    <2>4. Sum(cQueue, PendingW(i)) \in Nat
        BY PendingSums, <1>7 DEF QueueType
    <2>5. Sum(cQueue', PendingW(i)) = (Sum(cQueue, PendingW(i)) + PendingW(i)[j]) + PendingW(i)[k]
        BY <1>8
    <2> QED
        BY <1>4, <2>2, <2>3, <2>4, <2>5
  <1>10. \A i \in Jobs(cQueue') : i \in Jobs(cQueue) \/ (Idle(i) /\ Sound(i))
      BY <1>6, <1>8
  <1>11. /\ requests' \in Nat /\ 1..requests \subseteq 1..requests'
         /\ forgetting' \subseteq [leaf : DOMAIN cLeaf, n : Nat \ {0}] /\ IsFiniteSet(forgetting')
      BY <1>2 DEF Inv, TypeInv, KernelType
  <1>12. /\ QueueType' /\ \A n : LiveCount(n) \in Nat /\ LiveCount(n)' = LiveCount(n)
         /\ \A n, O : IsFiniteSet(O) =>
              /\ OwnerSum(n, cQueue, sQueue, O) \in Nat
              /\ OwnerSum(n, cQueue', sQueue', O) = OwnerSum(n, cQueue, sQueue, O)
      BY <1>8
  <1> QED
      BY <1>2, <1>3, <1>9, <1>10, <1>11, <1>12, ForgetKeeps

LEMMA FuseForgetmultiReleaseKeeps ==
    ASSUME Inv, NEW c, FuseForgetmultiRelease(c)
    PROVE  Inv'
  <1>1. PICK m : m = [leaf |-> c, n |-> known[c]]
      OBVIOUS
  <1>2. /\ Forget(c) /\ cQueue' = Append(cQueue, ReleaseJob(m))
        /\ forgetting' = forgetting \cup {m} /\ requests' = requests + 1
      BY <1>1 DEF FuseForgetmultiRelease
  <1>3. c \in DOMAIN known /\ sQueue' = sQueue /\ applying' = applying /\ sReads' = sReads
      BY <1>2 DEF Forget, clientVars, serverVars
  <1>4. c \in DOMAIN cLeaf /\ known[c] \in Nat \ {0}
      BY <1>3 DEF Inv, TypeInv, KernelType
  <1>5. m \in [leaf : DOMAIN cLeaf, n : Nat \ {0}] /\ m.leaf = c /\ m.n = known[c]
      BY <1>1, <1>4
  <1>6. PICK k \in JobType :
           /\ k = ReleaseJob(m) /\ Sound(k) /\ Idle(k)
           /\ k.op = "ReleaseLeafRef" /\ k.leaf = m.leaf /\ k.x = m.n
      BY <1>5, ForgetJobs
  <1>7. QueueType /\ cQueue' = Append(cQueue, k)
      BY <1>2, <1>6 DEF Inv, TypeInv
  <1>8. /\ QueueType' /\ Jobs(cQueue') = Jobs(cQueue) \cup {k} /\ Jobs(sQueue') = Jobs(sQueue)
        /\ \A n : /\ LiveCount(n) \in Nat /\ LiveCount(n)' \in Nat
                  /\ LiveCount(n)' = LiveCount(n) + LiveW(n)[k]
        /\ \A n, O : IsFiniteSet(O) =>
              /\ OwnerSum(n, cQueue, sQueue, O) \in Nat /\ OwnerSum(n, cQueue', sQueue', O) \in Nat
              /\ OwnerSum(n, cQueue', sQueue', O) = OwnerSum(n, cQueue, sQueue, O) + ReleaseW(n)[k]
        /\ \A i : Sum(cQueue', PendingW(i)) = Sum(cQueue, PendingW(i)) + PendingW(i)[k]
      BY <1>3, <1>7, Scheduled
  <1>9. \A i : Sum(cQueue', PendingW(i)) = Sum(cQueue, PendingW(i)) + (IF i = c THEN known[c] ELSE 0)
    <2>1. \A i : PendingW(i)[k] = IF i = c THEN known[c] ELSE 0
        BY <1>4, <1>5, <1>6, Weights
    <2> QED
        BY <1>8, <2>1
  <1>10. \A i \in Jobs(cQueue') : i \in Jobs(cQueue) \/ (Idle(i) /\ Sound(i))
      BY <1>6, <1>8
  <1>11. /\ requests' \in Nat /\ 1..requests \subseteq 1..requests'
         /\ forgetting' \subseteq [leaf : DOMAIN cLeaf, n : Nat \ {0}] /\ IsFiniteSet(forgetting')
    <2>1. requests \in Nat /\ forgetting \subseteq [leaf : DOMAIN cLeaf, n : Nat \ {0}] /\ IsFiniteSet(forgetting)
        BY DEF Inv, TypeInv, KernelType
    <2>2. IsFiniteSet(forgetting \cup {m})
        BY <2>1, FS_AddElement
    <2> QED
        BY <1>2, <1>5, <2>1, <2>2
  <1>12. \A n : LiveW(n)[k] = 0 /\ ReleaseW(n)[k] = 0
      BY <1>6, IdleWeights
  <1>13. \A n : LiveCount(n) \in Nat /\ LiveCount(n)' = LiveCount(n)
      BY <1>8, <1>12
  <1>14. \A n, O : IsFiniteSet(O) =>
              /\ OwnerSum(n, cQueue, sQueue, O) \in Nat
              /\ OwnerSum(n, cQueue', sQueue', O) = OwnerSum(n, cQueue, sQueue, O)
      BY <1>8, <1>12
  <1> QED
      BY <1>2, <1>3, <1>8, <1>9, <1>10, <1>11, <1>13, <1>14, ForgetKeeps

LEMMA FuseForgetmultiRequestKeeps ==
    ASSUME Inv, NEW m \in forgetting, FuseForgetmultiRequest(m)
    PROVE  Inv'
  <1>1. /\ forgetting' = forgetting \ {m}
        /\ UNCHANGED <<diskVars, serverVars, sQueue, clientVars, kernelVars>>
        /\ \/ cQueue' = Append(cQueue, ForwardForget(m)) /\ fault' = fault
           \/ fault' = "forgetMulti" /\ cQueue' = cQueue
      BY DEF FuseForgetmultiRequest, Fail
  <1>2. /\ UNCHANGED <<diskVars, sLeaf, sHandles, sReads, leaked, sQueue>>
        /\ UNCHANGED <<cLeaf, index, applying, reqs, known, opened, requests>>
      BY <1>1 DEF serverVars, clientVars, kernelVars
  <1>3. m \in [leaf : DOMAIN cLeaf, n : Nat \ {0}] /\ QueueType /\ RefInv /\ IsFiniteSet(opened)
      BY DEF Inv, TypeInv, KernelType
  <1>4. PICK j \in JobType : j = ForwardForget(m) /\ Sound(j) /\ Idle(j) /\ j.op = "ForgetMulti"
      BY <1>3, ForgetJobs
  <1>5. /\ QueueType' /\ Jobs(cQueue') \subseteq Jobs(cQueue) \cup {j} /\ Jobs(sQueue') = Jobs(sQueue)
        /\ \A n : LiveCount(n) \in Nat /\ LiveCount(n)' = LiveCount(n)
        /\ \A n, O : IsFiniteSet(O) =>
              /\ OwnerSum(n, cQueue, sQueue, O) \in Nat
              /\ OwnerSum(n, cQueue', sQueue', O) = OwnerSum(n, cQueue, sQueue, O)
        /\ \A i : Sum(cQueue', PendingW(i)) = Sum(cQueue, PendingW(i))
    <2>1. CASE cQueue' = Append(cQueue, j)
      <3>1. /\ QueueType' /\ Jobs(cQueue') = Jobs(cQueue) \cup {j} /\ Jobs(sQueue') = Jobs(sQueue)
            /\ \A n : /\ LiveCount(n) \in Nat /\ LiveCount(n)' \in Nat
                      /\ LiveCount(n)' = LiveCount(n) + LiveW(n)[j]
            /\ \A n, O : IsFiniteSet(O) =>
                  /\ OwnerSum(n, cQueue, sQueue, O) \in Nat /\ OwnerSum(n, cQueue', sQueue', O) \in Nat
                  /\ OwnerSum(n, cQueue', sQueue', O) = OwnerSum(n, cQueue, sQueue, O) + ReleaseW(n)[j]
            /\ \A i : Sum(cQueue', PendingW(i)) = Sum(cQueue, PendingW(i)) + PendingW(i)[j]
          BY <1>2, <1>3, <2>1, Scheduled
      <3>2. \A n : LiveW(n)[j] = 0 /\ ReleaseW(n)[j] = 0 /\ PendingW(n)[j] = 0
          BY <1>4, IdleWeights, NotPending
      <3>3. \A i : Sum(cQueue, PendingW(i)) \in Nat
          BY <1>3, PendingSums DEF QueueType
      <3>4. \A n : LiveCount(n) \in Nat /\ LiveCount(n)' = LiveCount(n)
          BY <3>1, <3>2
      <3>5. \A n, O : IsFiniteSet(O) =>
              /\ OwnerSum(n, cQueue, sQueue, O) \in Nat
              /\ OwnerSum(n, cQueue', sQueue', O) = OwnerSum(n, cQueue, sQueue, O)
          BY <3>1, <3>2
      <3>6. \A i : Sum(cQueue', PendingW(i)) = Sum(cQueue, PendingW(i))
          BY <3>1, <3>2, <3>3
      <3> QED
          BY <3>1, <3>4, <3>5, <3>6
    <2>2. CASE cQueue' = cQueue
      <3>1. QueueType' /\ Jobs(cQueue') = Jobs(cQueue) /\ Jobs(sQueue') = Jobs(sQueue)
          BY <1>2, <1>3, <2>2 DEF QueueType
      <3>2. \A n : LiveCount(n)' = LiveCount(n)
          BY <1>2, <2>2, Zenon DEF LiveCount
      <3>3. \A n : LiveCount(n) \in Nat
          BY <1>3, QueuesArePlaces, LiveType DEF LiveCount
      <3>4. \A n, O : IsFiniteSet(O) => OwnerSum(n, cQueue, sQueue, O) \in Nat
          BY <1>3, OwnerType DEF Homes, QueueType
      <3> QED
          BY <1>2, <2>2, <3>1, <3>2, <3>3, <3>4
    <2> QED
        BY <1>1, <1>4, <2>1, <2>2
  <1>6. TypeInv' /\ TreeInv' /\ Grows
      BY <1>1, <1>2, <1>5, QueueStep
  <1>7. SoundInv'
    <2>1. Sound(j)'
        BY <1>4, <1>6, SoundStays
    <2> QED
        BY <1>5, <1>6, <2>1, SoundFrame DEF Inv
  <1>8. RequestInv'
    <2>1. \A i \in Jobs(cQueue') : i \in Jobs(cQueue) \/ ServedByClient(i)
        BY <1>4, <1>5 DEF ServedByClient, Idle
    <2>2. \A i \in Jobs(sQueue') \cup sReads' \cup Jobs(applying') :
             i \in Jobs(sQueue) \cup sReads \cup Jobs(applying)
        BY <1>2, <1>5
    <2>3. \A n \in Nat : LiveCount(n)' \in Nat /\ LiveCount(n) \in Nat /\ LiveCount(n)' <= LiveCount(n)
        BY <1>5
    <2> QED
        BY <1>2, <2>1, <2>2, <2>3, RequestFrame DEF Inv
  <1>9. HandleInv'
    <2>1. Owned(j)'
        BY <1>4 DEF Owned, Opens, Releases
    <2>2. \A i \in Jobs(cQueue') \cup Jobs(sQueue') : i \in Jobs(cQueue) \cup Jobs(sQueue) \/ Owned(i)'
        BY <1>5, <2>1
    <2>3. \A n : Owners(n)' = Owners(n) /\ Owners(n) \in Nat
        BY <1>2, <1>3, <1>5 DEF Owners
    <2>4. \A n \in Nat : Owners(n)' \in Nat /\ Owners(n) \in Nat /\ Owners(n)' <= Owners(n)
        BY <2>3
    <2> QED
        BY <1>2, <2>2, <2>4, HandleFrame DEF Inv
  <1>10. RefInv'
    <2>1. fault' # "clientRefs"
        BY <1>1, <1>3 DEF RefInv
    <2> QED
        BY <1>2, <1>3, <1>5, <2>1, RefFrame
  <1> QED
      BY <1>6, <1>7, <1>8, <1>9, <1>10 DEF Inv

-----------------------------------------------------------------------------
(* What the client's main queue does with what the server sends.           *)

\* No job that is left serves the request that was answered.
LEMMA AnsweredAlone ==
    ASSUME Inv, NEW h, LiveCount(h.req)' \in Nat, LiveW(h.req)[h] = 1, LiveCount(h.req) \in Nat,
           LiveCount(h.req) = LiveCount(h.req)' + LiveW(h.req)[h], h.req \in Nat, QueueType'
    PROVE  \A j \in Jobs(cQueue') \cup Jobs(sQueue') \cup Jobs(applying') \cup sReads' :
              Live(j) => j.req # h.req
  <1>1. LiveCount(h.req) <= 1
      BY DEF Inv, RequestInv
  <1>2. LiveCount(h.req)' = 0
      BY <1>1
  <1>3. LiveSum(h.req, cQueue', sQueue', applying', sReads') = 0
      BY <1>2 DEF LiveCount
  <1>4. Places(cQueue', sQueue', applying', sReads')
      BY DEF Places, QueueType
  <1> QED
      BY <1>3, <1>4, NoneLive

\* The requests that are left are served as before.
LEMMA RequestsLeft ==
    ASSUME Inv, NEW h, h \in JobType, reqs' = {r \in reqs : r.req # h.req}, opened \subseteq opened',
           Jobs(cQueue') \subseteq Jobs(cQueue),
           Jobs(sQueue') \cup sReads' \cup Jobs(applying') \subseteq
               Jobs(sQueue) \cup sReads \cup Jobs(applying),
           QueueType', Live(h) \/ h.req = 0,
           \A n : /\ LiveCount(n) \in Nat /\ LiveCount(n)' \in Nat
                  /\ LiveCount(n) = LiveCount(n)' + LiveW(n)[h]
    PROVE  RequestInv'
  <1>1. \A r \in reqs : r.req \in Nat \ {0}
      BY DEF Inv, TypeInv, KernelType
  <1>2. \A j \in Jobs(cQueue') \cup Jobs(sQueue') \cup Jobs(applying') \cup sReads' :
           \A r \in reqs : Live(j) /\ j.req = r.req => r \in reqs'
    <2>1. CASE h.req = 0
        BY <1>1, <2>1
    <2>2. CASE Live(h)
      <3>1. LiveW(h.req)[h] = 1
          BY <2>2, Weights
      <3>2. h.req \in Nat
          BY FieldTypes
      <3>3. \A j \in Jobs(cQueue') \cup Jobs(sQueue') \cup Jobs(applying') \cup sReads' :
               Live(j) => j.req # h.req
          BY <3>1, <3>2, AnsweredAlone
      <3> QED
          BY <3>3
    <2> QED
        BY <2>1, <2>2
  <1>3. ASSUME NEW j, NEW r, Serves(j, r) PROVE Serves(j, r)' /\ j.req = r.req
      BY <1>3 DEF Serves
  <1>4. \A j \in Jobs(cQueue') : ServedByClient(j)'
    <2>1. SUFFICES ASSUME NEW j \in Jobs(cQueue'), Live(j)
                   PROVE  \E r \in reqs' : Serves(j, r)' /\ (j.op \in RequestOps => j.leaf = r.leaf)
        BY DEF ServedByClient
    <2>2. PICK r \in reqs : Serves(j, r) /\ (j.op \in RequestOps => j.leaf = r.leaf)
        BY <2>1 DEF Inv, RequestInv, ServedByClient
    <2> QED
        BY <1>2, <1>3, <2>1, <2>2
  <1>5. \A j \in Jobs(sQueue') \cup sReads' \cup Jobs(applying') : Served(j)'
    <2>1. SUFFICES ASSUME NEW j \in Jobs(sQueue') \cup sReads' \cup Jobs(applying'), Live(j)
                   PROVE  \E r \in reqs' : Serves(j, r)'
        BY DEF Served
    <2>2. PICK r \in reqs : Serves(j, r)
        BY <2>1 DEF Inv, RequestInv, Served
    <2> QED
        BY <1>2, <1>3, <2>1, <2>2
  <1>6. ASSUME NEW n \in Nat PROVE LiveCount(n)' <= 1
    <2>1. LiveW(n)[h] \in {0, 1} /\ LiveCount(n) <= 1
        BY Weights DEF Inv, RequestInv
    <2> QED
        BY <2>1
  <1>7. /\ \A r, p \in reqs' : r.req = p.req => r = p
        /\ \A r \in reqs' : r.leaf = Dir <=> r.op \in DirOps
      BY DEF Inv, RequestInv
  <1>8. Jobs(cQueue') = Jobs(cQueue)' /\ Jobs(sQueue') = Jobs(sQueue)' /\ Jobs(applying') = Jobs(applying)'
      BY DEF Jobs
  <1> QED
      BY <1>4, <1>5, <1>6, <1>7, <1>8, Zenon DEF RequestInv

\* A job that the main queue runs, which may answer a request and change the tree.
LEMMA ClientStep ==
    ASSUME Inv, cQueue # <<>>, cQueue' = Tail(cQueue),
           UNCHANGED <<diskVars, serverVars, sQueue, applying, opened, requests, forgetting>>,
           \/ reqs' = reqs
           \/ /\ reqs' = {r \in reqs : r.req # Head(cQueue).req}
              /\ Live(Head(cQueue)) \/ Head(cQueue).op = "ForgetMultiIn",
           IsTree(cLeaf'), DOMAIN cLeaf \subseteq DOMAIN cLeaf', TreeInv',
           DOMAIN known \subseteq DOMAIN known', DOMAIN known' \subseteq DOMAIN cLeaf',
           known' \in [DOMAIN known' -> Nat \ {0}], RefInv'
    PROVE  Inv'
  <1>1. UNCHANGED <<sLeaf, sHandles, sReads, leaked>>
      BY DEF serverVars
  <1>2. QueueType /\ IsFiniteSet(opened)
      BY DEF Inv, TypeInv, KernelType
  <1>3. PICK h : h = Head(cQueue)
      OBVIOUS
  <1>4. /\ QueueType' /\ Jobs(cQueue') \subseteq Jobs(cQueue) /\ Jobs(sQueue') = Jobs(sQueue)
        /\ h \in JobType /\ h \in Jobs(cQueue)
        /\ \A n : /\ LiveCount(n) \in Nat /\ LiveCount(n)' \in Nat
                  /\ LiveCount(n) = LiveCount(n)' + LiveW(n)[h]
        /\ \A n, O : IsFiniteSet(O) =>
              /\ OwnerSum(n, cQueue, sQueue, O) \in Nat /\ OwnerSum(n, cQueue', sQueue', O) \in Nat
              /\ OwnerSum(n, cQueue, sQueue, O)
                     = OwnerSum(n, cQueue', sQueue', O) + ReleaseW(n)[h]
      BY <1>1, <1>2, <1>3, Ran
  <1>5. Sound(h)
      BY <1>4 DEF Inv, SoundInv
  <1>6. Grows
      BY <1>1 DEF Grows
  <1>7. TypeInv'
    <2>1. DiskType' /\ IsTree(sLeaf)'
        BY <1>1 DEF Inv, TypeInv, DiskType, diskVars, IsTree
    <2>2. \A r \in reqs' : r \in [req : 1..requests, op : RequestOps, leaf : DOMAIN known']
      <3>1. \A r \in reqs' : r \in [req : 1..requests, op : RequestOps, leaf : DOMAIN known]
          BY DEF Inv, TypeInv, KernelType
      <3> QED
          BY <3>1
    <2>3. \A o \in opened : o \in [leaf : DOMAIN known', handle : 1..requests]
      <3>1. \A o \in opened : o \in [leaf : DOMAIN known, handle : 1..requests]
          BY DEF Inv, TypeInv, KernelType
      <3> QED
          BY <3>1
    <2>4. \A m \in forgetting : m \in [leaf : DOMAIN cLeaf', n : Nat \ {0}]
      <3>1. \A m \in forgetting : m \in [leaf : DOMAIN cLeaf, n : Nat \ {0}]
          BY DEF Inv, TypeInv, KernelType
      <3> QED
          BY <3>1
    <2>5. KernelType'
        BY <1>1, <2>2, <2>3, <2>4 DEF Inv, TypeInv, KernelType
    <2> QED
        BY <1>4, <2>1, <2>5 DEF TypeInv, IsTree
  <1>8. SoundInv'
      BY <1>4, <1>6, SoundFrame DEF Inv
  <1>9. Jobs(applying') = Jobs(applying)
      BY Zenon
  <1>10. RequestInv'
    <2>1. CASE reqs' = reqs
      <3>1. \A n \in Nat : LiveCount(n)' \in Nat /\ LiveCount(n) \in Nat /\ LiveCount(n)' <= LiveCount(n)
        <4>1. \A n : LiveW(n)[h] \in {0, 1}
            BY <1>4, Weights
        <4> QED
            BY <1>4, <4>1
      <3> QED
          BY <1>1, <1>4, <1>9, <2>1, <3>1, RequestFrame DEF Inv
    <2>2. CASE /\ reqs' = {r \in reqs : r.req # h.req}
               /\ Live(h) \/ h.op = "ForgetMultiIn"
      <3>1. Live(h) \/ h.req = 0
          BY <1>5, <2>2 DEF Sound
      <3>2. Jobs(sQueue') \cup sReads' \cup Jobs(applying') \subseteq
               Jobs(sQueue) \cup sReads \cup Jobs(applying)
          BY <1>1, <1>4, <1>9
      <3> QED
          BY <1>4, <2>2, <3>1, <3>2, RequestsLeft
    <2> QED
        BY <1>3, <2>1, <2>2
  <1>11. HandleInv'
    <2>1. \A n \in Nat : Owners(n)' \in Nat /\ Owners(n) \in Nat /\ Owners(n)' <= Owners(n)
      <3>1. ASSUME NEW n PROVE ReleaseW(n)[h] \in {0, 1}
          BY <1>4, Weights
      <3>2. ASSUME NEW n
            PROVE  /\ Owners(n)' \in Nat /\ Owners(n) \in Nat /\ Owners(n) = Owners(n)' + ReleaseW(n)[h]
          BY <1>2, <1>4 DEF Owners
      <3> QED
          BY <3>1, <3>2
    <2>2. reqs' \subseteq reqs
        OBVIOUS
    <2> QED
        BY <1>1, <1>4, <2>1, <2>2, HandleFrame DEF Inv
  <1> QED
      BY <1>7, <1>8, <1>10, <1>11 DEF Inv

\* The waiting releases after a job that is none.
LEMMA PendingRan ==
    ASSUME Inv, cQueue # <<>>, cQueue' = Tail(cQueue)
    PROVE  /\ Head(cQueue) \in JobType /\ Head(cQueue) \in Jobs(cQueue) /\ Sound(Head(cQueue))
           /\ \A i : /\ Sum(cQueue, PendingW(i)) \in Nat /\ Sum(cQueue', PendingW(i)) \in Nat
                     /\ Sum(cQueue, PendingW(i)) = Sum(cQueue', PendingW(i)) + PendingW(i)[Head(cQueue)]
           /\ Head(cQueue).op # "ReleaseLeafRef" =>
                 \A i : Sum(cQueue', PendingW(i)) = Sum(cQueue, PendingW(i))
  <1>1. PICK q \in Seq(JobType) : q = cQueue
      BY DEF Inv, TypeInv, QueueType
  <1>2. Head(q) \in JobType /\ Head(q) \in Jobs(q) /\ Tail(q) \in Seq(JobType)
      BY <1>1, QueueTail
  <1>3. ASSUME NEW i
        PROVE  /\ Sum(q, PendingW(i)) \in Nat /\ Sum(Tail(q), PendingW(i)) \in Nat
               /\ Sum(q, PendingW(i)) = Sum(Tail(q), PendingW(i)) + PendingW(i)[Head(q)]
    <2>1. PendingW(i) \in [JobType -> Nat]
        BY WeightTypes
    <2>2. Sum(q, PendingW(i)) = Sum(Tail(q), PendingW(i)) + PendingW(i)[Head(q)]
        BY <1>1, <2>1, SumTail
    <2> QED
        BY <1>2, <2>2, PendingSums
  <1>4. Sound(Head(q))
      BY <1>1, <1>2 DEF Inv, SoundInv
  <1>5. Head(q).op # "ReleaseLeafRef" => \A i : PendingW(i)[Head(q)] = 0
      BY <1>2, NotPending
  <1>6. Head(q).op # "ReleaseLeafRef" => \A i : Sum(Tail(q), PendingW(i)) = Sum(q, PendingW(i))
      BY <1>3, <1>5
  <1> QED
      BY <1>1, <1>2, <1>3, <1>4, <1>6

LEMMA OnlyAnsweredKeeps ==
    ASSUME Inv, ResponseReleaseIn \/ ResponseReleaseDirIn \/ ResponseGetAttrIn \/ ResponseForgetMultiIn
    PROVE  Inv'
  <1>1. /\ cQueue # <<>> /\ OnlyAnswered
        /\ Head(cQueue).op \in {"ReleaseIn", "ReleaseDirIn", "GetAttrIn", "ForgetMultiIn"}
      BY DEF ResponseReleaseIn, ResponseReleaseDirIn, ResponseGetAttrIn, ResponseForgetMultiIn, ClientHead
  <1>2. /\ cQueue' = Tail(cQueue)
        /\ UNCHANGED <<diskVars, serverVars, sQueue, applying, opened, requests, forgetting>>
        /\ UNCHANGED <<cLeaf, index, known, fault>>
        /\ reqs' = {r \in reqs : r.req # Head(cQueue).req}
      BY <1>1 DEF OnlyAnswered, Answered, ClientDone, ClientJob, clientVars
  <1>3. Live(Head(cQueue)) \/ Head(cQueue).op = "ForgetMultiIn"
      BY <1>1 DEF Live, AnswerOps
  <1>4. TreeInv'
    <2>1. Grows /\ OneOfAName(sLeaf')
        BY <1>2 DEF Grows, serverVars, Inv, TreeInv
    <2> QED
        BY <1>2, <2>1, TreeFrame DEF Inv
  <1>5. IsTree(cLeaf') /\ DOMAIN cLeaf \subseteq DOMAIN cLeaf'
      BY <1>2 DEF Inv, TypeInv
  <1>6. /\ DOMAIN known \subseteq DOMAIN known' /\ DOMAIN known' \subseteq DOMAIN cLeaf'
        /\ known' \in [DOMAIN known' -> Nat \ {0}]
      BY <1>2 DEF Inv, TypeInv, KernelType
  <1>7. RefInv'
    <2>1. \A i : Sum(cQueue', PendingW(i)) = Sum(cQueue, PendingW(i))
        BY <1>1, <1>2, PendingRan
    <2>2. fault' # "clientRefs" /\ RefInv
        BY <1>2 DEF Inv, RefInv
    <2> QED
        BY <1>2, <2>1, <2>2, RefFrame
  <1> QED
      BY <1>1, <1>2, <1>3, <1>4, <1>5, <1>6, <1>7, ClientStep

LEMMA ResponseReadFileErrorKeeps ==
    ASSUME Inv, ResponseReadFileError
    PROVE  Inv'
  <1>1. /\ cQueue # <<>> /\ Head(cQueue).op = "ReadErrorIn" /\ cQueue' = Tail(cQueue)
        /\ UNCHANGED <<diskVars, serverVars, sQueue, applying, opened, requests, forgetting>>
        /\ UNCHANGED <<cLeaf, index, known, reqs, fault>>
      BY DEF ResponseReadFileError, ClientHead, ClientDone, clientVars
  <1>2. TreeInv'
    <2>1. Grows /\ OneOfAName(sLeaf')
        BY <1>1 DEF Grows, serverVars, Inv, TreeInv
    <2> QED
        BY <1>1, <2>1, TreeFrame DEF Inv
  <1>3. IsTree(cLeaf') /\ DOMAIN cLeaf \subseteq DOMAIN cLeaf'
      BY <1>1 DEF Inv, TypeInv
  <1>4. /\ DOMAIN known \subseteq DOMAIN known' /\ DOMAIN known' \subseteq DOMAIN cLeaf'
        /\ known' \in [DOMAIN known' -> Nat \ {0}]
      BY <1>1 DEF Inv, TypeInv, KernelType
  <1>5. RefInv'
    <2>1. \A i : Sum(cQueue', PendingW(i)) = Sum(cQueue, PendingW(i))
        BY <1>1, PendingRan
    <2>2. fault' # "clientRefs" /\ RefInv
        BY <1>1 DEF Inv, RefInv
    <2> QED
        BY <1>1, <2>1, <2>2, RefFrame
  <1> QED
      BY <1>1, <1>2, <1>3, <1>4, <1>5, ClientStep

\* A tree that differs from the client's in its counts only.
LEMMA OnlyCounted ==
    ASSUME Inv, sLeaf' = sLeaf, index' = index, DOMAIN cLeaf' = DOMAIN cLeaf,
           \A i \in DOMAIN cLeaf : /\ cLeaf'[i].name = cLeaf[i].name /\ cLeaf'[i].server = cLeaf[i].server
                                   /\ cLeaf'[i].linked = cLeaf[i].linked
    PROVE  TreeInv'
  <1>1. OneOfAName(cLeaf')
      BY SameNames DEF Inv, TreeInv
  <1>2. Dir \in DOMAIN cLeaf
      BY DEF Inv, TypeInv, IsTree
  <1>3. IndexAgrees'
      BY DEF Inv, TreeInv, IndexAgrees
  <1>4. Stands'
      BY DEF Inv, TreeInv, Stands
  <1>5. OneOfAName(sLeaf') /\ cLeaf'[Dir].server = Dir /\ cLeaf'[Dir].linked
      BY <1>2 DEF Inv, TreeInv
  <1>6. OneOfAName(sLeaf)' /\ OneOfAName(cLeaf)'
      BY <1>1, <1>5 DEF OneOfAName
  <1> QED
      BY <1>3, <1>4, <1>5, <1>6 DEF TreeInv

\* The count covers what the queue has still to take off.
LEMMA ReleaseLeafRefKeeps ==
    ASSUME Inv, ReleaseLeafRef
    PROVE  Inv'
  <1>1. PICK h : h = Head(cQueue)
      OBVIOUS
  <1>2. /\ cQueue # <<>> /\ h.op = "ReleaseLeafRef" /\ cQueue' = Tail(cQueue)
        /\ UNCHANGED <<diskVars, serverVars, sQueue, applying, opened, requests, forgetting>>
        /\ UNCHANGED <<index, known, reqs>>
      BY <1>1 DEF ReleaseLeafRef, ClientHead, ClientDone
  <1>3. h \in JobType /\ h.leaf \in DOMAIN cLeaf /\ h.x \in Nat \ {0}
      BY <1>1, <1>2, PendingRan DEF Sound
  <1>4. PICK c \in DOMAIN cLeaf, x \in Nat : c = h.leaf /\ x = h.x
      BY <1>3
  <1>5. \A i : PendingW(i)[h] = IF i = c THEN x ELSE 0
      BY <1>2, <1>3, <1>4, Weights
  <1>6. \A i : /\ Sum(cQueue, PendingW(i)) \in Nat /\ Sum(cQueue', PendingW(i)) \in Nat
               /\ Sum(cQueue, PendingW(i)) = Sum(cQueue', PendingW(i)) + PendingW(i)[h]
      BY <1>1, <1>2, PendingRan
  <1>7. \A i \in DOMAIN cLeaf : Lookups(i) \in Nat /\ cLeaf[i].refs = Lookups(i) + Sum(cQueue, PendingW(i))
      BY DEF Lookups, Inv, RefInv, TypeInv, KernelType
  <1>8. cLeaf[c].refs >= x
    <2>1. PICK l \in Nat, s \in Nat : l = Lookups(c) /\ s = Sum(cQueue', PendingW(c))
        BY <1>3, <1>4, <1>6, <1>7
    <2>2. Sum(cQueue, PendingW(c)) = s + x
        BY <1>5, <1>6, <2>1
    <2>3. cLeaf[c].refs = l + (s + x)
        BY <1>3, <1>4, <1>7, <2>1, <2>2
    <2> QED
        BY <2>3
  <1>9. cLeaf' = ReleaseRef(cLeaf, c, x) /\ fault' = fault
      BY <1>1, <1>4, <1>8 DEF ReleaseLeafRef, ClientJob
  <1>10. /\ IsTree(cLeaf') /\ DOMAIN cLeaf' = DOMAIN cLeaf
         /\ \A i \in DOMAIN cLeaf : /\ cLeaf'[i].name = cLeaf[i].name
                                    /\ cLeaf'[i].server = cLeaf[i].server
                                    /\ cLeaf'[i].linked = cLeaf[i].linked
                                    /\ cLeaf'[i].refs = cLeaf[i].refs - (IF i = c THEN x ELSE 0)
    <2>1. IsTree(cLeaf)
        BY DEF Inv, TypeInv
    <2> QED
        BY <1>8, <1>9, <2>1, ReleaseRefFacts
  <1>11. sLeaf' = sLeaf
      BY <1>2 DEF serverVars
  <1>12. TreeInv'
      BY <1>2, <1>10, <1>11, OnlyCounted
  <1>13. RefInv'
    <2>1. ASSUME NEW i \in DOMAIN cLeaf'
          PROVE  cLeaf'[i].refs = Lookups(i)' + Sum(cQueue', PendingW(i))
      <3>1. PICK l \in Nat, s \in Nat, k \in Nat :
               l = Lookups(i) /\ s = Sum(cQueue', PendingW(i)) /\ k = IF i = c THEN x ELSE 0
          BY <1>6, <1>7, <1>10
      <3>2. Sum(cQueue, PendingW(i)) = s + k
          BY <1>5, <1>6, <3>1
      <3>3. cLeaf[i].refs = l + (s + k)
          BY <1>7, <1>10, <3>1, <3>2
      <3>4. cLeaf'[i].refs = (l + (s + k)) - k
          BY <1>10, <3>1, <3>3
      <3>5. Lookups(i)' = l
          BY <1>2, <3>1 DEF Lookups
      <3> QED
          BY <3>1, <3>4, <3>5
    <2>2. fault' # "clientRefs"
        BY <1>9 DEF Inv, RefInv
    <2>3. \A i : PendingW(i)' = PendingW(i)
        BY DEF PendingW
    <2> QED
        BY <2>1, <2>2, <2>3 DEF RefInv, Sum
  <1>14. /\ DOMAIN known \subseteq DOMAIN known' /\ DOMAIN known' \subseteq DOMAIN cLeaf'
         /\ known' \in [DOMAIN known' -> Nat \ {0}] /\ DOMAIN cLeaf \subseteq DOMAIN cLeaf'
      BY <1>2, <1>10 DEF Inv, TypeInv, KernelType
  <1> QED
      BY <1>2, <1>10, <1>12, <1>13, <1>14, ClientStep

LEMMA ResponseReadFileInKeeps ==
    ASSUME Inv, ResponseReadFileIn
    PROVE  Inv'
  <1>1. PICK h : h = Head(cQueue)
      OBVIOUS
  <1>2. /\ cQueue # <<>> /\ h.op \in {"ReadIn", "PrefetchIn"} /\ cQueue' = Tail(cQueue)
        /\ applying' = Append(applying, Head(cQueue))
        /\ UNCHANGED <<diskVars, sLeaf, sHandles, sReads, leaked, sQueue, opened, requests, forgetting>>
        /\ UNCHANGED <<cLeaf, index, known, reqs, fault>>
      BY <1>1 DEF ResponseReadFileIn, ClientHead, ClientDone, ClientJob, serverVars
  <1>3. QueueType /\ IsFiniteSet(opened) /\ RefInv
      BY DEF Inv, TypeInv, KernelType
  <1>4. /\ QueueType' /\ Jobs(cQueue') \subseteq Jobs(cQueue) /\ Jobs(sQueue') = Jobs(sQueue)
        /\ h \in Jobs(cQueue) /\ Jobs(applying') = Jobs(applying) \cup {h}
        /\ \A n : LiveCount(n) \in Nat /\ LiveCount(n)' \in Nat /\ LiveCount(n)' <= LiveCount(n)
        /\ \A n, O : IsFiniteSet(O) =>
              /\ OwnerSum(n, cQueue, sQueue, O) \in Nat /\ OwnerSum(n, cQueue', sQueue', O) \in Nat
              /\ OwnerSum(n, cQueue', sQueue', O) <= OwnerSum(n, cQueue, sQueue, O)
      BY <1>1, <1>2, <1>3, HandedToCache
  <1>5. TypeInv' /\ TreeInv' /\ Grows
      BY <1>2, <1>4, QueueStep
  <1>6. SoundInv'
      BY <1>4, <1>5, SoundFrame DEF Inv
  <1>7. RequestInv'
    <2>1. Served(h)
        BY <1>4 DEF Inv, RequestInv, Served, ServedByClient
    <2>2. \A j \in Jobs(sQueue') \cup sReads' \cup Jobs(applying') :
             j \in Jobs(sQueue) \cup sReads \cup Jobs(applying) \/ Served(j)
        BY <1>2, <1>4, <2>1
    <2>3. \A n \in Nat : LiveCount(n)' \in Nat /\ LiveCount(n) \in Nat /\ LiveCount(n)' <= LiveCount(n)
        BY <1>4
    <2> QED
        BY <1>2, <1>4, <2>2, <2>3, RequestFrame DEF Inv
  <1>8. HandleInv'
    <2>1. \A n \in Nat : Owners(n)' \in Nat /\ Owners(n) \in Nat /\ Owners(n)' <= Owners(n)
        BY <1>2, <1>3, <1>4 DEF Owners
    <2> QED
        BY <1>2, <1>4, <2>1, HandleFrame DEF Inv
  <1>9. RefInv'
    <2>1. \A i : Sum(cQueue', PendingW(i)) = Sum(cQueue, PendingW(i))
        BY <1>1, <1>2, PendingRan
    <2>2. fault' # "clientRefs"
        BY <1>2, <1>3 DEF RefInv
    <2> QED
        BY <1>2, <1>3, <2>1, <2>2, RefFrame
  <1> QED
      BY <1>5, <1>6, <1>7, <1>8, <1>9 DEF Inv

LEMMA ApplyBlockCacheKeeps ==
    ASSUME Inv, ApplyBlockCache
    PROVE  Inv'
  <1>1. PICK h : h = Head(applying)
      OBVIOUS
  <1>2. /\ applying # <<>> /\ applying' = Tail(applying)
        /\ UNCHANGED <<diskVars, sLeaf, sHandles, sReads, leaked, sQueue, opened, requests, forgetting>>
        /\ UNCHANGED <<cLeaf, index, known, cQueue>>
      BY DEF ApplyBlockCache, serverVars
  <1>3. /\ fault' = fault \/ fault' = "blockLeaf"
        /\ reqs' = reqs \/ (h.op = "ReadIn" /\ reqs' = {r \in reqs : r.req # h.req})
      BY <1>1 DEF ApplyBlockCache, Fail
  <1>4. QueueType /\ IsFiniteSet(opened) /\ RefInv
      BY DEF Inv, TypeInv, KernelType
  <1>5. /\ QueueType' /\ Jobs(applying') \subseteq Jobs(applying)
        /\ h \in JobType /\ h \in Jobs(applying)
        /\ \A n : /\ LiveCount(n) \in Nat /\ LiveCount(n)' \in Nat
                  /\ LiveCount(n) = LiveCount(n)' + LiveW(n)[h]
      BY <1>1, <1>2, <1>4, Applied
  <1>6. TypeInv' /\ TreeInv' /\ Grows
      BY <1>2, <1>3, <1>5, QueueStep
  <1>7. Jobs(cQueue') = Jobs(cQueue) /\ Jobs(sQueue') = Jobs(sQueue)
      BY <1>2
  <1>8. SoundInv'
      BY <1>6, <1>7, SoundFrame DEF Inv
  <1>9. RequestInv'
    <2>1. Jobs(sQueue') \cup sReads' \cup Jobs(applying') \subseteq
             Jobs(sQueue) \cup sReads \cup Jobs(applying)
        BY <1>2, <1>5, <1>7
    <2>2. CASE reqs' = reqs
      <3>1. \A n : LiveW(n)[h] \in {0, 1}
          BY <1>5, Weights
      <3>2. \A n \in Nat : LiveCount(n)' \in Nat /\ LiveCount(n) \in Nat /\ LiveCount(n)' <= LiveCount(n)
          BY <1>5, <3>1
      <3> QED
          BY <1>2, <1>7, <2>1, <2>2, <3>2, RequestFrame DEF Inv
    <2>3. CASE h.op = "ReadIn" /\ reqs' = {r \in reqs : r.req # h.req}
      <3>1. Live(h)
          BY <2>3 DEF Live, AnswerOps
      <3> QED
          BY <1>2, <1>5, <1>7, <2>1, <2>3, <3>1, RequestsLeft
    <2> QED
        BY <1>3, <2>2, <2>3
  <1>10. HandleInv'
    <2>1. \A n : Owners(n)' = Owners(n)
        BY <1>2, Zenon DEF Owners
    <2>2. \A n : Owners(n) \in Nat
        BY <1>4, OwnerType DEF Owners, Homes, QueueType
    <2>3. \A n \in Nat : Owners(n)' \in Nat /\ Owners(n) \in Nat /\ Owners(n)' <= Owners(n)
        BY <2>1, <2>2
    <2>4. reqs' \subseteq reqs
        BY <1>3
    <2> QED
        BY <1>2, <1>7, <2>3, <2>4, HandleFrame DEF Inv
  <1>11. RefInv'
    <2>1. fault' # "clientRefs"
        BY <1>3, <1>4 DEF RefInv
    <2> QED
        BY <1>2, <1>4, <2>1, RefFrame
  <1> QED
      BY <1>6, <1>8, <1>9, <1>10, <1>11 DEF Inv

-----------------------------------------------------------------------------
(* The client's tree follows the server's.                                 *)

\* The kernel knows nothing of a leaf that is not there yet, and no release waits for it.
LEMMA NothingOfNew ==
    ASSUME Inv, NEW c, c \notin DOMAIN cLeaf
    PROVE  Sum(cQueue, PendingW(c)) = 0 /\ Lookups(c) = 0
  <1>1. c \notin DOMAIN known
      BY DEF Inv, TypeInv, KernelType
  <1>2. PICK q \in Seq(JobType) : q = cQueue
      BY DEF Inv, TypeInv, QueueType
  <1>3. ASSUME NEW j \in Jobs(q) PROVE PendingW(c)[j] = 0
    <2>1. j \in JobType /\ Sound(j)
        BY <1>2, <1>3, QueueJobs DEF Inv, SoundInv
    <2>2. ~(j.op = "ReleaseLeafRef" /\ j.leaf = c)
        BY <2>1 DEF Sound
    <2> QED
        BY <2>1, <2>2, Weights
  <1>4. PendingW(c) \in [JobType -> Nat]
      BY WeightTypes
  <1>5. Sum(q, PendingW(c)) = 0
      BY <1>3, <1>4, SumZero
  <1> QED
      BY <1>1, <1>2, <1>5 DEF Lookups

\* What the kernel is given is counted on both sides.
LEMMA CountedOnce ==
    ASSUME Inv, NEW S, Given(S), S \subseteq DOMAIN cLeaf', DOMAIN cLeaf \subseteq DOMAIN cLeaf',
           \A i \in DOMAIN cLeaf' :
              cLeaf'[i].refs = (IF i \in DOMAIN cLeaf THEN cLeaf[i].refs ELSE 0) + (IF i \in S THEN 1 ELSE 0),
           \A i : Sum(cQueue', PendingW(i)) = Sum(cQueue, PendingW(i)), fault' # "clientRefs"
    PROVE  /\ DOMAIN known \subseteq DOMAIN known' /\ DOMAIN known' \subseteq DOMAIN cLeaf'
           /\ known' \in [DOMAIN known' -> Nat \ {0}] /\ RefInv'
  <1>1. /\ DOMAIN known' = DOMAIN known \cup S
        /\ \A c \in DOMAIN known' : known'[c] = IF c \in S THEN Lookups(c) + 1 ELSE known[c]
        /\ known' = [c \in DOMAIN known' |-> known'[c]]
      BY DEF Given
  <1>2. DOMAIN known \subseteq DOMAIN cLeaf /\ known \in [DOMAIN known -> Nat \ {0}]
      BY DEF Inv, TypeInv, KernelType
  <1>3. \A c : Lookups(c) \in Nat
      BY <1>2 DEF Lookups
  <1>4. \A c \in DOMAIN known' : known'[c] \in Nat \ {0}
      BY <1>1, <1>2, <1>3
  <1>5. \A i : Lookups(i)' = Lookups(i) + (IF i \in S THEN 1 ELSE 0)
      BY <1>1, <1>2 DEF Lookups
  <1>6. ASSUME NEW i \in DOMAIN cLeaf'
        PROVE  cLeaf'[i].refs = Lookups(i)' + Sum(cQueue', PendingW(i))
    <2>1. PICK l \in Nat, s \in Nat, k \in Nat :
             l = Lookups(i) /\ s = Sum(cQueue, PendingW(i)) /\ k = IF i \in S THEN 1 ELSE 0
      <3>1. Sum(cQueue, PendingW(i)) \in Nat
          BY PendingSums DEF Inv, TypeInv, QueueType
      <3> QED
          BY <1>3, <3>1
    <2>2. Lookups(i)' = l + k /\ Sum(cQueue', PendingW(i)) = s
        BY <1>5, <2>1
    <2>3. (IF i \in DOMAIN cLeaf THEN cLeaf[i].refs ELSE 0) = l + s
      <3>1. CASE i \in DOMAIN cLeaf
          BY <2>1, <3>1 DEF Inv, RefInv
      <3>2. CASE i \notin DOMAIN cLeaf
          BY <2>1, <3>2, NothingOfNew
      <3> QED
          BY <3>1, <3>2
    <2>4. cLeaf'[i].refs = (l + s) + k
        BY <2>1, <2>3
    <2> QED
        BY <2>2, <2>4
  <1>7. RefInv'
    <2>1. \A i : PendingW(i)' = PendingW(i)
        BY DEF PendingW
    <2> QED
        BY <1>6, <2>1 DEF RefInv, Sum
  <1> QED
      BY <1>1, <1>2, <1>4, <1>7

\* A leaf that stands for the server's leaf of its name is found by it, and so are the others.
Registers(name, s, tree, c) ==
    /\ name \in Names /\ s \in DOMAIN sLeaf /\ s # Dir /\ sLeaf[s].name = name
    /\ tree = AddChild(cLeaf, name) /\ c = Find(tree, name)
    /\ index' = Reindex(tree, c, s)

LEMMA Registered ==
    ASSUME Inv, NEW name, NEW s, NEW tree, NEW c, Registers(name, s, tree, c), sLeaf' = sLeaf,
           DOMAIN cLeaf' = DOMAIN tree,
           \A i \in DOMAIN tree : /\ cLeaf'[i].name = tree[i].name /\ cLeaf'[i].linked = tree[i].linked
                                  /\ cLeaf'[i].server = IF i = c THEN s ELSE tree[i].server
    PROVE  TreeInv'
  <1> USE DEF Registers
  <1>1. IsTree(cLeaf) /\ OneOfAName(cLeaf) /\ IsTree(sLeaf) /\ Dir \in DOMAIN cLeaf
      BY DEF Inv, TypeInv, TreeInv, IsTree
  <1>2. /\ DOMAIN cLeaf \subseteq DOMAIN tree /\ (\A i \in DOMAIN cLeaf : tree[i] = cLeaf[i])
        /\ c \in DOMAIN tree /\ c # Dir /\ tree[c].linked /\ tree[c].name = name
        /\ \A i \in DOMAIN tree : i \notin DOMAIN cLeaf => i = c /\ tree[i] = NewLeaf(name)
        /\ OneOfAName(tree)
      BY <1>1, AddChildFacts
  <1>3. c \notin DOMAIN cLeaf => tree[c].server = None
      BY <1>2, NewLeafFields
  <1>4. OneOfAName(cLeaf)'
    <2>1. OneOfAName(cLeaf')
        BY <1>2, SameNames
    <2> QED
        BY <2>1 DEF OneOfAName
  <1>5. \A i \in DOMAIN sLeaf : i # None
      BY <1>1, LeafFields
  <1>6. ASSUME NEW i \in DOMAIN cLeaf', i # Dir
        PROVE  /\ cLeaf'[i].server \in DOMAIN sLeaf /\ cLeaf'[i].server # Dir
               /\ sLeaf[cLeaf'[i].server].name = cLeaf'[i].name
      BY <1>2, <1>6 DEF Inv, TreeInv, Stands
  <1>7. cLeaf'[Dir].server = Dir /\ cLeaf'[Dir].linked
      BY <1>1, <1>2 DEF Inv, TreeInv
  <1>8. /\ DOMAIN index' = (DOMAIN index \ {tree[c].server}) \cup {s}
        /\ \A k \in DOMAIN index' : index'[k] = IF k = s THEN c ELSE index[k]
      BY DEF Reindex
  <1>9. ASSUME NEW i \in DOMAIN cLeaf', cLeaf'[i].linked
        PROVE  cLeaf'[i].server \in DOMAIN index' /\ index'[cLeaf'[i].server] = i
    <2>1. CASE i = c
        BY <1>8, <2>1
    <2>2. CASE i # c
      <3>1. i \in DOMAIN cLeaf /\ cLeaf'[i].server = cLeaf[i].server /\ cLeaf[i].linked
          BY <1>2, <1>9, <2>2
      <3>2. cLeaf[i].server \in DOMAIN index /\ index[cLeaf[i].server] = i
          BY <3>1 DEF Inv, TreeInv, IndexAgrees
      <3>3. cLeaf[i].server # s
        <4>1. CASE i = Dir
            BY <4>1 DEF Inv, TreeInv
        <4>2. CASE i # Dir
          <5>1. tree[i].name # name
              BY <1>2, <2>2, <3>1, <4>2 DEF OneOfAName
          <5>2. sLeaf[cLeaf[i].server].name # name
              BY <1>2, <3>1, <4>2, <5>1 DEF Inv, TreeInv, Stands
          <5> QED
              BY <5>2
        <4> QED
            BY <4>1, <4>2
      <3>4. cLeaf[i].server # tree[c].server
        <4>1. CASE c \in DOMAIN cLeaf
          <5>1. index[cLeaf[c].server] = c
              BY <1>2, <4>1 DEF Inv, TreeInv, IndexAgrees
          <5> QED
              BY <1>2, <2>2, <3>2, <4>1, <5>1
        <4>2. CASE c \notin DOMAIN cLeaf
          <5>1. cLeaf[i].server \in DOMAIN sLeaf
              BY <1>1, <3>1 DEF Inv, TreeInv, Stands, TypeInv, IsTree
          <5> QED
              BY <1>3, <1>5, <4>2, <5>1
        <4> QED
            BY <4>1, <4>2
      <3> QED
          BY <1>8, <3>1, <3>2, <3>3, <3>4
    <2> QED
        BY <2>1, <2>2
  <1>10. IndexAgrees' /\ Stands'
      BY <1>6, <1>9 DEF IndexAgrees, Stands
  <1>11. OneOfAName(sLeaf)'
      BY DEF Inv, TreeInv, OneOfAName
  <1> QED
      BY <1>4, <1>7, <1>10, <1>11 DEF TreeInv

LEMMA ResponseLookupInKeeps ==
    ASSUME Inv, ResponseLookupIn
    PROVE  Inv'
  <1>1. PICK h : h = Head(cQueue)
      OBVIOUS
  <1>2. /\ cQueue # <<>> /\ h.op = "LookupIn" /\ cQueue' = Tail(cQueue)
        /\ UNCHANGED <<diskVars, serverVars, sQueue, applying, opened, requests, forgetting, fault>>
        /\ reqs' = {r \in reqs : r.req # h.req}
      BY <1>1 DEF ResponseLookupIn, ClientHead, ClientDone, Answered, ClientJob
  <1>3. PICK m : m = h.x
      OBVIOUS
  <1>4. m \in Entries /\ (m.leaf = None \/ Named(m))
      BY <1>1, <1>2, <1>3, PendingRan DEF Sound
  <1>5. PICK name, s, tree, c :
           /\ name = m.name /\ s = m.leaf /\ tree = AddChild(cLeaf, name) /\ c = Find(tree, name)
      OBVIOUS
  <1>6. \/ UNCHANGED <<cLeaf, index, known>>
        \/ /\ s # None /\ cLeaf' = AddRef(SetServerInode(tree, c, s), c)
           /\ index' = Reindex(tree, c, s) /\ Given({c})
      BY <1>1, <1>3, <1>5 DEF ResponseLookupIn, ClientJob
  <1>7. /\ sLeaf' = sLeaf /\ IsTree(cLeaf) /\ IsTree(sLeaf) /\ fault' # "clientRefs" /\ RefInv
        /\ Live(Head(cQueue)) /\ OneOfAName(sLeaf)
      BY <1>1, <1>2 DEF serverVars, Inv, TypeInv, RefInv, Live, AnswerOps, TreeInv
  <1>8. \A i : Sum(cQueue', PendingW(i)) = Sum(cQueue, PendingW(i))
      BY <1>1, <1>2, PendingRan
  <1>9. CASE UNCHANGED <<cLeaf, index, known>>
    <2>1. TreeInv' /\ RefInv'
      <3>1. Grows /\ OneOfAName(sLeaf')
          BY <1>7, <1>9 DEF Grows
      <3> QED
          BY <1>7, <1>8, <1>9, <3>1, TreeFrame, RefFrame DEF Inv
    <2>2. /\ DOMAIN known \subseteq DOMAIN known' /\ DOMAIN known' \subseteq DOMAIN cLeaf'
          /\ known' \in [DOMAIN known' -> Nat \ {0}] /\ IsTree(cLeaf') /\ DOMAIN cLeaf \subseteq DOMAIN cLeaf'
        BY <1>7, <1>9 DEF Inv, TypeInv, KernelType
    <2> QED
        BY <1>1, <1>2, <1>7, <2>1, <2>2, ClientStep
  <1>10. CASE /\ s # None /\ cLeaf' = AddRef(SetServerInode(tree, c, s), c)
              /\ index' = Reindex(tree, c, s) /\ Given({c})
    <2>1. name \in Names /\ s \in DOMAIN sLeaf /\ s # Dir /\ sLeaf[s].name = name /\ s \in Nat
      <3>1. m.name \in Names /\ m.leaf \in Nat
          BY <1>4 DEF Entries
      <3> QED
          BY <1>4, <1>5, <1>10, <3>1 DEF Named
    <2>2. Registers(name, s, tree, c)
        BY <1>5, <1>10, <2>1 DEF Registers
    <2>3. /\ IsTree(tree) /\ DOMAIN cLeaf \subseteq DOMAIN tree /\ (\A i \in DOMAIN cLeaf : tree[i] = cLeaf[i])
          /\ c \in DOMAIN tree
          /\ \A i \in DOMAIN tree : i \notin DOMAIN cLeaf => tree[i] = NewLeaf(name)
        BY <1>5, <1>7, <2>1, AddChildFacts
    <2>4. PICK u : u = SetServerInode(tree, c, s)
        OBVIOUS
    <2>5. /\ IsTree(u) /\ DOMAIN u = DOMAIN tree
          /\ \A i \in DOMAIN tree : /\ u[i].name = tree[i].name /\ u[i].refs = tree[i].refs
                                    /\ u[i].linked = tree[i].linked
                                    /\ u[i].server = IF i = c THEN s ELSE tree[i].server
        BY <2>1, <2>3, <2>4, SetServerFacts
    <2>6. /\ IsTree(cLeaf') /\ DOMAIN cLeaf' = DOMAIN u
          /\ \A i \in DOMAIN u : /\ cLeaf'[i].name = u[i].name /\ cLeaf'[i].server = u[i].server
                                 /\ cLeaf'[i].linked = u[i].linked
                                 /\ cLeaf'[i].refs = u[i].refs + (IF i = c THEN 1 ELSE 0)
        BY <1>10, <2>4, <2>5, AddRefFacts
    <2>7. TreeInv'
        BY <1>7, <2>2, <2>5, <2>6, Registered
    <2>8. \A i \in DOMAIN cLeaf' :
             cLeaf'[i].refs = (IF i \in DOMAIN cLeaf THEN cLeaf[i].refs ELSE 0) + (IF i \in {c} THEN 1 ELSE 0)
      <3>1. NewLeaf(name).refs = 0
          BY <2>1, NewLeafFields
      <3>2. SUFFICES ASSUME NEW i \in DOMAIN cLeaf'
                     PROVE  tree[i].refs = IF i \in DOMAIN cLeaf THEN cLeaf[i].refs ELSE 0
          BY <2>5, <2>6
      <3> QED
          BY <2>3, <2>5, <2>6, <3>1
    <2>9. {c} \subseteq DOMAIN cLeaf' /\ DOMAIN cLeaf \subseteq DOMAIN cLeaf'
        BY <2>3, <2>5, <2>6
    <2>10. /\ DOMAIN known \subseteq DOMAIN known' /\ DOMAIN known' \subseteq DOMAIN cLeaf'
           /\ known' \in [DOMAIN known' -> Nat \ {0}] /\ RefInv'
        BY <1>7, <1>8, <1>10, <2>8, <2>9, CountedOnce
    <2> QED
        BY <1>1, <1>2, <1>7, <2>6, <2>7, <2>9, <2>10, ClientStep
  <1> QED
      BY <1>6, <1>9, <1>10

LEMMA Unregistered ==
    ASSUME Inv, NEW name, sLeaf' = sLeaf, cLeaf' = RemoveChild(cLeaf, name), index' = Unindex(name)
    PROVE  /\ IsTree(cLeaf') /\ DOMAIN cLeaf' = DOMAIN cLeaf /\ TreeInv'
           /\ \A i \in DOMAIN cLeaf : cLeaf'[i].refs = cLeaf[i].refs
  <1>1. IsTree(cLeaf) /\ OneOfAName(cLeaf) /\ Dir \in DOMAIN cLeaf
      BY DEF Inv, TypeInv, TreeInv, IsTree
  <1>2. PICK c : c = Find(cLeaf, name)
      OBVIOUS
  <1>3. /\ IsTree(cLeaf') /\ DOMAIN cLeaf' = DOMAIN cLeaf
        /\ \A i \in DOMAIN cLeaf : /\ cLeaf'[i].name = cLeaf[i].name /\ cLeaf'[i].refs = cLeaf[i].refs
                                   /\ cLeaf'[i].server = cLeaf[i].server
                                   /\ cLeaf'[i].linked <=> cLeaf[i].linked /\ i # c
        /\ OneOfAName(cLeaf')
      BY <1>1, <1>2, RemoveChildFacts
  <1>4. c # None => c \in DOMAIN cLeaf /\ c # Dir /\ cLeaf[c].linked
      BY <1>1, <1>2, FindChild
  <1>5. c # Dir
      BY <1>4 DEF Dir, None
  <1>6. \/ index' = index
        \/ /\ c # None /\ DOMAIN index' = DOMAIN index \ {cLeaf[c].server}
           /\ \A k \in DOMAIN index' : index'[k] = index[k]
      BY <1>2 DEF Unindex
  <1>7. ASSUME NEW i \in DOMAIN cLeaf', cLeaf'[i].linked
        PROVE  cLeaf'[i].server \in DOMAIN index' /\ index'[cLeaf'[i].server] = i
    <2>1. i \in DOMAIN cLeaf /\ cLeaf[i].linked /\ i # c /\ cLeaf'[i].server = cLeaf[i].server
        BY <1>3, <1>7
    <2>2. cLeaf[i].server \in DOMAIN index /\ index[cLeaf[i].server] = i
        BY <2>1 DEF Inv, TreeInv, IndexAgrees
    <2>3. c # None => index[cLeaf[c].server] = c
        BY <1>4 DEF Inv, TreeInv, IndexAgrees
    <2> QED
        BY <1>6, <2>1, <2>2, <2>3
  <1>8. Stands'
      BY <1>3 DEF Inv, TreeInv, Stands
  <1>9. IndexAgrees'
      BY <1>7 DEF IndexAgrees
  <1>10. cLeaf'[Dir].server = Dir /\ cLeaf'[Dir].linked
      BY <1>1, <1>3, <1>5 DEF Inv, TreeInv
  <1>11. OneOfAName(sLeaf)' /\ OneOfAName(cLeaf)'
      BY <1>3 DEF Inv, TreeInv, OneOfAName
  <1> QED
      BY <1>3, <1>8, <1>9, <1>10, <1>11 DEF TreeInv

LEMMA CountsStand ==
    ASSUME Inv, known' = known, DOMAIN cLeaf \subseteq DOMAIN cLeaf',
           \A i \in DOMAIN cLeaf' : cLeaf'[i].refs = IF i \in DOMAIN cLeaf THEN cLeaf[i].refs ELSE 0,
           \A i : Sum(cQueue', PendingW(i)) = Sum(cQueue, PendingW(i)), fault' # "clientRefs"
    PROVE  /\ DOMAIN known \subseteq DOMAIN known' /\ DOMAIN known' \subseteq DOMAIN cLeaf'
           /\ known' \in [DOMAIN known' -> Nat \ {0}] /\ RefInv'
  <1>1. ASSUME NEW i \in DOMAIN cLeaf'
        PROVE  cLeaf'[i].refs = Lookups(i)' + Sum(cQueue', PendingW(i))
    <2>1. Lookups(i)' = Lookups(i)
        BY DEF Lookups
    <2>2. CASE i \in DOMAIN cLeaf
        BY <2>1, <2>2 DEF Inv, RefInv
    <2>3. CASE i \notin DOMAIN cLeaf
      <3>1. Sum(cQueue, PendingW(i)) = 0 /\ Lookups(i) = 0
          BY <2>3, NothingOfNew
      <3> QED
          BY <2>1, <2>3, <3>1
    <2> QED
        BY <2>2, <2>3
  <1>2. \A i : PendingW(i)' = PendingW(i)
      BY DEF PendingW
  <1>3. RefInv'
      BY <1>1, <1>2 DEF RefInv, Sum
  <1>4. DOMAIN known \subseteq DOMAIN cLeaf /\ known \in [DOMAIN known -> Nat \ {0}]
      BY DEF Inv, TypeInv, KernelType
  <1> QED
      BY <1>3, <1>4

LEMMA NotifyInvalEntryKeeps ==
    ASSUME Inv, NotifyInvalEntry
    PROVE  Inv'
  <1>1. PICK h : h = Head(cQueue)
      OBVIOUS
  <1>2. /\ cQueue # <<>> /\ h.op = "NotifyEntry" /\ cQueue' = Tail(cQueue)
        /\ UNCHANGED <<diskVars, serverVars, sQueue, applying, opened, requests, forgetting>>
        /\ reqs' = reqs /\ known' = known
      BY <1>1 DEF NotifyInvalEntry, ClientHead, ClientDone
  <1>3. PICK m : m = h.x
      OBVIOUS
  <1>4. m \in Notices /\ (m.type = "Created" => Named(m))
      BY <1>1, <1>2, <1>3, PendingRan DEF Sound
  <1>5. PICK name, s, tree, c :
           /\ name = m.name /\ s = m.leaf /\ tree = AddChild(cLeaf, name) /\ c = Find(tree, name)
      OBVIOUS
  <1>6. /\ fault' = fault \/ fault' = "stuck"
        /\ \/ UNCHANGED <<cLeaf, index>>
           \/ m.type = "Created" /\ cLeaf' = SetServerInode(tree, c, s) /\ index' = Reindex(tree, c, s)
           \/ cLeaf' = RemoveChild(cLeaf, name) /\ index' = Unindex(name)
      BY <1>1, <1>3, <1>5 DEF NotifyInvalEntry, ClientJob, Fail
  <1>7. sLeaf' = sLeaf /\ IsTree(cLeaf) /\ fault' # "clientRefs" /\ RefInv /\ OneOfAName(sLeaf)
      BY <1>2, <1>6 DEF serverVars, Inv, TypeInv, RefInv, TreeInv
  <1>8. \A i : Sum(cQueue', PendingW(i)) = Sum(cQueue, PendingW(i))
      BY <1>1, <1>2, PendingRan
  <1>9. /\ TreeInv' /\ IsTree(cLeaf') /\ DOMAIN cLeaf \subseteq DOMAIN cLeaf'
        /\ \A i \in DOMAIN cLeaf' : cLeaf'[i].refs = IF i \in DOMAIN cLeaf THEN cLeaf[i].refs ELSE 0
    <2>1. CASE UNCHANGED <<cLeaf, index>>
      <3>1. Grows /\ OneOfAName(sLeaf')
          BY <1>7, <2>1 DEF Grows
      <3>2. TreeInv'
          BY <2>1, <3>1, TreeFrame DEF Inv
      <3> QED
          BY <1>7, <2>1, <3>2
    <2>2. CASE m.type = "Created" /\ cLeaf' = SetServerInode(tree, c, s) /\ index' = Reindex(tree, c, s)
      <3>1. name \in Names /\ s \in DOMAIN sLeaf /\ s # Dir /\ sLeaf[s].name = name /\ s \in Nat
        <4>1. m.name \in Names /\ m.leaf \in Nat
            BY <1>4 DEF Notices, Names
        <4> QED
            BY <1>4, <1>5, <2>2, <4>1 DEF Named
      <3>2. Registers(name, s, tree, c)
          BY <1>5, <2>2, <3>1 DEF Registers
      <3>3. /\ IsTree(tree) /\ DOMAIN cLeaf \subseteq DOMAIN tree
            /\ (\A i \in DOMAIN cLeaf : tree[i] = cLeaf[i])
            /\ \A i \in DOMAIN tree : i \notin DOMAIN cLeaf => tree[i] = NewLeaf(name)
          BY <1>5, <1>7, <3>1, AddChildFacts
      <3>4. /\ IsTree(cLeaf') /\ DOMAIN cLeaf' = DOMAIN tree
            /\ \A i \in DOMAIN tree : /\ cLeaf'[i].name = tree[i].name /\ cLeaf'[i].refs = tree[i].refs
                                      /\ cLeaf'[i].linked = tree[i].linked
                                      /\ cLeaf'[i].server = IF i = c THEN s ELSE tree[i].server
          BY <2>2, <3>1, <3>3, SetServerFacts
      <3>5. TreeInv'
          BY <1>7, <3>2, <3>4, Registered
      <3>6. NewLeaf(name).refs = 0
          BY <3>1, NewLeafFields
      <3> QED
          BY <3>3, <3>4, <3>5, <3>6
    <2>3. CASE cLeaf' = RemoveChild(cLeaf, name) /\ index' = Unindex(name)
        BY <1>7, <2>3, Unregistered
    <2> QED
        BY <1>6, <2>1, <2>2, <2>3
  <1>10. /\ DOMAIN known \subseteq DOMAIN known' /\ DOMAIN known' \subseteq DOMAIN cLeaf'
         /\ known' \in [DOMAIN known' -> Nat \ {0}] /\ RefInv'
      BY <1>2, <1>7, <1>8, <1>9, CountsStand
  <1> QED
      BY <1>2, <1>9, <1>10, ClientStep

\* The handle of a file that was opened has no owner before its answer comes.
LEMMA OpenedKeeps ==
    ASSUME Inv, ResponseOpenIn \/ ResponseOpenDirIn
    PROVE  Inv'
  <1>1. PICK h : h = Head(cQueue)
      OBVIOUS
  <1>2. /\ cQueue # <<>> /\ h.op \in {"OpenIn", "OpenDirIn"} /\ cQueue' = Tail(cQueue)
        /\ UNCHANGED <<diskVars, sLeaf, sHandles, sReads, leaked, sQueue, requests, forgetting>>
        /\ UNCHANGED <<cLeaf, index, applying, known, fault>>
        /\ reqs' = {r \in reqs : r.req # h.req}
        /\ opened' = IF h.x = None THEN opened
                     ELSE opened \cup {[leaf |-> r.leaf, handle |-> h.x] : r \in {q \in reqs : q.req = h.req}}
      BY <1>1 DEF ResponseOpenIn, ResponseOpenDirIn, ClientHead, Opened, Answered, ClientDone,
                  ClientJob, clientVars, serverVars
  <1>3. QueueType /\ IsFiniteSet(opened) /\ RefInv
      BY DEF Inv, TypeInv, KernelType
  <1>4. /\ QueueType' /\ Jobs(cQueue') \subseteq Jobs(cQueue) /\ Jobs(sQueue') = Jobs(sQueue)
        /\ h \in JobType /\ h \in Jobs(cQueue)
        /\ \A n : /\ LiveCount(n) \in Nat /\ LiveCount(n)' \in Nat
                  /\ LiveCount(n) = LiveCount(n)' + LiveW(n)[h]
        /\ \A n, O : IsFiniteSet(O) =>
              /\ OwnerSum(n, cQueue, sQueue, O) \in Nat /\ OwnerSum(n, cQueue', sQueue', O) \in Nat
              /\ OwnerSum(n, cQueue, sQueue, O)
                     = OwnerSum(n, cQueue', sQueue', O) + ReleaseW(n)[h]
      BY <1>1, <1>2, <1>3, Ran
  <1>5. Live(h) /\ ~Releases(h) /\ h.op # "ReleaseLeafRef"
      BY <1>2 DEF Live, AnswerOps, Releases
  <1>6. PICK r \in reqs : r.req = h.req
      BY <1>4, <1>5 DEF Inv, RequestInv, ServedByClient, Serves
  <1>7. PICK o : o = [leaf |-> r.leaf, handle |-> h.x]
      OBVIOUS
  <1>8. o.leaf = r.leaf /\ o.handle = h.x
      BY <1>7
  <1>9. r.req \in 1..requests /\ r.leaf \in DOMAIN known
      BY DEF Inv, TypeInv, KernelType
  <1>10. \/ opened' = opened
         \/ h.x = h.req /\ h.x \in sHandles /\ opened' = opened \cup {o}
    <2>1. {q \in reqs : q.req = h.req} = {r}
        BY <1>6 DEF Inv, RequestInv
    <2>2. h.x # None => h.x = h.req /\ h.x \in sHandles
        BY <1>2, <1>4 DEF Inv, HandleInv, Owned, Opens
    <2>3. h.x # None => opened' = opened \cup {o}
        BY <1>2, <1>7, <2>1
    <2> QED
        BY <1>2, <2>2, <2>3
  <1>11. opened \subseteq opened' /\ IsFiniteSet(opened')
      BY <1>3, <1>10, FS_AddElement
  <1>12. TypeInv'
    <2>1. DiskType' /\ IsTree(sLeaf)' /\ IsTree(cLeaf)'
        BY <1>2 DEF Inv, TypeInv, DiskType, diskVars, IsTree
    <2>2. opened' \subseteq [leaf : DOMAIN known', handle : 1..requests']
        BY <1>2, <1>6, <1>7, <1>9, <1>10 DEF Inv, TypeInv, KernelType
    <2>3. KernelType'
        BY <1>2, <1>11, <2>2 DEF Inv, TypeInv, KernelType
    <2> QED
        BY <1>4, <2>1, <2>3 DEF TypeInv
  <1>13. Grows /\ TreeInv'
    <2>1. Grows /\ OneOfAName(sLeaf')
        BY <1>2 DEF Grows, Inv, TreeInv
    <2> QED
        BY <1>2, <2>1, TreeFrame DEF Inv
  <1>14. SoundInv'
      BY <1>4, <1>13, SoundFrame DEF Inv
  <1>15. RequestInv'
    <2>1. Jobs(sQueue') \cup sReads' \cup Jobs(applying') \subseteq
             Jobs(sQueue) \cup sReads \cup Jobs(applying)
        BY <1>2, <1>4
    <2> QED
        BY <1>2, <1>4, <1>5, <1>11, <2>1, RequestsLeft
  <1>16. HandleInv'
    <2>1. /\ \A p \in opened' : p.handle \in sHandles'
          /\ \A p \in opened', q \in reqs' : p.handle # q.req
        BY <1>2, <1>8, <1>10 DEF Inv, HandleInv
    <2>2. \A j \in (Jobs(cQueue) \cup Jobs(sQueue))' : Owned(j)'
      <3>1. (Jobs(cQueue) \cup Jobs(sQueue))' \subseteq Jobs(cQueue) \cup Jobs(sQueue)
          BY <1>4 DEF Jobs
      <3>2. \A j : Owned(j) => Owned(j)'
          BY <1>2 DEF Owned
      <3> QED
          BY <3>1, <3>2 DEF Inv, HandleInv
    <2>3. ASSUME NEW n \in Nat PROVE Owners(n)' <= 1
      <3>1. ReleaseW(n)[h] = 0
          BY <1>4, <1>5, Weights
      <3>2. PICK a \in Nat : a = OwnerSum(n, cQueue', sQueue', opened)
          BY <1>3, <1>4
      <3>3. a <= 1
        <4>1. OwnerSum(n, cQueue, sQueue, opened) <= 1
            BY DEF Inv, HandleInv, Owners
        <4>2. OwnerSum(n, cQueue, sQueue, opened) = a + ReleaseW(n)[h]
            BY <1>3, <1>4, <3>2
        <4> QED
            BY <3>1, <4>1, <4>2
      <3>4. Owners(n)' = OwnerSum(n, cQueue', sQueue', opened')
          BY DEF Owners
      <3>5. CASE opened' = opened
          BY <3>2, <3>3, <3>4, <3>5
      <3>6. CASE h.x = h.req /\ opened' = opened \cup {o}
        <4>1. o \notin opened
            BY <1>6, <1>8, <3>6 DEF Inv, HandleInv
        <4>2. Without(opened', o, opened)
            BY <3>6, <4>1 DEF Without
        <4>3. Homes(cQueue', sQueue', opened')
            BY <1>4, <1>11 DEF Homes, QueueType
        <4>4. Owners(n)' = a + (IF o.handle = n THEN 1 ELSE 0)
            BY <3>2, <3>4, <4>2, <4>3, OwnerGone
        <4>5. o.handle = n => a = 0
          <5>1. ASSUME o.handle = n
                PROVE  /\ \A j \in Jobs(cQueue') \cup Jobs(sQueue') : ~(Releases(j) /\ j.x = n)
                       /\ \A p \in opened : p.handle # n
            <6>1. n = r.req
                BY <1>6, <1>8, <3>6, <5>1
            <6> QED
                BY <1>4, <6>1 DEF Inv, HandleInv, Owned
          <5>2. Homes(cQueue', sQueue', opened)
              BY <1>3, <4>3 DEF Homes
          <5> QED
              BY <3>2, <5>1, <5>2, NoOwner
        <4> QED
            BY <3>3, <4>4, <4>5
      <3> QED
          BY <1>10, <3>5, <3>6
    <2> QED
        BY <2>1, <2>2, <2>3, Zenon DEF HandleInv
  <1>17. RefInv'
    <2>1. \A i : Sum(cQueue', PendingW(i)) = Sum(cQueue, PendingW(i))
        BY <1>1, <1>2, <1>5, PendingRan
    <2>2. fault' # "clientRefs"
        BY <1>2, <1>3 DEF RefInv
    <2> QED
        BY <1>2, <1>3, <2>1, <2>2, RefFrame
  <1> QED
      BY <1>12, <1>13, <1>14, <1>15, <1>16, <1>17 DEF Inv

\* The tree and the index that a listing makes.
Listing(E, tree, given, new) ==
    /\ tree = ResolveClientInode(E)
    /\ given = {Find(tree, e.name) : e \in E}
    /\ new = given \ DOMAIN cLeaf
    /\ cLeaf' = [c \in DOMAIN tree |-> IF c \in given THEN [tree[c] EXCEPT !.refs = @ + 1] ELSE tree[c]]
    /\ index' = [k \in DOMAIN index \cup {tree[c].server : c \in new} |->
                    IF \E c \in new : tree[c].server = k
                    THEN CHOOSE c \in new : tree[c].server = k ELSE index[k]]

LEMMA ListedLeaves ==
    ASSUME NEW E, NEW tree, NEW given, NEW new, Listing(E, tree, given, new), IsTree(tree)
    PROVE  /\ IsTree(cLeaf') /\ DOMAIN cLeaf' = DOMAIN tree
           /\ \A i \in DOMAIN tree : /\ cLeaf'[i].name = tree[i].name /\ cLeaf'[i].linked = tree[i].linked
                                     /\ cLeaf'[i].server = tree[i].server
                                     /\ cLeaf'[i].refs = tree[i].refs + (IF i \in given THEN 1 ELSE 0)
  <1>1. /\ DOMAIN cLeaf' = DOMAIN tree /\ Dir \in DOMAIN tree
        /\ \A c \in DOMAIN tree : cLeaf'[c] = IF c \in given THEN [tree[c] EXCEPT !.refs = @ + 1] ELSE tree[c]
      BY DEF IsTree, Listing
  <1>2. ASSUME NEW i \in DOMAIN tree
        PROVE  /\ cLeaf'[i] \in LeafType
               /\ cLeaf'[i].name = tree[i].name /\ cLeaf'[i].linked = tree[i].linked
               /\ cLeaf'[i].server = tree[i].server
               /\ cLeaf'[i].refs = tree[i].refs + (IF i \in given THEN 1 ELSE 0)
    <2>1. PICK t \in LeafType : t = tree[i]
        BY LeafFields
    <2>2. PICK m \in Nat : m = t.refs
        BY DEF LeafType
    <2>3. [t EXCEPT !.refs = @ + 1] = [t EXCEPT !.refs = m + 1]
        BY <2>2
    <2>4. cLeaf'[i] = IF i \in given THEN [t EXCEPT !.refs = m + 1] ELSE t
        BY <1>1, <2>1, <2>3
    <2>5. /\ [t EXCEPT !.refs = m + 1] \in LeafType /\ [t EXCEPT !.refs = m + 1].name = t.name
          /\ [t EXCEPT !.refs = m + 1].linked = t.linked /\ [t EXCEPT !.refs = m + 1].server = t.server
          /\ [t EXCEPT !.refs = m + 1].refs = m + 1
        BY DEF LeafType
    <2> QED
        BY <2>1, <2>2, <2>4, <2>5
  <1>3. cLeaf' \in Seq(LeafType)
    <2>1. PICK n \in Nat : DOMAIN tree = 1..n
        BY DEF IsTree
    <2>2. PICK u \in [1..n -> LeafType] : u = cLeaf'
      <3>1. cLeaf' = [i \in DOMAIN cLeaf' |-> cLeaf'[i]]
          BY DEF Listing
      <3> QED
          BY <1>1, <1>2, <2>1, <3>1
    <2>3. u \in Seq(LeafType)
        BY <2>1, <2>2
    <2> QED
        BY <2>2, <2>3
  <1> QED
      BY <1>1, <1>2, <1>3 DEF IsTree

LEMMA ListedTree ==
    ASSUME Inv, NEW E \in Listings, IsFiniteSet(E), \A e \in E : Named(e),
           \A e, g \in E : e.name = g.name => e = g,
           NEW tree, NEW given, NEW new, Listing(E, tree, given, new), sLeaf' = sLeaf
    PROVE  /\ TreeInv' /\ IsTree(cLeaf') /\ DOMAIN cLeaf \subseteq DOMAIN cLeaf' /\ given \subseteq DOMAIN cLeaf'
           /\ \A i \in DOMAIN cLeaf' :
                 cLeaf'[i].refs = (IF i \in DOMAIN cLeaf THEN cLeaf[i].refs ELSE 0)
                                      + (IF i \in given THEN 1 ELSE 0)
  <1>1. IsTree(cLeaf) /\ OneOfAName(cLeaf) /\ Dir \in DOMAIN cLeaf
      BY DEF Inv, TypeInv, TreeInv, IsTree
  <1>2. tree = ResolveClientInode(E)
      BY DEF Listing
  <1>3. /\ IsTree(tree) /\ DOMAIN cLeaf \subseteq DOMAIN tree /\ (\A i \in DOMAIN cLeaf : tree[i] = cLeaf[i])
        /\ \A i \in DOMAIN tree : i \notin DOMAIN cLeaf =>
              i # Dir /\ \E e \in E : /\ Find(cLeaf, e.name) = None /\ tree[i].name = e.name
                                      /\ tree[i].server = e.leaf /\ tree[i].refs = 0 /\ tree[i].linked
                                      /\ Find(tree, e.name) = i
        /\ OneOfAName(tree)
        /\ \A e \in E : Find(tree, e.name) \in DOMAIN tree
      BY <1>1, <1>2, ResolveFacts
  <1>4. given \subseteq DOMAIN tree /\ (\A e \in E : Find(tree, e.name) \in given) /\ new = given \ DOMAIN cLeaf
      BY <1>3 DEF Listing
  <1>5. /\ IsTree(cLeaf') /\ DOMAIN cLeaf' = DOMAIN tree
        /\ \A i \in DOMAIN tree : /\ cLeaf'[i].name = tree[i].name /\ cLeaf'[i].linked = tree[i].linked
                                  /\ cLeaf'[i].server = tree[i].server
                                  /\ cLeaf'[i].refs = tree[i].refs + (IF i \in given THEN 1 ELSE 0)
      BY <1>3, ListedLeaves
  <1>6. \A c \in new : /\ c \in DOMAIN tree /\ c \notin DOMAIN cLeaf /\ c # Dir /\ tree[c].linked
                       /\ Find(cLeaf, tree[c].name) = None
                       /\ tree[c].server \in DOMAIN sLeaf /\ tree[c].server # Dir
                       /\ sLeaf[tree[c].server].name = tree[c].name
    <2>1. SUFFICES ASSUME NEW c \in new
                   PROVE  /\ c \in DOMAIN tree /\ c \notin DOMAIN cLeaf /\ c # Dir /\ tree[c].linked
                          /\ Find(cLeaf, tree[c].name) = None
                          /\ tree[c].server \in DOMAIN sLeaf /\ tree[c].server # Dir
                          /\ sLeaf[tree[c].server].name = tree[c].name
        OBVIOUS
    <2>2. c \in DOMAIN tree /\ c \notin DOMAIN cLeaf
        BY <1>4
    <2>3. PICK e \in E : /\ Find(cLeaf, e.name) = None /\ tree[c].name = e.name
                         /\ tree[c].server = e.leaf /\ tree[c].linked
        BY <1>3, <2>2
    <2>4. Named(e)
        OBVIOUS
    <2> QED
        BY <1>3, <2>2, <2>3, <2>4 DEF Named
  <1>7. \A i \in DOMAIN tree : i \notin DOMAIN cLeaf => i \in new
      BY <1>3, <1>4
  <1>8. /\ DOMAIN index' = DOMAIN index \cup {tree[c].server : c \in new}
        /\ \A k \in DOMAIN index' : index'[k] = IF \E c \in new : tree[c].server = k
                                                THEN CHOOSE c \in new : tree[c].server = k ELSE index[k]
      BY DEF Listing
  <1>9. ASSUME NEW i \in DOMAIN cLeaf', cLeaf'[i].linked
        PROVE  cLeaf'[i].server \in DOMAIN index' /\ index'[cLeaf'[i].server] = i
    <2>1. CASE i \in DOMAIN cLeaf
      <3>1. cLeaf'[i].server = cLeaf[i].server /\ cLeaf[i].linked
          BY <1>3, <1>5, <1>9, <2>1
      <3>2. cLeaf[i].server \in DOMAIN index /\ index[cLeaf[i].server] = i
          BY <2>1, <3>1 DEF Inv, TreeInv, IndexAgrees
      <3>3. ASSUME NEW c \in new PROVE tree[c].server # cLeaf[i].server
        <4>1. CASE i = Dir
            BY <1>6, <4>1 DEF Inv, TreeInv
        <4>2. CASE i # Dir
          <5>1. sLeaf[cLeaf[i].server].name = cLeaf[i].name
              BY <2>1, <4>2 DEF Inv, TreeInv, Stands
          <5>2. cLeaf[i].name # tree[c].name
              BY <1>1, <1>6, <2>1, <3>1, <4>2, FindChild
          <5> QED
              BY <1>6, <5>1, <5>2
        <4> QED
            BY <4>1, <4>2
      <3> QED
          BY <1>8, <3>1, <3>2, <3>3
    <2>2. CASE i \notin DOMAIN cLeaf
      <3>1. i \in new /\ cLeaf'[i].server = tree[i].server
          BY <1>5, <1>7, <2>2
      <3>2. PICK k : k = tree[i].server
          OBVIOUS
      <3>3. PICK c : c = CHOOSE d \in new : tree[d].server = k
          OBVIOUS
      <3>4. c \in new /\ tree[c].server = k
          BY <3>1, <3>2, <3>3
      <3>5. tree[c].name = tree[i].name
          BY <1>6, <3>1, <3>2, <3>4
      <3>6. c = i
          BY <1>3, <1>6, <3>1, <3>4, <3>5 DEF OneOfAName
      <3>7. k \in DOMAIN index'
          BY <1>8, <3>1, <3>2
      <3>8. index'[k] = c
          BY <1>8, <3>1, <3>2, <3>3, <3>7
      <3> QED
          BY <3>1, <3>2, <3>6, <3>7, <3>8
    <2> QED
        BY <2>1, <2>2
  <1>10. ASSUME NEW i \in DOMAIN cLeaf', i # Dir
         PROVE  /\ cLeaf'[i].server \in DOMAIN sLeaf /\ cLeaf'[i].server # Dir
                /\ sLeaf[cLeaf'[i].server].name = cLeaf'[i].name
    <2>1. CASE i \in DOMAIN cLeaf
        BY <1>3, <1>5, <1>10, <2>1 DEF Inv, TreeInv, Stands
    <2>2. CASE i \notin DOMAIN cLeaf
        BY <1>5, <1>6, <1>7, <2>2
    <2> QED
        BY <2>1, <2>2
  <1>11. cLeaf'[Dir].server = Dir /\ cLeaf'[Dir].linked
      BY <1>1, <1>3, <1>5 DEF Inv, TreeInv
  <1>12. OneOfAName(sLeaf)' /\ OneOfAName(cLeaf)'
    <2>1. OneOfAName(cLeaf')
        BY <1>3, <1>5, SameNames
    <2> QED
        BY <2>1 DEF Inv, TreeInv, OneOfAName
  <1>13. IndexAgrees' /\ Stands'
      BY <1>9, <1>10 DEF IndexAgrees, Stands
  <1>14. TreeInv'
      BY <1>11, <1>12, <1>13 DEF TreeInv
  <1>15. ASSUME NEW i \in DOMAIN tree PROVE tree[i].refs = IF i \in DOMAIN cLeaf THEN cLeaf[i].refs ELSE 0
      BY <1>3
  <1> QED
      BY <1>3, <1>4, <1>5, <1>14, <1>15

LEMMA ResponseReadDirPlusInKeeps ==
    ASSUME Inv, ResponseReadDirPlusIn
    PROVE  Inv'
  <1>1. PICK h : h = Head(cQueue)
      OBVIOUS
  <1>2. /\ cQueue # <<>> /\ h.op = "ReadDirPlusIn" /\ cQueue' = Tail(cQueue)
        /\ UNCHANGED <<diskVars, serverVars, sQueue, applying, opened, requests, forgetting, fault>>
        /\ reqs' = {r \in reqs : r.req # h.req}
      BY <1>1 DEF ResponseReadDirPlusIn, ClientHead, ClientDone, Answered, ClientJob
  <1>3. PICK E : E = h.x
      OBVIOUS
  <1>4. /\ E \in Listings /\ IsFiniteSet(E) /\ (\A e \in E : Named(e))
        /\ \A e, g \in E : e.name = g.name => e = g
      BY <1>1, <1>2, <1>3, PendingRan DEF Sound
  <1>5. PICK tree, given, new : Listing(E, tree, given, new) /\ Given(given)
      BY <1>1, <1>3 DEF ResponseReadDirPlusIn, ClientJob, Listing
  <1>6. sLeaf' = sLeaf /\ fault' # "clientRefs" /\ Live(Head(cQueue))
      BY <1>1, <1>2 DEF serverVars, Inv, RefInv, Live, AnswerOps
  <1>7. \A i : Sum(cQueue', PendingW(i)) = Sum(cQueue, PendingW(i))
      BY <1>1, <1>2, PendingRan
  <1>8. /\ TreeInv' /\ IsTree(cLeaf') /\ DOMAIN cLeaf \subseteq DOMAIN cLeaf' /\ given \subseteq DOMAIN cLeaf'
        /\ \A i \in DOMAIN cLeaf' :
              cLeaf'[i].refs = (IF i \in DOMAIN cLeaf THEN cLeaf[i].refs ELSE 0)
                                   + (IF i \in given THEN 1 ELSE 0)
      BY <1>4, <1>5, <1>6, ListedTree
  <1>9. /\ DOMAIN known \subseteq DOMAIN known' /\ DOMAIN known' \subseteq DOMAIN cLeaf'
        /\ known' \in [DOMAIN known' -> Nat \ {0}] /\ RefInv'
      BY <1>5, <1>6, <1>7, <1>8, CountedOnce
  <1> QED
      BY <1>1, <1>2, <1>6, <1>8, <1>9, ClientStep

-----------------------------------------------------------------------------
(* The initial state.                                                      *)

LEMMA LookedFacts ==
    ASSUME NEW S, IsFiniteSet(S), S \subseteq Files, NEW server \in BOOLEAN
    PROVE  LET t == Looked(S, server)
           IN /\ IsTree(t) /\ DOMAIN t = 1..(Cardinality(S) + 1) /\ Cardinality(S) \in Nat
              /\ \A i \in DOMAIN t : /\ t[i].linked /\ t[i].refs = 1
                                     /\ t[i].server = IF server THEN None ELSE i
              /\ \A k \in 1..Cardinality(S) : t[k + 1].name = InOrder(S)[k]
              /\ OneOfAName(t)
  <1>1. PICK n, q : n = Cardinality(S) /\ q = InOrder(S)
      OBVIOUS
  <1>2. n \in Nat /\ q \in [1..n -> S] /\ \A j, k \in 1..n : q[j] = q[k] => j = k
      BY <1>1, Ordered
  <1>3. PICK d : d = [NewLeaf("") EXCEPT !.refs = 1, !.server = IF server THEN None ELSE Dir]
      OBVIOUS
  <1>4. d \in LeafType /\ d.linked /\ d.refs = 1 /\ d.server = IF server THEN None ELSE Dir
      BY <1>3 DEF LeafType, NewLeaf, Names, None, Dir
  <1>5. PICK a : a = [k \in 1..n |-> [NewLeaf(q[k]) EXCEPT !.refs = 1, !.server = IF server THEN None ELSE k + 1]]
      OBVIOUS
  <1>6. ASSUME NEW k \in 1..n
        PROVE  /\ a[k] \in LeafType /\ a[k].name = q[k] /\ a[k].linked /\ a[k].refs = 1
               /\ a[k].server = IF server THEN None ELSE k + 1
    <2>1. PICK f \in Names : f = q[k]
        BY <1>2 DEF Names
    <2>2. PICK m \in Nat : m = IF server THEN None ELSE k + 1
        BY <1>2 DEF None
    <2>3. a[k] = [NewLeaf(f) EXCEPT !.refs = 1, !.server = m]
        BY <1>5, <2>1, <2>2
    <2>4. PICK b : b = [name |-> f, linked |-> TRUE, refs |-> 1, server |-> m]
        OBVIOUS
    <2>5. b \in LeafType /\ b.name = f /\ b.refs = 1 /\ b.server = m
        BY <2>4 DEF LeafType
    <2>6. b.linked
        BY <2>4
    <2>7. a[k] = b
        BY <2>3, <2>4 DEF NewLeaf
    <2> QED
        BY <2>1, <2>2, <2>5, <2>6, <2>7
  <1>7. a \in [1..n -> LeafType] /\ DOMAIN q = 1..n
      BY <1>2, <1>5, <1>6
  <1>8. PICK b, t : b = <<d>> /\ t = b \o a
      OBVIOUS
  <1>9. IsTree(b) /\ DOMAIN b = {1} /\ b[1] = d /\ Len(b) = 1
      BY <1>4, <1>8 DEF IsTree, Dir
  <1>10. Longer(b, n, a, t)
      BY <1>2, <1>7, <1>8, <1>9 DEF Longer
  <1>11. /\ IsTree(t) /\ DOMAIN b \subseteq DOMAIN t /\ (\A i \in DOMAIN b : t[i] = b[i])
         /\ (\A k \in 1..n : Len(b) + k \in DOMAIN t /\ t[Len(b) + k] = a[k])
         /\ \A i \in DOMAIN t : i \notin DOMAIN b => \E k \in 1..n : i = Len(b) + k
      BY <1>10, TreeConcat
  <1>12. /\ t[1] = d /\ 1 \in DOMAIN t /\ (\A k \in 1..n : k + 1 \in DOMAIN t /\ t[k + 1] = a[k])
         /\ \A i \in DOMAIN t : i = 1 \/ \E k \in 1..n : i = k + 1
    <2>1. \A k \in 1..n : Len(b) + k = k + 1
        BY <1>2, <1>9
    <2> QED
        BY <1>9, <1>11, <2>1
  <1>13. t = Looked(S, server)
      BY <1>1, <1>3, <1>5, <1>7, <1>8 DEF Looked
  <1>14. DOMAIN t = 1..(n + 1)
    <2>1. \A i : i \in DOMAIN t => i \in 1..(n + 1)
        BY <1>2, <1>12
    <2>2. ASSUME NEW i \in 1..(n + 1) PROVE i \in DOMAIN t
      <3>1. CASE i = 1
          BY <1>12, <3>1
      <3>2. CASE i # 1
        <4>1. PICK k \in 1..n : i = k + 1
            BY <1>2, <2>2, <3>2
        <4> QED
            BY <1>12, <4>1
      <3> QED
          BY <3>1, <3>2
    <2> QED
        BY <2>1, <2>2
  <1>15. ASSUME NEW i \in DOMAIN t
         PROVE  t[i].linked /\ t[i].refs = 1 /\ t[i].server = IF server THEN None ELSE i
      BY <1>4, <1>6, <1>12 DEF Dir
  <1>16. \A k \in 1..n : t[k + 1].name = q[k]
      BY <1>6, <1>12
  <1>17. OneOfAName(t)
    <2>1. SUFFICES ASSUME NEW i \in DOMAIN t, NEW k \in DOMAIN t, i # Dir, k # Dir, t[i].name = t[k].name
                   PROVE  i = k
        BY DEF OneOfAName
    <2>2. PICK v \in 1..n, w \in 1..n : i = v + 1 /\ k = w + 1
        BY <1>12, <2>1 DEF Dir
    <2>3. q[v] = q[w]
        BY <1>16, <2>1, <2>2
    <2> QED
        BY <1>2, <2>2, <2>3
  <1> QED
      BY <1>1, <1>2, <1>11, <1>13, <1>14, <1>15, <1>16, <1>17

\* The counts of nothing.
LEMMA Nothing ==
    /\ Jobs(<<>>) = {} /\ <<>> \in Seq(JobType) /\ IsFiniteSet({})
    /\ \A n : LiveSum(n, <<>>, <<>>, <<>>, {}) = 0
    /\ \A n : OwnerSum(n, <<>>, <<>>, {}) = 0
  <1>1. Jobs(<<>>) = {} /\ <<>> \in Seq(JobType)
      BY DEF Jobs
  <1>2. IsFiniteSet({})
      BY FS_EmptySet
  <1>3. Places(<<>>, <<>>, <<>>, {}) /\ Homes(<<>>, <<>>, {})
      BY <1>1, <1>2 DEF Places, Homes
  <1>4. \A n : LiveSum(n, <<>>, <<>>, <<>>, {}) = 0
      BY <1>1, <1>3, NoneLive
  <1>5. \A n : OwnerSum(n, <<>>, <<>>, {}) = 0
      BY <1>1, <1>3, NoOwner
  <1> QED
      BY <1>1, <1>2, <1>4, <1>5

LEMMA InitInv == Init => Inv
  <1>1. SUFFICES ASSUME Init PROVE Inv
      OBVIOUS
  <1>2. PICK S \in SUBSET disk : sLeaf = Looked(S, TRUE) /\ cLeaf = Looked(S, FALSE)
      BY <1>1 DEF Init
  <1>3. IsFiniteSet(S) /\ S \subseteq Files
    <2>1. disk \subseteq Files /\ IsFiniteSet(Files)
        BY <1>1, RemoteTreeAssumption DEF Init
    <2> QED
        BY <2>1, FS_Subset
  <1>4. PICK n \in Nat : n = Cardinality(S)
      BY <1>3, LookedFacts
  <1>5. /\ IsTree(sLeaf) /\ DOMAIN sLeaf = 1..(n + 1) /\ OneOfAName(sLeaf)
        /\ \A k \in 1..n : sLeaf[k + 1].name = InOrder(S)[k]
      BY <1>2, <1>3, <1>4, LookedFacts
  <1>6. /\ IsTree(cLeaf) /\ DOMAIN cLeaf = 1..(n + 1) /\ OneOfAName(cLeaf)
        /\ \A i \in DOMAIN cLeaf : cLeaf[i].linked /\ cLeaf[i].refs = 1 /\ cLeaf[i].server = i
        /\ \A k \in 1..n : cLeaf[k + 1].name = InOrder(S)[k]
      BY <1>2, <1>3, <1>4, LookedFacts
  <1>7. /\ events = <<>> /\ deleted = {} /\ recreated = FALSE /\ disk \subseteq Files
        /\ sHandles = {} /\ sReads = {} /\ leaked = 0 /\ applying = <<>> /\ sQueue = <<>> /\ cQueue = <<>>
        /\ reqs = {} /\ opened = {} /\ requests = 0 /\ forgetting = {} /\ fault = "none"
        /\ index = [k \in DOMAIN cLeaf |-> k] /\ known = [c \in DOMAIN cLeaf |-> 1]
      BY <1>1 DEF Init
  <1>8. TypeInv
    <2>1. DiskType
      <3>1. events \in Seq([type : {"Created", "Deleted"}, name : Files])
          BY <1>7
      <3> QED
          BY <1>7, <3>1 DEF DiskType
    <2>2. QueueType
        BY <1>7, Nothing DEF QueueType
    <2>3. KernelType
        BY <1>7, Nothing DEF KernelType
    <2> QED
        BY <1>5, <1>6, <2>1, <2>2, <2>3 DEF TypeInv
  <1>9. Jobs(cQueue) = {} /\ Jobs(sQueue) = {} /\ Jobs(applying) = {}
      BY <1>7, Nothing
  <1>10. SoundInv
      BY <1>9 DEF SoundInv
  <1>11. TreeInv
    <2>1. IndexAgrees
        BY <1>6, <1>7 DEF IndexAgrees
    <2>2. Stands
      <3>1. SUFFICES ASSUME NEW c \in DOMAIN cLeaf, c # Dir
                     PROVE  /\ cLeaf[c].server \in DOMAIN sLeaf /\ cLeaf[c].server # Dir
                            /\ sLeaf[cLeaf[c].server].name = cLeaf[c].name
          BY DEF Stands
      <3>2. PICK k \in 1..n : c = k + 1
          BY <1>6, <3>1 DEF Dir
      <3>3. cLeaf[c].server = c /\ c \in DOMAIN sLeaf
          BY <1>5, <1>6
      <3>4. sLeaf[k + 1].name = cLeaf[k + 1].name
          BY <1>5, <1>6
      <3> QED
          BY <3>1, <3>2, <3>3, <3>4
    <2>3. Dir \in DOMAIN cLeaf
        BY <1>6 DEF IsTree
    <2> QED
        BY <1>5, <1>6, <2>1, <2>2, <2>3 DEF TreeInv
  <1>12. RequestInv
    <2>1. \A m \in Nat : LiveCount(m) <= 1
        BY <1>7, Nothing DEF LiveCount
    <2> QED
        BY <1>7, <1>9, <2>1 DEF RequestInv
  <1>13. HandleInv
    <2>1. \A m \in Nat : Owners(m) <= 1
        BY <1>7, Nothing DEF Owners
    <2> QED
        BY <1>7, <1>9, <2>1 DEF HandleInv
  <1>14. RefInv
    <2>1. \A i : Sum(cQueue, PendingW(i)) = 0
        BY <1>7, SumEmpty
    <2>2. \A i \in DOMAIN cLeaf : Lookups(i) = 1
        BY <1>7 DEF Lookups
    <2> QED
        BY <1>6, <1>7, <2>1, <2>2 DEF RefInv
  <1> QED
      BY <1>8, <1>10, <1>11, <1>12, <1>13, <1>14 DEF Inv

-----------------------------------------------------------------------------
(* The invariant holds, and what follows from it.                          *)

LEMMA StutterKeeps ==
    ASSUME Inv, UNCHANGED vars
    PROVE  Inv'
  <1>1. /\ UNCHANGED <<cQueue, sQueue, applying, sReads, kernelVars, forgetting>>
        /\ UNCHANGED <<sLeaf, sHandles, leaked, cLeaf, index>>
        /\ UNCHANGED diskVars /\ fault' = fault
      BY DEF vars, serverVars, clientVars
  <1>2. DiskType' /\ fault' # "clientRefs"
      BY <1>1 DEF Inv, TypeInv, DiskType, diskVars, RefInv
  <1> QED
      BY <1>1, <1>2, QueuesStand

LEMMA KernelStepKeeps ==
    ASSUME Inv, KernelStep
    PROVE  Inv'
  <1>1. CASE \E c \in DOMAIN cLeaf : FuseForget(c) \/ FuseForgetmultiRelease(c)
      BY <1>1, FuseForgetKeeps, FuseForgetmultiReleaseKeeps
  <1>2. CASE \/ \E f \in Files : FuseLookup(f)
             \/ FuseOpendir
             \/ \E c \in DOMAIN cLeaf :
                   \/ FuseOpen(c)
                   \/ \E x \in {None} \cup {h.handle : h \in {o \in opened : o.leaf = c}} : FuseGetattr(c, x)
             \/ \E h \in opened : FuseReadDirPlus(h) \/ FuseRead(h) \/ FuseRelease(h) \/ FuseReleaseDir(h)
      BY <1>2, FuseStepKeeps
  <1> QED
      BY <1>1, <1>2, Zenon DEF KernelStep

LEMMA ServerMainKeeps ==
    ASSUME Inv, ServerMain
    PROVE  Inv'
  BY ResponseLookupKeeps, ResponseReadDirPlusKeeps, ResponseOpenKeeps, ResponseReleaseKeeps,
     ResponseReadAllocKeeps, ProcessInotifyEventKeeps, SendNotifyInvalEntryKeeps,
     ServerUsesFreedKeeps, OpenAssertsKeeps, Zenon DEF ServerMain

LEMMA ClientMainKeeps ==
    ASSUME Inv, ClientMain
    PROVE  Inv'
  <1>1. CASE \/ RequestLookup \/ RequestOpenDir \/ RequestOpen \/ RequestReadDirPlus \/ RequestGetAttr
             \/ RequestRelease \/ RequestReleaseDir
    <2>1. PICK op \in RequestOps \ {"Read"} : Forward(op)
        BY <1>1 DEF RequestOps, RequestLookup, RequestOpenDir, RequestOpen, RequestReadDirPlus,
                    RequestGetAttr, RequestRelease, RequestReleaseDir
    <2> QED
        BY <2>1, ForwardKeeps
  <1>2. CASE \/ RequestForgetMulti \/ RequestRead \/ ResponseLookupIn \/ ResponseReadDirPlusIn
             \/ ResponseReadFileIn \/ ResponseReadFileError \/ ReleaseLeafRef \/ NotifyInvalEntry
      BY <1>2, ResponseReadFileErrorKeeps, RequestForgetMultiKeeps, RequestReadKeeps, ResponseLookupInKeeps,
         ResponseReadDirPlusInKeeps, ResponseReadFileInKeeps, ReleaseLeafRefKeeps, NotifyInvalEntryKeeps
  <1>3. CASE \/ ResponseOpenIn \/ ResponseOpenDirIn
             \/ ResponseReleaseIn \/ ResponseReleaseDirIn \/ ResponseGetAttrIn \/ ResponseForgetMultiIn
      BY <1>3, OpenedKeeps, OnlyAnsweredKeeps
  <1> QED
      BY <1>1, <1>2, <1>3, Zenon DEF ClientMain

LEMMA NextInv == Inv /\ [Next]_vars => Inv'
  <1>1. SUFFICES ASSUME Inv, [Next]_vars PROVE Inv'
      OBVIOUS
  <1>2. CASE DiskStep
      BY <1>1, <1>2, ChangeKeeps DEF DiskStep
  <1>3. CASE KernelStep
      BY <1>1, <1>3, KernelStepKeeps
  <1>4. CASE FuseThread
      BY <1>1, <1>4, FuseForgetmultiRequestKeeps DEF FuseThread
  <1>5. CASE Workers
    <2>1. CASE DiskThread
        BY <1>1, <2>1, ResponseReadFileKeeps DEF DiskThread
    <2> QED
        BY <1>1, <1>5, <2>1, ServerMainKeeps, ClientMainKeeps, ApplyBlockCacheKeeps DEF Workers
  <1>6. CASE UNCHANGED vars
      BY <1>1, <1>6, StutterKeeps
  <1> QED
      BY <1>1, <1>2, <1>3, <1>4, <1>5, <1>6 DEF Next

\* The queues, the trees, the kernel's tables and the handles hold what they should, the jobs
\* serve requests that wait, and each handle has one owner: everything the theorems below rest on.
THEOREM InvariantHolds == Spec => []Inv
  BY InitInv, NextInv, PTL DEF Spec

LEMMA PendingIsSum ==
    ASSUME Inv, NEW i
    PROVE  Pending(i) = Sum(cQueue, PendingW(i))
  <1>1. ASSUME NEW k \in DOMAIN cQueue
        PROVE  PendingW(i)[cQueue[k]] =
                  IF cQueue[k].op = "ReleaseLeafRef" /\ cQueue[k].leaf = i THEN cQueue[k].x ELSE 0
    <2>1. cQueue[k] \in Jobs(cQueue) /\ cQueue[k] \in JobType
        BY QueueJobs DEF Inv, TypeInv, QueueType
    <2>2. cQueue[k].op = "ReleaseLeafRef" => cQueue[k].x \in Nat
        BY <2>1 DEF Inv, SoundInv, Sound
    <2> QED
        BY <2>1, <2>2, Weights
  <1> QED
      BY <1>1 DEF Pending, Sum

\* A leaf that the kernel knows, or that a release waits for, is there.
LEMMA KnownAlive ==
    ASSUME Inv, NEW c \in DOMAIN cLeaf, c \in DOMAIN known \/ Sum(cQueue, PendingW(c)) > 0
    PROVE  Alive(cLeaf, c)
  <1>1. PICK l \in Nat, s \in Nat : l = Lookups(c) /\ s = Sum(cQueue, PendingW(c))
    <2>1. Lookups(c) \in Nat
        BY DEF Lookups, Inv, TypeInv, KernelType
    <2>2. Sum(cQueue, PendingW(c)) \in Nat
        BY PendingSums DEF Inv, TypeInv, QueueType
    <2> QED
        BY <2>1, <2>2
  <1>2. cLeaf[c].refs = l + s
      BY <1>1 DEF Inv, RefInv
  <1>3. c \in DOMAIN known => l > 0
      BY <1>1 DEF Lookups, Inv, TypeInv, KernelType
  <1> QED
      BY <1>1, <1>2, <1>3 DEF Alive

LEMMA InvSafe == Inv => ClientRefsCounted /\ ClientLeavesSafe /\ HandlesSafe /\ IndexAgrees
  <1>1. SUFFICES ASSUME Inv PROVE ClientRefsCounted /\ ClientLeavesSafe /\ HandlesSafe /\ IndexAgrees
      OBVIOUS
  <1>2. ClientRefsCounted
      BY <1>1, PendingIsSum DEF ClientRefsCounted, Inv, RefInv
  <1>3. IndexAgrees
      BY <1>1 DEF Inv, TreeInv
  <1>4. DOMAIN known \subseteq DOMAIN cLeaf /\ \A r \in reqs : r.leaf \in DOMAIN known
      BY <1>1 DEF Inv, TypeInv, KernelType
  <1>5. ClientLeavesSafe
    <2>1. ASSUME NEW k \in DOMAIN cQueue,
                 cQueue[k].op \in {"Lookup", "ReadDirPlus", "Open", "OpenDir", "Release", "ReleaseDir", "GetAttr"}
          PROVE  Alive(cLeaf, cQueue[k].leaf)
      <3>1. cQueue[k] \in Jobs(cQueue)
          BY DEF Jobs
      <3>2. Live(cQueue[k]) /\ cQueue[k].op \in RequestOps
          BY <2>1 DEF Live, RequestOps
      <3>3. cQueue[k].leaf \in DOMAIN known
          BY <1>1, <1>4, <3>1, <3>2 DEF Inv, RequestInv, ServedByClient
      <3> QED
          BY <1>1, <1>4, <3>3, KnownAlive
    <2>2. ASSUME NEW k \in DOMAIN cQueue, cQueue[k].op = "ReleaseLeafRef"
          PROVE  Alive(cLeaf, cQueue[k].leaf)
      <3>1. PICK q \in Seq(JobType) : q = cQueue
          BY <1>1 DEF Inv, TypeInv, QueueType
      <3>2. PICK j \in Jobs(q) : j = cQueue[k]
          BY <3>1, QueueJobs
      <3>3. j \in JobType /\ j.leaf \in DOMAIN cLeaf /\ j.x \in Nat \ {0}
          BY <1>1, <2>2, <3>1, <3>2, QueueJobs DEF Inv, SoundInv, Sound
      <3>4. PICK w \in [JobType -> Nat] : w = PendingW(j.leaf)
          BY WeightTypes
      <3>5. w[j] = j.x /\ w[j] <= Sum(q, w) /\ Sum(q, w) \in Nat
          BY <2>2, <3>2, <3>3, <3>4, Weights, SumMember, SumTerms
      <3>6. Sum(cQueue, PendingW(j.leaf)) > 0
          BY <3>1, <3>3, <3>4, <3>5
      <3> QED
          BY <1>1, <3>2, <3>3, <3>6, KnownAlive
    <2>3. ASSUME NEW k \in DOMAIN applying, applying[k].op = "ReadIn"
          PROVE  Alive(cLeaf, applying[k].leaf)
      <3>1. applying[k] \in Jobs(applying) /\ Live(applying[k])
          BY <2>3 DEF Jobs, Live, AnswerOps
      <3>2. applying[k].leaf \in DOMAIN known
          BY <1>1, <1>4, <2>3, <3>1 DEF Inv, RequestInv, Served, Serves
      <3> QED
          BY <1>1, <1>4, <3>2, KnownAlive
    <2>4. fault # "clientRefs"
        BY <1>1 DEF Inv, RefInv
    <2> QED
        BY <2>1, <2>2, <2>3, <2>4 DEF ClientLeavesSafe, UsesLeaf
  <1>6. HandlesSafe
    <2>1. ASSUME NEW j \in sReads \cup Jobs(sQueue), ReadsHandle(j), Live(j) PROVE j.x \in sHandles
      <3>1. PICK r \in reqs : [leaf |-> r.leaf, handle |-> j.x] \in opened
          BY <1>1, <2>1 DEF Inv, RequestInv, Served, Serves
      <3>2. [leaf |-> r.leaf, handle |-> j.x].handle = j.x
          OBVIOUS
      <3> QED
          BY <1>1, <3>1, <3>2 DEF Inv, HandleInv
    <2>2. ASSUME NEW j \in Jobs(sQueue), Releases(j) PROVE j.x \in sHandles
        BY <1>1, <2>2 DEF Inv, HandleInv, Owned
    <2>3. ASSUME NEW r \in sReads, r.op = "Read" PROVE r.x \in sHandles
        BY <2>1, <2>3 DEF ReadsHandle, Live, RequestOps
    <2>4. ASSUME NEW k \in DOMAIN sQueue,
                 \/ sQueue[k].op \in {"Read", "ReadDirPlus", "Release", "ReleaseDir"}
                 \/ sQueue[k].op = "GetAttr" /\ sQueue[k].x # None
          PROVE  sQueue[k].x \in sHandles
      <3>1. sQueue[k] \in Jobs(sQueue)
          BY DEF Jobs
      <3> QED
          BY <2>1, <2>2, <2>4, <3>1 DEF ReadsHandle, Live, RequestOps, Releases
    <2> QED
        BY <2>3, <2>4 DEF HandlesSafe
  <1> QED
      BY <1>2, <1>3, <1>5, <1>6

\* A client leaf's count is what the kernel has counted and what it has given back in releases
\* that still wait, in every state: Leaf::_nlookup neither leaks nor runs below.
THEOREM ClientRefsAlwaysCounted == Spec => []ClientRefsCounted
  BY InvariantHolds, InvSafe, PTL

\* No job of the client's main queue and no block that a request waits for meets a client leaf
\* that is gone, and Leaf::ReleaseRef never takes off more than was counted.
THEOREM ClientLeavesAlwaysSafe == Spec => []ClientLeavesSafe
  BY InvariantHolds, InvSafe, PTL

\* No request reaches a RemoteFileHandle that was deleted, on the server's main queue or on a
\* disk thread.
THEOREM HandlesAlwaysSafe == Spec => []HandlesSafe
  BY InvariantHolds, InvSafe, PTL

\* FileTree::_serverInodeIndex finds every linked client leaf by the server leaf it stands for.
THEOREM IndexAlwaysAgrees == Spec => []IndexAgrees
  BY InvariantHolds, InvSafe, PTL
=============================================================================
