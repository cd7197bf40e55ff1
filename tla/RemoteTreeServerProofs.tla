------------------------ MODULE RemoteTreeServerProofs ------------------------
(***************************************************************************)
(* The counts of the server's leaves: as long as no file is created again  *)
(* under a name that was deleted, whatever the client sends finds its leaf *)
(* and the references it gives back, for any set of files and any number   *)
(* of requests and of changes on the disk.                                 *)
(***************************************************************************)
EXTENDS RemoteTreeProofs

-----------------------------------------------------------------------------
(* The server's side: its names.                                           *)

\* A file that was deleted has left the disk, and its leaf stays unlinked: as long as no name
\* is created a second time, there is one server leaf of a name, ever.
OneOfAll(t) == \A i, k \in DOMAIN t : i # Dir /\ k # Dir /\ t[i].name = t[k].name => i = k
GoneNames ==
    /\ \A k \in DOMAIN events : events[k].type = "Deleted" => events[k].name \in deleted
    /\ \A i \in DOMAIN sLeaf : i # Dir /\ ~sLeaf[i].linked => sLeaf[i].name \in deleted
FreshNames ==
    /\ disk \cap deleted = {}
    /\ \A k, l \in DOMAIN events :
          events[k].type = "Deleted" /\ events[l].type = "Created" /\ events[k].name = events[l].name
          => l < k
    /\ \A i \in DOMAIN sLeaf, l \in DOMAIN events :
          i # Dir /\ ~sLeaf[i].linked /\ events[l].type = "Created" => events[l].name # sLeaf[i].name
    /\ OneOfAll(sLeaf)
DiskInv == GoneNames /\ (~recreated => FreshNames)

\* A tree to which linked leaves were added, whose names were on no leaf that is unlinked.
Extends(t, u) ==
    /\ DOMAIN t \subseteq DOMAIN u
    /\ \A i \in DOMAIN t : u[i].name = t[i].name /\ u[i].linked = t[i].linked
    /\ \A i \in DOMAIN u : i \notin DOMAIN t => i # Dir /\ u[i].linked

LEMMA OneOfAllStays ==
    ASSUME NEW t, NEW u, Extends(t, u), OneOfAll(t), OneOfAName(u), IsTree(t), IsTree(u),
           \A i \in DOMAIN u, k \in DOMAIN t :
               i \notin DOMAIN t /\ k # Dir /\ ~t[k].linked => u[i].name # t[k].name
    PROVE  OneOfAll(u)
  <1> SUFFICES ASSUME NEW i \in DOMAIN u, NEW k \in DOMAIN u, i # Dir, k # Dir, u[i].name = u[k].name
               PROVE  i = k
      BY DEF OneOfAll
  <1>1. CASE i \in DOMAIN t /\ k \in DOMAIN t
      BY <1>1 DEF Extends, OneOfAll
  <1>2. CASE u[i].linked /\ u[k].linked
      BY <1>2 DEF OneOfAName
  <1>3. CASE i \notin DOMAIN t /\ k \in DOMAIN t /\ ~u[k].linked
      BY <1>3 DEF Extends
  <1>4. CASE k \notin DOMAIN t /\ i \in DOMAIN t /\ ~u[i].linked
      BY <1>4 DEF Extends
  <1> QED
      BY <1>1, <1>2, <1>3, <1>4 DEF Extends

\* A step that adds leaves of names that are fresh.
LEMMA DiskExtended ==
    ASSUME Inv, Inv', DiskInv, Extends(sLeaf, sLeaf'), UNCHANGED <<disk, deleted, recreated>>,
           \/ events' = events
           \/ events # <<>> /\ events' = Tail(events),
           ~recreated => \A i \in DOMAIN sLeaf', k \in DOMAIN sLeaf :
               i \notin DOMAIN sLeaf /\ k # Dir /\ ~sLeaf[k].linked => sLeaf'[i].name # sLeaf[k].name
    PROVE  DiskInv'
  <1> DEFINE T == [type : {"Created", "Deleted"}, name : Files]
  <1>0. IsTree(sLeaf) /\ IsTree(sLeaf') /\ OneOfAName(sLeaf') /\ events \in Seq(T)
      BY DEF Inv, TypeInv, TreeInv, DiskType, IsTree, OneOfAName
  <1>1. \E n \in Nat :
            \A l \in DOMAIN events' : l + n \in DOMAIN events /\ events'[l] = events[l + n] /\ l \in Nat
    <2>1. CASE events' = events
      <3>1. \A l \in DOMAIN events' : l + 0 \in DOMAIN events /\ events'[l] = events[l + 0] /\ l \in Nat
          BY <1>0, <2>1
      <3> QED
          BY <3>1
    <2>2. CASE events # <<>> /\ events' = Tail(events)
      <3>1. \A l \in DOMAIN events' : l + 1 \in DOMAIN events /\ events'[l] = events[l + 1] /\ l \in Nat
          BY <1>0, <2>2
      <3> QED
          BY <3>1
    <2> QED
        BY <2>1, <2>2
  <1>2. PICK n \in Nat :
            \A l \in DOMAIN events' : l + n \in DOMAIN events /\ events'[l] = events[l + n] /\ l \in Nat
      BY <1>1
  <1>3. GoneNames'
    <2>1. \A k \in DOMAIN events' : events'[k].type = "Deleted" => events'[k].name \in deleted
        BY <1>2 DEF DiskInv, GoneNames
    <2>2. \A i \in DOMAIN sLeaf' : i # Dir /\ ~sLeaf'[i].linked => sLeaf'[i].name \in deleted
        BY DEF DiskInv, GoneNames, Extends
    <2> QED
        BY <2>1, <2>2 DEF GoneNames
  <1>4. ASSUME ~recreated PROVE FreshNames'
    <2>0. FreshNames
        BY <1>4 DEF DiskInv
    <2>1. \A k, l \in DOMAIN events' :
              events'[k].type = "Deleted" /\ events'[l].type = "Created" /\ events'[k].name = events'[l].name
              => l < k
      <3> SUFFICES ASSUME NEW k \in DOMAIN events', NEW l \in DOMAIN events', events'[k].type = "Deleted",
                          events'[l].type = "Created", events'[k].name = events'[l].name
                   PROVE  l < k
          OBVIOUS
      <3>1. l + n < k + n
          BY <1>2, <2>0 DEF FreshNames
      <3> QED
          BY <1>2, <3>1
    <2>2. \A i \in DOMAIN sLeaf', l \in DOMAIN events' :
              i # Dir /\ ~sLeaf'[i].linked /\ events'[l].type = "Created" => events'[l].name # sLeaf'[i].name
      <3> SUFFICES ASSUME NEW i \in DOMAIN sLeaf', NEW l \in DOMAIN events', i # Dir, ~sLeaf'[i].linked,
                          events'[l].type = "Created"
                   PROVE  events'[l].name # sLeaf'[i].name
          OBVIOUS
      <3>1. i \in DOMAIN sLeaf /\ ~sLeaf[i].linked /\ sLeaf'[i].name = sLeaf[i].name
          BY DEF Extends
      <3>2. l + n \in DOMAIN events /\ events'[l] = events[l + n]
          BY <1>2
      <3> QED
          BY <2>0, <3>1, <3>2 DEF FreshNames
    <2>3. OneOfAll(sLeaf')
        BY <1>0, <1>4, <2>0, OneOfAllStays DEF FreshNames
    <2> QED
        BY <2>0, <2>1, <2>2, <2>3 DEF FreshNames, OneOfAll
  <1> QED
      BY <1>3, <1>4 DEF DiskInv

\* A step that leaves the disk, the events, and the server's names alone.
LEMMA DiskFrame ==
    ASSUME Inv, Inv', DiskInv, DOMAIN sLeaf' = DOMAIN sLeaf, UNCHANGED <<disk, deleted, recreated, events>>,
           \A i \in DOMAIN sLeaf : sLeaf'[i].name = sLeaf[i].name /\ sLeaf'[i].linked = sLeaf[i].linked
    PROVE  DiskInv'
  <1>1. Extends(sLeaf, sLeaf')
      BY DEF Extends
  <1> QED
      BY <1>1, DiskExtended

LEMMA ChangeKeepsDisk ==
    ASSUME Inv, Inv', DiskInv, NEW f \in Files, CreateFile(f) \/ DeleteFile(f)
    PROVE  DiskInv'
  <1> DEFINE T == [type : {"Created", "Deleted"}, name : Files]
  <1>0. sLeaf' = sLeaf /\ events \in Seq(T)
      BY DEF Inv, TypeInv, DiskType, CreateFile, DeleteFile, Change, serverVars
  <1>1. PICK type \in {"Created", "Deleted"} :
           /\ events' = Append(events, [type |-> type, name |-> f])
           /\ type = "Created" => CreateFile(f)
           /\ type = "Deleted" => DeleteFile(f)
      BY DEF CreateFile, DeleteFile, Change
  <1>2. PICK e \in T : e.type = type /\ e.name = f /\ events' = Append(events, e)
      BY <1>1
  <1>3. /\ \A k \in DOMAIN events' : \/ k \in DOMAIN events /\ events'[k] = events[k]
                                     \/ k = Len(events) + 1 /\ events'[k] = e
        /\ Len(events) \in Nat /\ \A k \in DOMAIN events : k \in Nat /\ k < Len(events) + 1
      BY <1>0, <1>2
  <1>4. CASE type = "Created"
    <2>1. /\ disk' = disk \cup {f} /\ deleted' = deleted /\ recreated' = (recreated \/ f \in deleted)
        BY <1>1, <1>4 DEF CreateFile
    <2>2. GoneNames'
      <3>1. \A k \in DOMAIN events' : events'[k].type = "Deleted" => events'[k].name \in deleted
          BY <1>2, <1>3, <1>4 DEF DiskInv, GoneNames
      <3> QED
          BY <1>0, <2>1, <3>1 DEF DiskInv, GoneNames
    <2>3. ASSUME ~recreated' PROVE FreshNames'
      <3>1. f \notin deleted /\ FreshNames
          BY <2>1, <2>3 DEF DiskInv
      <3>2. disk' \cap deleted' = {}
          BY <2>1, <3>1 DEF FreshNames
      <3>3. \A k, l \in DOMAIN events' :
               events'[k].type = "Deleted" /\ events'[l].type = "Created" /\ events'[k].name = events'[l].name
               => l < k
        <4> SUFFICES ASSUME NEW k \in DOMAIN events', NEW l \in DOMAIN events', events'[k].type = "Deleted",
                            events'[l].type = "Created", events'[k].name = events'[l].name
                     PROVE  l < k
            OBVIOUS
        <4>1. k \in DOMAIN events /\ events'[k] = events[k]
            BY <1>2, <1>3, <1>4
        <4>2. events[k].name \in deleted
            BY <4>1 DEF DiskInv, GoneNames
        <4>3. l \in DOMAIN events /\ events'[l] = events[l]
            BY <1>2, <1>3, <3>1, <4>1, <4>2
        <4> QED
            BY <3>1, <4>1, <4>3 DEF FreshNames
      <3>4. \A i \in DOMAIN sLeaf', l \in DOMAIN events' :
               i # Dir /\ ~sLeaf'[i].linked /\ events'[l].type = "Created" => events'[l].name # sLeaf'[i].name
        <4> SUFFICES ASSUME NEW i \in DOMAIN sLeaf, NEW l \in DOMAIN events', i # Dir, ~sLeaf[i].linked,
                            events'[l].type = "Created"
                     PROVE  events'[l].name # sLeaf[i].name
            BY <1>0
        <4>1. sLeaf[i].name \in deleted
            BY DEF DiskInv, GoneNames
        <4> QED
            BY <1>2, <1>3, <3>1, <4>1 DEF FreshNames
      <3> QED
          BY <1>0, <3>1, <3>2, <3>3, <3>4 DEF FreshNames, OneOfAll
    <2> QED
        BY <2>2, <2>3 DEF DiskInv
  <1>5. CASE type = "Deleted"
    <2>1. disk' = disk \ {f} /\ deleted' = deleted \cup {f} /\ recreated' = recreated
        BY <1>1, <1>5 DEF DeleteFile
    <2>2. GoneNames'
      <3>1. \A k \in DOMAIN events' : events'[k].type = "Deleted" => events'[k].name \in deleted'
          BY <1>2, <1>3, <2>1 DEF DiskInv, GoneNames
      <3> QED
          BY <1>0, <2>1, <3>1 DEF DiskInv, GoneNames
    <2>3. ASSUME ~recreated' PROVE FreshNames'
      <3>1. FreshNames
          BY <2>1, <2>3 DEF DiskInv
      <3>2. disk' \cap deleted' = {}
          BY <2>1, <3>1 DEF FreshNames
      <3>3. \A k, l \in DOMAIN events' :
               events'[k].type = "Deleted" /\ events'[l].type = "Created" /\ events'[k].name = events'[l].name
               => l < k
          BY <1>2, <1>3, <1>5, <3>1 DEF FreshNames
      <3>4. \A i \in DOMAIN sLeaf', l \in DOMAIN events' :
               i # Dir /\ ~sLeaf'[i].linked /\ events'[l].type = "Created" => events'[l].name # sLeaf'[i].name
          BY <1>0, <1>2, <1>3, <1>5, <3>1 DEF FreshNames
      <3> QED
          BY <1>0, <3>1, <3>2, <3>3, <3>4 DEF FreshNames, OneOfAll
    <2> QED
        BY <2>2, <2>3 DEF DiskInv
  <1> QED
      BY <1>4, <1>5

-----------------------------------------------------------------------------
(* What the server's handlers do to its tree.                              *)

RefsOf(t, s) == IF s \in DOMAIN t THEN t[s].refs ELSE 0

\* Names that are on the disk are on no leaf that is unlinked.
LEMMA DiskNamesFresh ==
    ASSUME DiskInv, ~recreated, NEW i \in DOMAIN sLeaf, i # Dir, ~sLeaf[i].linked
    PROVE  sLeaf[i].name \notin disk
  BY DEF DiskInv, GoneNames, FreshNames

\* A handler that answers with one job and raises the counts of the leaves that the job brings.
GivesOut(j, S) ==
    /\ j \in JobType /\ sQueue # <<>> /\ j.req = Head(sQueue).req /\ j.leaf = Head(sQueue).leaf
    /\ sQueue' = Tail(sQueue) /\ cQueue' = Append(cQueue, j)
    /\ UNCHANGED <<disk, events, changes, deleted, recreated, cLeaf, index, applying, reqs, known, opened,
                   requests, forgetting, sReads, fault>>
    /\ Extends(sLeaf, sLeaf')
    /\ \A i \in DOMAIN sLeaf' : i \notin DOMAIN sLeaf => sLeaf'[i].name \in disk
    /\ \A s : RefsOf(sLeaf', s) = RefsOf(sLeaf, s) + (IF s \in S THEN 1 ELSE 0)

LEMMA LookupGivesOut ==
    ASSUME Inv, ResponseLookup
    PROVE  \E j, S : /\ GivesOut(j, S) /\ leaked' = leaked
                     /\ j.op = "LookupIn" /\ S = {j.x.leaf} \ {None}
  <1>1. sQueue # <<>> /\ Head(sQueue).op = "Lookup" /\ UNCHANGED <<sHandles, sReads, leaked, fault>>
      BY DEF ResponseLookup, ServerLeaf, ServerHead
  <1>2. Head(sQueue).leaf = Dir /\ Head(sQueue).x \in Files
      BY <1>1, ServerHeadFacts DEF Sound, DirOps
  <1>3. PICK f \in Files : f = Head(sQueue).x
      BY <1>2
  <1>4. f \in Names
      BY DEF Names
  <1>5. IsTree(sLeaf) /\ OneOfAName(sLeaf)
      BY DEF Inv, TypeInv, TreeInv
  <1>6. CASE f \in disk
    <2>1. PICK u, c : u = AddChild(sLeaf, f) /\ c = Find(u, f)
        OBVIOUS
    <2>2. /\ IsTree(u) /\ DOMAIN sLeaf \subseteq DOMAIN u /\ (\A i \in DOMAIN sLeaf : u[i] = sLeaf[i])
          /\ c \in DOMAIN u /\ c # Dir /\ c # None /\ u[c].name = f /\ u[c].linked /\ OneOfAName(u)
          /\ \A i \in DOMAIN u : i \notin DOMAIN sLeaf => i = c /\ u[i] = NewLeaf(f)
        BY <1>4, <1>5, <2>1, AddChildFacts
    <2>3. c \in Nat
        BY <2>2, LeafFields
    <2>4. PICK x : x = [name |-> f, leaf |-> c]
        OBVIOUS
    <2>5. x \in Entries /\ x.name = f /\ x.leaf = c
        BY <1>4, <2>3, <2>4 DEF Entries
    <2>6. sLeaf' = AddRef(u, c) /\ ServerDone(<<>>, Reply("LookupIn", x))
        BY <1>3, <1>6, <2>1, <2>4 DEF ResponseLookup, ServerJob
    <2>7. PICK j \in JobType :
             /\ j.op = "LookupIn" /\ j.req = Head(sQueue).req /\ j.leaf = Head(sQueue).leaf /\ j.x = x
             /\ sQueue' = Tail(sQueue) /\ cQueue' = Append(cQueue, j)
             /\ UNCHANGED <<diskVars, clientVars, kernelVars, forgetting>>
      <3>1. "LookupIn" \in Ops /\ x \in Payloads
          BY <2>5, PayloadTypes DEF Ops
      <3> QED
          BY <1>1, <2>6, <3>1, Replied
    <2>8. /\ DOMAIN sLeaf' = DOMAIN u
          /\ \A i \in DOMAIN u : /\ sLeaf'[i].name = u[i].name /\ sLeaf'[i].linked = u[i].linked
                                 /\ sLeaf'[i].refs = u[i].refs + (IF i = c THEN 1 ELSE 0)
        BY <2>2, <2>6, AddRefFacts
    <2>9. Extends(sLeaf, sLeaf')
        BY <2>2, <2>8 DEF Extends
    <2>10. \A i \in DOMAIN sLeaf' : i \notin DOMAIN sLeaf => sLeaf'[i].name \in disk
        BY <1>6, <2>2, <2>8
    <2>11. ASSUME NEW s PROVE RefsOf(sLeaf', s) = RefsOf(sLeaf, s) + (IF s \in {c} THEN 1 ELSE 0)
      <3>1. CASE s \in DOMAIN sLeaf
          BY <2>2, <2>8, <3>1 DEF RefsOf
      <3>2. CASE s \in DOMAIN u /\ s \notin DOMAIN sLeaf
        <4>1. u[s].refs = 0
            BY <1>4, <2>2, <3>2, NewLeafFields
        <4> QED
            BY <2>8, <3>2, <4>1 DEF RefsOf
      <3>3. CASE s \notin DOMAIN u
          BY <2>2, <2>8, <3>3 DEF RefsOf
      <3> QED
          BY <3>1, <3>2, <3>3
    <2>12. GivesOut(j, {c})
        BY <1>1, <2>7, <2>9, <2>10, <2>11 DEF GivesOut, diskVars, clientVars, kernelVars
    <2>13. {c} = {j.x.leaf} \ {None}
        BY <2>2, <2>5, <2>7
    <2> QED
        BY <1>1, <2>7, <2>12, <2>13
  <1>7. CASE f \notin disk
    <2>1. PICK x : x = [name |-> f, leaf |-> None]
        OBVIOUS
    <2>2. x \in Entries /\ x.leaf = None
        BY <1>4, <2>1 DEF Entries, None
    <2>3. sLeaf' = sLeaf /\ ServerDone(<<>>, Reply("LookupIn", x))
        BY <1>3, <1>7, <2>1 DEF ResponseLookup, ServerJob
    <2>4. PICK j \in JobType :
             /\ j.op = "LookupIn" /\ j.req = Head(sQueue).req /\ j.leaf = Head(sQueue).leaf /\ j.x = x
             /\ sQueue' = Tail(sQueue) /\ cQueue' = Append(cQueue, j)
             /\ UNCHANGED <<diskVars, clientVars, kernelVars, forgetting>>
      <3>1. "LookupIn" \in Ops /\ x \in Payloads
          BY <2>2, PayloadTypes DEF Ops
      <3> QED
          BY <1>1, <2>3, <3>1, Replied
    <2>5. Extends(sLeaf, sLeaf')
        BY <2>3 DEF Extends
    <2>6. ASSUME NEW s PROVE RefsOf(sLeaf', s) = RefsOf(sLeaf, s) + (IF s \in {} THEN 1 ELSE 0)
      <3>1. RefsOf(sLeaf, s) \in Nat
          BY <1>5, LeafFields DEF RefsOf
      <3> QED
          BY <2>3, <3>1
    <2>7. GivesOut(j, {})
        BY <1>1, <2>3, <2>4, <2>5, <2>6 DEF GivesOut, diskVars, clientVars, kernelVars
    <2>8. {} = {j.x.leaf} \ {None}
        BY <2>2, <2>4
    <2> QED
        BY <1>1, <2>4, <2>7, <2>8
  <1> QED
      BY <1>6, <1>7

LEMMA ReadDirPlusGivesOut ==
    ASSUME Inv, ResponseReadDirPlus
    PROVE  \E j, S : /\ GivesOut(j, S) /\ leaked' = leaked
                     /\ j.op = "ReadDirPlusIn" /\ \A s : s \in S <=> \E e \in j.x : e.leaf = s
  <1>1. /\ sQueue # <<>> /\ Head(sQueue).op = "ReadDirPlus"
        /\ UNCHANGED <<sHandles, sReads, leaked, fault>>
      BY DEF ResponseReadDirPlus, ServerLeaf, ServerHead
  <1>2. PICK given : given = {i \in DOMAIN Rescan : i # Dir /\ Rescan[i].linked}
      OBVIOUS
  <1>3. PICK x : x = {[name |-> Rescan[i].name, leaf |-> i] : i \in given}
      OBVIOUS
  <1>4. /\ sLeaf' = [i \in DOMAIN Rescan |->
                        IF i \in given THEN [Rescan[i] EXCEPT !.refs = @ + 1] ELSE Rescan[i]]
        /\ ServerDone(<<>>, Reply("ReadDirPlusIn", x))
      BY <1>2, <1>3, Zenon DEF ResponseReadDirPlus
  <1>5. cLeaf' = cLeaf
      BY <1>4 DEF ServerDone, clientVars
  <1>6. x \in Listings
    <2>1. GivenOut(given, x)
        BY <1>2, <1>3, <1>4, Zenon DEF GivenOut
    <2> QED
        BY <1>5, <2>1, Listed
  <1>7. PICK j \in JobType :
           /\ j.op = "ReadDirPlusIn" /\ j.req = Head(sQueue).req /\ j.leaf = Head(sQueue).leaf /\ j.x = x
           /\ sQueue' = Tail(sQueue) /\ cQueue' = Append(cQueue, j)
           /\ UNCHANGED <<diskVars, clientVars, kernelVars, forgetting>>
    <2>1. "ReadDirPlusIn" \in Ops /\ x \in Payloads
        BY <1>6, PayloadTypes DEF Ops
    <2> QED
        BY <1>1, <1>4, <2>1, Replied
  <1>8. PICK u : u = Rescan
      OBVIOUS
  <1>9. /\ IsTree(u) /\ DOMAIN sLeaf \subseteq DOMAIN u /\ (\A i \in DOMAIN sLeaf : u[i] = sLeaf[i])
        /\ \A i \in DOMAIN u : i \notin DOMAIN sLeaf =>
               i # Dir /\ \E f \in disk : Find(sLeaf, f) = None /\ u[i] = NewLeaf(f)
    <2>1. IsTree(sLeaf) /\ OneOfAName(sLeaf) /\ disk \subseteq Files
        BY DEF Inv, TypeInv, TreeInv, DiskType
    <2> QED
        BY <1>8, <2>1, RescanFacts
  <1>10. PICK v : v = sLeaf'
      OBVIOUS
  <1>11. /\ DOMAIN v = DOMAIN u
         /\ \A i \in DOMAIN u : v[i] = IF i \in given THEN [u[i] EXCEPT !.refs = @ + 1] ELSE u[i]
      BY <1>4, <1>8, <1>10
  <1>12. ASSUME NEW i \in DOMAIN u
         PROVE  /\ v[i].name = u[i].name /\ v[i].linked = u[i].linked
                /\ v[i].refs = u[i].refs + (IF i \in given THEN 1 ELSE 0) /\ u[i].refs \in Nat
    <2>1. u[i] \in LeafType /\ u[i].refs \in Nat
        BY <1>9, <1>12, LeafFields
    <2>2. PICK m \in Nat : m = u[i].refs + 1
        BY <2>1
    <2>3. IF i \in given THEN v[i] = [u[i] EXCEPT !.refs = m] ELSE v[i] = u[i]
        BY <1>11, <2>2
    <2>4. CASE i \in given
      <3>1. v[i].name = u[i].name /\ v[i].linked = u[i].linked /\ v[i].refs = m
          BY <2>1, <2>3, <2>4 DEF LeafType
      <3> QED
          BY <2>1, <2>2, <2>4, <3>1
    <2>5. CASE i \notin given
      <3>1. v[i] = u[i]
          BY <2>3, <2>5
      <3> QED
          BY <2>1, <2>5, <3>1
    <2> QED
        BY <2>4, <2>5
  <1>13. ASSUME NEW i \in DOMAIN u, i \notin DOMAIN sLeaf
         PROVE  i # Dir /\ u[i].linked /\ u[i].refs = 0 /\ u[i].name \in disk
    <2>1. PICK f \in disk : u[i] = NewLeaf(f)
        BY <1>9, <1>13
    <2>2. f \in Names
        BY DEF Inv, TypeInv, DiskType, Names
    <2> QED
        BY <1>9, <1>13, <2>1, <2>2, NewLeafFields
  <1>14. Extends(sLeaf, v)
      BY <1>9, <1>11, <1>12, <1>13 DEF Extends
  <1>15. \A i \in DOMAIN v : i \notin DOMAIN sLeaf => v[i].name \in disk
      BY <1>11, <1>12, <1>13
  <1>16. ASSUME NEW s PROVE RefsOf(v, s) = RefsOf(sLeaf, s) + (IF s \in given THEN 1 ELSE 0)
    <2>0. given \subseteq DOMAIN u
        BY <1>2, <1>8
    <2>1. CASE s \in DOMAIN sLeaf
        BY <1>9, <1>11, <1>12, <2>1 DEF RefsOf
    <2>2. CASE s \in DOMAIN u /\ s \notin DOMAIN sLeaf
        BY <1>11, <1>12, <1>13, <2>2 DEF RefsOf
    <2>3. CASE s \notin DOMAIN u
        BY <1>9, <1>11, <2>0, <2>3 DEF RefsOf
    <2> QED
        BY <2>1, <2>2, <2>3
  <1>17. ASSUME NEW s PROVE s \in given <=> \E e \in x : e.leaf = s
    <2>1. ASSUME s \in given PROVE \E e \in x : e.leaf = s
      <3>1. PICK e : e = [name |-> Rescan[s].name, leaf |-> s]
          OBVIOUS
      <3>2. e \in x /\ e.leaf = s
          BY <1>3, <2>1, <3>1
      <3> QED
          BY <3>2
    <2>2. ASSUME NEW e \in x, e.leaf = s PROVE s \in given
      <3>1. PICK i \in given : e = [name |-> Rescan[i].name, leaf |-> i]
          BY <1>3
      <3> QED
          BY <2>2, <3>1
    <2> QED
        BY <2>1, <2>2
  <1>18. GivesOut(j, given)
      BY <1>1, <1>7, <1>10, <1>14, <1>15, <1>16 DEF GivesOut, diskVars, clientVars, kernelVars
  <1>19. \A s : s \in given <=> \E e \in j.x : e.leaf = s
      BY <1>7, <1>17
  <1> QED
      BY <1>1, <1>7, <1>18, <1>19, Zenon

LEMMA GivesOutKeepsDisk ==
    ASSUME Inv, Inv', DiskInv, NEW j, NEW S, GivesOut(j, S)
    PROVE  DiskInv'
  <1>1. /\ Extends(sLeaf, sLeaf') /\ UNCHANGED <<disk, deleted, recreated, events>>
        /\ \A i \in DOMAIN sLeaf' : i \notin DOMAIN sLeaf => sLeaf'[i].name \in disk
      BY DEF GivesOut
  <1>2. ASSUME ~recreated, NEW i \in DOMAIN sLeaf', NEW k \in DOMAIN sLeaf,
               i \notin DOMAIN sLeaf, k # Dir, ~sLeaf[k].linked
        PROVE  sLeaf'[i].name # sLeaf[k].name
      BY <1>1, <1>2, DiskNamesFresh
  <1> QED
      BY <1>1, <1>2, DiskExtended

\* The tree follows the event: no other event brings a name back that is gone.
LEMMA ProcessInotifyEventKeepsDisk ==
    ASSUME Inv, Inv', DiskInv, ProcessInotifyEvent
    PROVE  /\ DiskInv' /\ (\A s : RefsOf(sLeaf', s) = RefsOf(sLeaf, s))
           /\ \E j \in JobType : j.op = "NotifyEntry" /\ sQueue' = Append(sQueue, j)
  <1> DEFINE T == [type : {"Created", "Deleted"}, name : Files]
  <1>1. /\ events # <<>> /\ events' = Tail(events) /\ events \in Seq(T)
        /\ UNCHANGED <<disk, deleted, recreated>>
      BY DEF ProcessInotifyEvent, Inv, TypeInv, DiskType
  <1>2. PICK e \in T : e = Head(events) /\ e = events[1] /\ 1 \in DOMAIN events
    <2>1. PICK E : E = T
        OBVIOUS
    <2>2. events \in Seq(E) /\ events # <<>>
        BY <1>1, <2>1
    <2>3. Head(events) \in E /\ Head(events) = events[1] /\ 1 \in DOMAIN events
        BY <2>2
    <2> QED
        BY <2>1, <2>3
  <1>3. PICK type \in {"Created", "Deleted"}, f \in Files : type = e.type /\ f = e.name
      BY <1>2
  <1>4. PICK tree : tree = IF type = "Created" THEN AddChild(sLeaf, f) ELSE RemoveChild(sLeaf, f)
      OBVIOUS
  <1>5. PICK x : x = [type |-> type, name |-> f, leaf |-> Find(tree, f)]
      OBVIOUS
  <1>6. sLeaf' = tree /\ sQueue' = Append(sQueue, Job("NotifyEntry", 0, Dir, x)) /\ cLeaf' = cLeaf
      BY <1>2, <1>3, <1>4, <1>5 DEF ProcessInotifyEvent, clientVars
  <1>7. \E j \in JobType : j.op = "NotifyEntry" /\ sQueue' = Append(sQueue, j)
    <2>1. x \in Notices
        BY <1>4, <1>5, <1>6, Followed
    <2>2. "NotifyEntry" \in Ops /\ 0 \in Nat /\ Dir \in Nat /\ x \in Payloads
        BY <2>1, PayloadTypes DEF Ops, Dir
    <2> QED
        BY <1>6, <2>2, JobFields
  <1>8. IsTree(sLeaf) /\ OneOfAName(sLeaf) /\ f \in Names
      BY DEF Inv, TypeInv, TreeInv, Names
  <1>9. CASE type = "Created"
    <2>1. tree = AddChild(sLeaf, f)
        BY <1>4, <1>9
    <2>2. /\ DOMAIN sLeaf \subseteq DOMAIN tree /\ (\A i \in DOMAIN sLeaf : tree[i] = sLeaf[i])
          /\ Find(tree, f) # Dir
          /\ \A i \in DOMAIN tree : i \notin DOMAIN sLeaf => i = Find(tree, f) /\ tree[i] = NewLeaf(f)
        BY <1>8, <2>1, AddChildFacts
    <2>3. NewLeaf(f).name = f /\ NewLeaf(f).linked /\ NewLeaf(f).refs = 0
        BY <1>8, NewLeafFields
    <2>4. Extends(sLeaf, sLeaf')
        BY <1>6, <2>2, <2>3 DEF Extends
    <2>5. ASSUME ~recreated, NEW i \in DOMAIN sLeaf', NEW k \in DOMAIN sLeaf,
                 i \notin DOMAIN sLeaf, k # Dir, ~sLeaf[k].linked
          PROVE  sLeaf'[i].name # sLeaf[k].name
        BY <1>2, <1>3, <1>6, <1>9, <2>2, <2>3, <2>5 DEF DiskInv, FreshNames
    <2>6. DiskInv'
        BY <1>1, <2>4, <2>5, DiskExtended
    <2>7. ASSUME NEW s PROVE RefsOf(sLeaf', s) = RefsOf(sLeaf, s)
        BY <1>6, <2>2, <2>3 DEF RefsOf
    <2> QED
        BY <1>7, <2>6, <2>7
  <1>10. CASE type = "Deleted"
    <2>1. tree = RemoveChild(sLeaf, f)
        BY <1>4, <1>10
    <2>2. /\ DOMAIN tree = DOMAIN sLeaf
          /\ \A i \in DOMAIN sLeaf : /\ tree[i].name = sLeaf[i].name /\ tree[i].refs = sLeaf[i].refs
                                     /\ tree[i].linked <=> sLeaf[i].linked /\ i # Find(sLeaf, f)
        BY <1>8, <2>1, RemoveChildFacts
    <2>3. \A i \in DOMAIN sLeaf : i # Dir /\ ~tree[i].linked => ~sLeaf[i].linked \/ sLeaf[i].name = f
      <3>1. Find(sLeaf, f) # None => sLeaf[Find(sLeaf, f)].name = f
          BY <1>8, FindChild
      <3>2. \A i \in DOMAIN sLeaf : i # None
          BY <1>8, LeafFields
      <3> QED
          BY <2>2, <3>1, <3>2
    <2>4. \A l \in DOMAIN events' : l + 1 \in DOMAIN events /\ events'[l] = events[l + 1] /\ l \in Nat /\ l # 0
        BY <1>1
    <2>5. f \in deleted
        BY <1>2, <1>3, <1>10 DEF DiskInv, GoneNames
    <2>6. GoneNames'
      <3>1. \A k \in DOMAIN events' : events'[k].type = "Deleted" => events'[k].name \in deleted
          BY <2>4 DEF DiskInv, GoneNames
      <3>2. \A i \in DOMAIN sLeaf' : i # Dir /\ ~sLeaf'[i].linked => sLeaf'[i].name \in deleted
          BY <1>6, <2>2, <2>3, <2>5 DEF DiskInv, GoneNames
      <3> QED
          BY <1>1, <3>1, <3>2 DEF GoneNames
    <2>7. ASSUME ~recreated PROVE FreshNames'
      <3>1. FreshNames
          BY <2>7 DEF DiskInv
      <3>2. \A k, l \in DOMAIN events' :
               events'[k].type = "Deleted" /\ events'[l].type = "Created" /\ events'[k].name = events'[l].name
               => l < k
        <4> SUFFICES ASSUME NEW k \in DOMAIN events', NEW l \in DOMAIN events', events'[k].type = "Deleted",
                            events'[l].type = "Created", events'[k].name = events'[l].name
                     PROVE  l < k
            OBVIOUS
        <4>1. l + 1 < k + 1
            BY <2>4, <3>1 DEF FreshNames
        <4> QED
            BY <2>4, <4>1
      <3>3. \A i \in DOMAIN sLeaf', l \in DOMAIN events' :
               i # Dir /\ ~sLeaf'[i].linked /\ events'[l].type = "Created" => events'[l].name # sLeaf'[i].name
        <4> SUFFICES ASSUME NEW i \in DOMAIN sLeaf', NEW l \in DOMAIN events', i # Dir, ~sLeaf'[i].linked,
                            events'[l].type = "Created"
                     PROVE  events'[l].name # sLeaf'[i].name
            OBVIOUS
        <4>1. i \in DOMAIN sLeaf /\ sLeaf'[i].name = sLeaf[i].name /\ (~sLeaf[i].linked \/ sLeaf[i].name = f)
            BY <1>6, <2>2, <2>3
        <4>2. PICK m \in DOMAIN events : m = l + 1 /\ events'[l] = events[m] /\ ~(m < 1)
            BY <2>4
        <4>3. events[m].name # f
            BY <1>2, <1>3, <1>10, <3>1, <4>2 DEF FreshNames
        <4>4. ~sLeaf[i].linked => events[m].name # sLeaf[i].name
            BY <3>1, <4>1, <4>2 DEF FreshNames
        <4> QED
            BY <4>1, <4>2, <4>3, <4>4
      <3>4. OneOfAll(sLeaf')
          BY <1>6, <2>2, <3>1 DEF FreshNames, OneOfAll
      <3> QED
          BY <1>1, <3>1, <3>2, <3>3, <3>4 DEF FreshNames, OneOfAll
    <2>8. ASSUME NEW s PROVE RefsOf(sLeaf', s) = RefsOf(sLeaf, s)
        BY <1>6, <2>2 DEF RefsOf
    <2> QED
        BY <1>1, <1>7, <2>6, <2>7, <2>8 DEF DiskInv
  <1> QED
      BY <1>9, <1>10

-----------------------------------------------------------------------------
(* The references to the server's leaves: on their way, and at rest.       *)

\* The jobs that carry references to server leaf s: an answer brings one, a forget and a
\* release take theirs back.  On the client a release still names the client's leaf.
Brings(j, s) ==
    \/ j.op = "LookupIn" /\ j.x.leaf = s
    \/ j.op = "ReadDirPlusIn" /\ \E e \in j.x : e.leaf = s
    \/ Opens(j) /\ j.leaf = s
Forgets(j, s) == j.op = "ForgetMulti" /\ j.leaf = s /\ j.x \in Nat
ClientW(t, s) ==
    [j \in JobType |-> IF Forgets(j, s) THEN j.x
                       ELSE IF Brings(j, s) \/ (Releases(j) /\ t[j.leaf].server = s) THEN 1 ELSE 0]
ServerW(s) ==
    [j \in JobType |-> IF Forgets(j, s) THEN j.x ELSE IF Releases(j) /\ j.leaf = s THEN 1 ELSE 0]
Moving(q, p, t, s) == Sum(q, ClientW(t, s)) + Sum(p, ServerW(s))

\* What the kernel holds of s through client leaves, and what a forget_multi has in hand.
KnownAt(k, t, s)  == Total([c \in DOMAIN k |-> IF t[c].server = s THEN k[c] ELSE 0])
OpenAt(O, t, s)   == Cardinality({h \in O : t[h.leaf].server = s})
ForgotAt(G, t, s) == Total([m \in G |-> IF t[m.leaf].server = s THEN m.n ELSE 0])
Resting(k, O, G, t, s) == KnownAt(k, t, s) + OpenAt(O, t, s) + ForgotAt(G, t, s)

Queues(q, p) == q \in Seq(JobType) /\ p \in Seq(JobType)

LEMMA ServerWeightTypes ==
    /\ \A t, s : ClientW(t, s) \in [JobType -> Nat]
    /\ \A s : ServerW(s) \in [JobType -> Nat]
  <1>1. \A t, s : ClientW(t, s) \in [JobType -> Nat]
      BY DEF ClientW, Forgets
  <1>2. \A s : ServerW(s) \in [JobType -> Nat]
      BY DEF ServerW, Forgets
  <1> QED
      BY <1>1, <1>2

LEMMA ServerWeights ==
    ASSUME NEW j \in JobType, NEW t, NEW s
    PROVE  /\ ClientW(t, s)[j] = IF Forgets(j, s) THEN j.x
                                 ELSE IF Brings(j, s) \/ (Releases(j) /\ t[j.leaf].server = s) THEN 1 ELSE 0
           /\ ServerW(s)[j] = IF Forgets(j, s) THEN j.x ELSE IF Releases(j) /\ j.leaf = s THEN 1 ELSE 0
  <1>1. ClientW(t, s)[j] = IF Forgets(j, s) THEN j.x
                           ELSE IF Brings(j, s) \/ (Releases(j) /\ t[j.leaf].server = s) THEN 1 ELSE 0
      BY Zenon DEF ClientW
  <1>2. ServerW(s)[j] = IF Forgets(j, s) THEN j.x ELSE IF Releases(j) /\ j.leaf = s THEN 1 ELSE 0
      BY Zenon DEF ServerW
  <1> QED
      BY <1>1, <1>2

\* Most jobs carry none.
Carries(j) == Releases(j) \/ Opens(j) \/ j.op \in {"LookupIn", "ReadDirPlusIn", "ForgetMulti"}
LEMMA CarriesNothing ==
    ASSUME NEW j \in JobType, ~Carries(j), NEW t, NEW s
    PROVE  ClientW(t, s)[j] = 0 /\ ServerW(s)[j] = 0
  <1>1. ~Forgets(j, s) /\ ~Brings(j, s) /\ ~Releases(j)
      BY DEF Carries, Forgets, Brings
  <1> QED
      BY <1>1, ServerWeights

LEMMA MovingParts ==
    ASSUME NEW q, NEW p, Queues(q, p), NEW t, NEW s
    PROVE  /\ Moving(q, p, t, s) \in Nat /\ Sum(q, ClientW(t, s)) \in Nat /\ Sum(p, ServerW(s)) \in Nat
           /\ Moving(q, p, t, s) = Sum(q, ClientW(t, s)) + Sum(p, ServerW(s))
  <1>1. PICK w \in [JobType -> Nat], v \in [JobType -> Nat] : w = ClientW(t, s) /\ v = ServerW(s)
      BY ServerWeightTypes
  <1>2. Sum(q, w) \in Nat /\ Sum(p, v) \in Nat
      BY SumTerms DEF Queues
  <1> QED
      BY <1>1, <1>2 DEF Moving

LEMMA MovingType ==
    ASSUME NEW q, NEW p, Queues(q, p), NEW t, NEW s
    PROVE  Moving(q, p, t, s) \in Nat
  BY MovingParts

LEMMA MovingPushed ==
    ASSUME NEW q, NEW p, Queues(q, p), NEW j \in JobType, NEW t, NEW s
    PROVE  /\ Queues(Append(q, j), p) /\ Queues(q, Append(p, j))
           /\ Moving(Append(q, j), p, t, s) = Moving(q, p, t, s) + ClientW(t, s)[j]
           /\ Moving(q, Append(p, j), t, s) = Moving(q, p, t, s) + ServerW(s)[j]
           /\ ClientW(t, s)[j] \in Nat /\ ServerW(s)[j] \in Nat
  <1>1. PICK w \in [JobType -> Nat], v \in [JobType -> Nat] : w = ClientW(t, s) /\ v = ServerW(s)
      BY ServerWeightTypes
  <1>2. q \in Seq(JobType) /\ p \in Seq(JobType)
      BY DEF Queues
  <1>3. Sum(Append(q, j), w) = Sum(q, w) + w[j] /\ Sum(Append(p, j), v) = Sum(p, v) + v[j]
      BY <1>2, SumAppend
  <1>4. Sum(q, w) \in Nat /\ Sum(p, v) \in Nat /\ w[j] \in Nat /\ v[j] \in Nat
      BY <1>2, SumTerms
  <1>5. \A x, y : Moving(x, y, t, s) = Sum(x, w) + Sum(y, v)
      BY <1>1 DEF Moving
  <1>6. Moving(Append(q, j), p, t, s) = Moving(q, p, t, s) + w[j]
      BY <1>3, <1>4, <1>5
  <1>7. Moving(q, Append(p, j), t, s) = Moving(q, p, t, s) + v[j]
      BY <1>3, <1>4, <1>5
  <1>8. Queues(Append(q, j), p) /\ Queues(q, Append(p, j))
      BY <1>2, QueueAppend DEF Queues
  <1> QED
      BY <1>1, <1>4, <1>6, <1>7, <1>8

LEMMA MovingTakenFromClient ==
    ASSUME NEW q, NEW p, Queues(q, p), NEW t, NEW s, q # <<>>
    PROVE  /\ Queues(Tail(q), p) /\ Head(q) \in JobType
           /\ Moving(q, p, t, s) = Moving(Tail(q), p, t, s) + ClientW(t, s)[Head(q)]
           /\ ClientW(t, s)[Head(q)] \in Nat
  <1>1. PICK w \in [JobType -> Nat], v \in [JobType -> Nat] : w = ClientW(t, s) /\ v = ServerW(s)
      BY ServerWeightTypes
  <1>2. q \in Seq(JobType) /\ p \in Seq(JobType) /\ Tail(q) \in Seq(JobType) /\ Head(q) \in JobType
      BY QueueTail DEF Queues
  <1>3. Sum(q, w) = Sum(Tail(q), w) + w[Head(q)] /\ w[Head(q)] \in Nat
      BY <1>2, SumTail
  <1>4. Sum(q, w) \in Nat /\ Sum(Tail(q), w) \in Nat /\ Sum(p, v) \in Nat
      BY <1>2, SumTerms
  <1>5. \A x, y : Moving(x, y, t, s) = Sum(x, w) + Sum(y, v)
      BY <1>1 DEF Moving
  <1>6. Moving(q, p, t, s) = Moving(Tail(q), p, t, s) + w[Head(q)]
      BY <1>3, <1>4, <1>5
  <1> QED
      BY <1>1, <1>2, <1>3, <1>6 DEF Queues

LEMMA MovingTakenFromServer ==
    ASSUME NEW q, NEW p, Queues(q, p), NEW t, NEW s, p # <<>>
    PROVE  /\ Queues(q, Tail(p)) /\ Head(p) \in JobType
           /\ Moving(q, p, t, s) = Moving(q, Tail(p), t, s) + ServerW(s)[Head(p)]
           /\ ServerW(s)[Head(p)] \in Nat
  <1>1. PICK w \in [JobType -> Nat], v \in [JobType -> Nat] : w = ClientW(t, s) /\ v = ServerW(s)
      BY ServerWeightTypes
  <1>2. q \in Seq(JobType) /\ p \in Seq(JobType) /\ Tail(p) \in Seq(JobType) /\ Head(p) \in JobType
      BY QueueTail DEF Queues
  <1>3. Sum(p, v) = Sum(Tail(p), v) + v[Head(p)] /\ v[Head(p)] \in Nat
      BY <1>2, SumTail
  <1>4. Sum(q, w) \in Nat /\ Sum(Tail(p), v) \in Nat /\ Sum(p, v) \in Nat
      BY <1>2, SumTerms
  <1>5. \A x, y : Moving(x, y, t, s) = Sum(x, w) + Sum(y, v)
      BY <1>1 DEF Moving
  <1>6. Moving(q, p, t, s) = Moving(q, Tail(p), t, s) + v[Head(p)]
      BY <1>3, <1>4, <1>5
  <1> QED
      BY <1>1, <1>2, <1>3, <1>6 DEF Queues

\* The tables of what rests.
Tables(k, O, G) ==
    /\ IsFiniteSet(DOMAIN k) /\ k \in [DOMAIN k -> Nat] /\ IsFiniteSet(O) /\ IsFiniteSet(G)
    /\ \A m \in G : m.n \in Nat

LEMMA RestingParts ==
    ASSUME NEW k, NEW O, NEW G, Tables(k, O, G), NEW t, NEW s
    PROVE  /\ KnownAt(k, t, s) \in Nat /\ OpenAt(O, t, s) \in Nat /\ ForgotAt(G, t, s) \in Nat
           /\ Resting(k, O, G, t, s) = KnownAt(k, t, s) + OpenAt(O, t, s) + ForgotAt(G, t, s)
           /\ Resting(k, O, G, t, s) \in Nat
  <1>1. KnownAt(k, t, s) \in Nat
    <2>1. PICK f : f = [c \in DOMAIN k |-> IF t[c].server = s THEN k[c] ELSE 0]
        OBVIOUS
    <2>2. f \in [DOMAIN k -> Nat] /\ IsFiniteSet(DOMAIN k)
        BY <2>1 DEF Tables
    <2>3. Total(f) \in Nat
        BY <2>2, UnitsFinite
    <2> QED
        BY <2>1, <2>3 DEF KnownAt
  <1>2. ForgotAt(G, t, s) \in Nat
    <2>1. PICK f : f = [m \in G |-> IF t[m.leaf].server = s THEN m.n ELSE 0]
        OBVIOUS
    <2>2. f \in [G -> Nat] /\ IsFiniteSet(G)
        BY <2>1 DEF Tables
    <2>3. Total(f) \in Nat
        BY <2>2, UnitsFinite
    <2> QED
        BY <2>1, <2>3 DEF ForgotAt
  <1>3. OpenAt(O, t, s) \in Nat
    <2>1. IsFiniteSet({h \in O : t[h.leaf].server = s})
        BY FS_Subset DEF Tables
    <2> QED
        BY <2>1, FS_CardinalityType DEF OpenAt
  <1>4. Resting(k, O, G, t, s) = KnownAt(k, t, s) + OpenAt(O, t, s) + ForgotAt(G, t, s)
      BY DEF Resting
  <1> QED
      BY <1>1, <1>2, <1>3, <1>4

-----------------------------------------------------------------------------
(* How what rests changes.                                                 *)

\* The kernel is given the leaves S, at most one of which stands for s.
Gives(k, S, k2) ==
    /\ DOMAIN k2 = DOMAIN k \cup S
    /\ \A c \in DOMAIN k2 : k2[c] = IF c \in S THEN (IF c \in DOMAIN k THEN k[c] ELSE 0) + 1 ELSE k[c]
LEMMA KnownGiven ==
    ASSUME NEW k, k \in [DOMAIN k -> Nat], NEW S, NEW k2, IsFiniteSet(DOMAIN k2), Gives(k, S, k2),
           NEW t, NEW s, \A c, d \in S : t[c].server = s /\ t[d].server = s => c = d
    PROVE  /\ KnownAt(k, t, s) \in Nat /\ KnownAt(k2, t, s) \in Nat
           /\ KnownAt(k2, t, s) = KnownAt(k, t, s) + (IF \E c \in S : t[c].server = s THEN 1 ELSE 0)
  <1>1. PICK f : f = [c \in DOMAIN k |-> IF t[c].server = s THEN k[c] ELSE 0]
      OBVIOUS
  <1>2. PICK g : g = [c \in DOMAIN k2 |-> IF t[c].server = s THEN k2[c] ELSE 0]
      OBVIOUS
  <1>3. PICK D, E : D = DOMAIN k /\ E = DOMAIN k2
      OBVIOUS
  <1>4. D \subseteq E /\ IsFiniteSet(E) /\ (\A c \in E : k2[c] \in Nat) /\ E = D \cup S
      BY <1>3 DEF Gives
  <1>5. f \in [D -> Nat] /\ g \in [E -> Nat]
      BY <1>1, <1>2, <1>3, <1>4
  <1>6. \A c \in D : f[c] = IF t[c].server = s THEN k[c] ELSE 0
      BY <1>1, <1>3
  <1>7. \A c \in E : g[c] = IF t[c].server = s THEN k2[c] ELSE 0
      BY <1>2, <1>3
  <1>8. \A c \in E : k2[c] = IF c \in S THEN (IF c \in D THEN k[c] ELSE 0) + 1 ELSE k[c]
      BY <1>3 DEF Gives
  <1>9. Total(f) \in Nat /\ Total(g) \in Nat
    <2>1. IsFiniteSet(D)
        BY <1>4, FS_Subset
    <2> QED
        BY <1>4, <1>5, <2>1, UnitsFinite
  <1>10. CASE \E c \in S : t[c].server = s
    <2>1. PICK c \in S : t[c].server = s
        BY <1>10
    <2>2. c \in E /\ \A d \in E : d # c => g[d] = IF d \in D THEN f[d] ELSE 0
        BY <1>4, <1>6, <1>7, <1>8, <2>1
    <2>3. /\ c \in D => Total(g) + f[c] = Total(f) + g[c]
          /\ c \notin D => Total(g) = Total(f) + g[c]
      <3>1. IsFiniteSet(E) /\ D \subseteq E
          BY <1>4
      <3> QED
          BY <1>5, <2>2, <3>1, TotalChange
    <2>4. (c \in D => k[c] \in Nat /\ f[c] = k[c] /\ g[c] = k[c] + 1) /\ (c \notin D => g[c] = 1)
        BY <1>3, <1>6, <1>7, <1>8, <2>1, <2>2
    <2>5. Total(g) = Total(f) + 1
        BY <1>9, <2>3, <2>4
    <2> QED
        BY <1>1, <1>2, <1>9, <1>10, <2>5 DEF KnownAt
  <1>11. CASE ~\E c \in S : t[c].server = s
    <2>1. \A d \in E : g[d] = IF d \in D THEN f[d] ELSE 0
        BY <1>4, <1>6, <1>7, <1>8, <1>11
    <2>2. Total(g) = Total(f)
        BY <1>4, <1>5, <2>1, TotalPad
    <2>3. Total(g) = Total(f) + 0
        BY <1>9, <2>2
    <2> QED
        BY <1>1, <1>2, <1>9, <1>11, <2>3 DEF KnownAt
  <1> QED
      BY <1>10, <1>11

\* It forgets a leaf.
Drops(k, c, k2) == c \in DOMAIN k /\ k2 = [i \in DOMAIN k \ {c} |-> k[i]]
LEMMA KnownDropped ==
    ASSUME NEW k, k \in [DOMAIN k -> Nat], IsFiniteSet(DOMAIN k), NEW c, NEW k2, Drops(k, c, k2), NEW t, NEW s
    PROVE  /\ KnownAt(k2, t, s) \in Nat
           /\ KnownAt(k, t, s) = KnownAt(k2, t, s) + (IF t[c].server = s THEN k[c] ELSE 0)
  <1>1. PICK f : f = [i \in DOMAIN k |-> IF t[i].server = s THEN k[i] ELSE 0]
      OBVIOUS
  <1>2. PICK D : D = DOMAIN k
      OBVIOUS
  <1>3. c \in D /\ DOMAIN k2 = D \ {c} /\ (\A i \in D \ {c} : k2[i] = k[i]) /\ IsFiniteSet(D)
      BY <1>2 DEF Drops
  <1>4. f \in [D -> Nat] /\ f[c] = IF t[c].server = s THEN k[c] ELSE 0
      BY <1>1, <1>2, <1>3
  <1>5. [i \in DOMAIN k2 |-> IF t[i].server = s THEN k2[i] ELSE 0] = [i \in D \ {c} |-> f[i]]
      BY <1>1, <1>2, <1>3
  <1>6. /\ Total([i \in D \ {c} |-> f[i]]) \in Nat
        /\ Total(f) = Total([i \in D \ {c} |-> f[i]]) + f[c]
      BY <1>3, <1>4, TotalSplit
  <1> QED
      BY <1>1, <1>4, <1>5, <1>6 DEF KnownAt

\* A leaf that the kernel knows counts.
LEMMA KnownMember ==
    ASSUME NEW k, k \in [DOMAIN k -> Nat], IsFiniteSet(DOMAIN k), NEW t, NEW c \in DOMAIN k
    PROVE  KnownAt(k, t, t[c].server) \in Nat /\ k[c] <= KnownAt(k, t, t[c].server)
  <1>1. PICK f : f = [i \in DOMAIN k |-> IF t[i].server = t[c].server THEN k[i] ELSE 0]
      OBVIOUS
  <1>2. f \in [DOMAIN k -> Nat] /\ f[c] = k[c]
      BY <1>1
  <1>3. Total(f) \in Nat /\ f[c] <= Total(f)
      BY <1>2, TotalMember
  <1> QED
      BY <1>1, <1>2, <1>3 DEF KnownAt

\* An open file comes, or goes.
LEMMA OpenRemoved ==
    ASSUME NEW O, IsFiniteSet(O), NEW h, NEW P, Without(O, h, P), NEW t, NEW s
    PROVE  /\ OpenAt(P, t, s) \in Nat
           /\ OpenAt(O, t, s) = OpenAt(P, t, s) + (IF t[h.leaf].server = s THEN 1 ELSE 0)
  <1>1. PICK S, T : S = {o \in O : t[o.leaf].server = s} /\ T = {o \in P : t[o.leaf].server = s}
      OBVIOUS
  <1>2. h \in O /\ P = O \ {h}
      BY DEF Without
  <1>3. IsFiniteSet(S) /\ IsFiniteSet(T)
      BY <1>1, <1>2, FS_Subset
  <1>4. Cardinality(S) \in Nat /\ Cardinality(T) \in Nat
      BY <1>3, FS_CardinalityType
  <1>5. CASE t[h.leaf].server = s
    <2>1. T = S \ {h} /\ h \in S
        BY <1>1, <1>2, <1>5
    <2>2. Cardinality(T) = Cardinality(S) - 1
        BY <1>3, <2>1, FS_RemoveElement
    <2> QED
        BY <1>1, <1>4, <1>5, <2>2 DEF OpenAt
  <1>6. CASE t[h.leaf].server # s
    <2>1. T = S
        BY <1>1, <1>2, <1>6
    <2>2. Cardinality(S) = Cardinality(T) + 0
        BY <1>4, <2>1
    <2> QED
        BY <1>1, <1>4, <1>6, <2>2 DEF OpenAt
  <1> QED
      BY <1>5, <1>6

LEMMA OpenAdded ==
    ASSUME NEW O, IsFiniteSet(O), NEW h, h \notin O, NEW P, P = O \cup {h}, NEW t, NEW s
    PROVE  /\ OpenAt(O, t, s) \in Nat /\ OpenAt(P, t, s) \in Nat
           /\ OpenAt(P, t, s) = OpenAt(O, t, s) + (IF t[h.leaf].server = s THEN 1 ELSE 0)
  <1>1. IsFiniteSet(P) /\ Without(P, h, O)
      BY FS_AddElement DEF Without
  <1>2. /\ OpenAt(O, t, s) \in Nat
        /\ OpenAt(P, t, s) = OpenAt(O, t, s) + (IF t[h.leaf].server = s THEN 1 ELSE 0)
      BY <1>1, OpenRemoved
  <1> QED
      BY <1>2

\* A forget_multi takes a leaf in hand, and lets go of it.
LEMMA ForgotRemoved ==
    ASSUME NEW G, IsFiniteSet(G), \A m \in G : m.n \in Nat, NEW h, NEW P, Without(G, h, P), NEW t, NEW s
    PROVE  /\ ForgotAt(P, t, s) \in Nat
           /\ ForgotAt(G, t, s) = ForgotAt(P, t, s) + (IF t[h.leaf].server = s THEN h.n ELSE 0)
  <1>1. PICK f : f = [m \in G |-> IF t[m.leaf].server = s THEN m.n ELSE 0]
      OBVIOUS
  <1>2. h \in G /\ P = G \ {h}
      BY DEF Without
  <1>3. f \in [G -> Nat] /\ f[h] = IF t[h.leaf].server = s THEN h.n ELSE 0
      BY <1>1, <1>2
  <1>4. [m \in P |-> IF t[m.leaf].server = s THEN m.n ELSE 0] = [m \in G \ {h} |-> f[m]]
      BY <1>1, <1>2
  <1>5. /\ Total([m \in G \ {h} |-> f[m]]) \in Nat
        /\ Total(f) = Total([m \in G \ {h} |-> f[m]]) + f[h]
      BY <1>2, <1>3, TotalSplit
  <1> QED
      BY <1>1, <1>3, <1>4, <1>5 DEF ForgotAt

LEMMA ForgotAdded ==
    ASSUME NEW G, IsFiniteSet(G), \A m \in G : m.n \in Nat, NEW h, h \notin G, h.n \in Nat,
           NEW P, P = G \cup {h}, NEW t, NEW s
    PROVE  /\ ForgotAt(G, t, s) \in Nat /\ ForgotAt(P, t, s) \in Nat
           /\ ForgotAt(P, t, s) = ForgotAt(G, t, s) + (IF t[h.leaf].server = s THEN h.n ELSE 0)
  <1>1. IsFiniteSet(P) /\ Without(P, h, G) /\ \A m \in P : m.n \in Nat
      BY FS_AddElement DEF Without
  <1>2. /\ ForgotAt(G, t, s) \in Nat
        /\ ForgotAt(P, t, s) = ForgotAt(G, t, s) + (IF t[h.leaf].server = s THEN h.n ELSE 0)
      BY <1>1, ForgotRemoved
  <1> QED
      BY <1>2

\* Client leaves that were there stand for the same server leaves.
KeepsServers(t, v) == \A c \in DOMAIN t : c \in DOMAIN v /\ v[c].server = t[c].server

LEMMA KeptSums ==
    ASSUME NEW t, NEW v, KeepsServers(t, v), NEW s
    PROVE  /\ \A k : DOMAIN k \subseteq DOMAIN t => KnownAt(k, v, s) = KnownAt(k, t, s)
           /\ \A O : (\A h \in O : h.leaf \in DOMAIN t) => OpenAt(O, v, s) = OpenAt(O, t, s)
           /\ \A G : (\A m \in G : m.leaf \in DOMAIN t) => ForgotAt(G, v, s) = ForgotAt(G, t, s)
  <1>0. \A c \in DOMAIN t : v[c].server = t[c].server
      BY DEF KeepsServers
  <1>1. ASSUME NEW k, DOMAIN k \subseteq DOMAIN t PROVE KnownAt(k, v, s) = KnownAt(k, t, s)
    <2>1. [c \in DOMAIN k |-> IF v[c].server = s THEN k[c] ELSE 0]
             = [c \in DOMAIN k |-> IF t[c].server = s THEN k[c] ELSE 0]
        BY <1>0, <1>1
    <2> QED
        BY <2>1 DEF KnownAt
  <1>2. ASSUME NEW O, \A h \in O : h.leaf \in DOMAIN t PROVE OpenAt(O, v, s) = OpenAt(O, t, s)
    <2>1. {h \in O : v[h.leaf].server = s} = {h \in O : t[h.leaf].server = s}
        BY <1>0, <1>2
    <2> QED
        BY <2>1 DEF OpenAt
  <1>3. ASSUME NEW G, \A m \in G : m.leaf \in DOMAIN t PROVE ForgotAt(G, v, s) = ForgotAt(G, t, s)
    <2>1. [m \in G |-> IF v[m.leaf].server = s THEN m.n ELSE 0]
             = [m \in G |-> IF t[m.leaf].server = s THEN m.n ELSE 0]
        BY <1>0, <1>3
    <2> QED
        BY <2>1 DEF ForgotAt
  <1> QED
      BY <1>1, <1>2, <1>3

ReleasesOf(q, t) == \A j \in Jobs(q) : Releases(j) => j.leaf \in DOMAIN t
LEMMA KeptQueue ==
    ASSUME NEW t, NEW v, KeepsServers(t, v), NEW s, NEW q \in Seq(JobType),
           ReleasesOf(q, t)
    PROVE  Sum(q, ClientW(v, s)) = Sum(q, ClientW(t, s))
  <1>1. ASSUME NEW j \in Jobs(q) PROVE ClientW(v, s)[j] = ClientW(t, s)[j]
    <2>1. j \in JobType
        BY QueueJobs
    <2>2. Releases(j) => v[j.leaf].server = t[j.leaf].server
        BY DEF KeepsServers, ReleasesOf
    <2> QED
        BY <2>1, <2>2, ServerWeights
  <1> QED
      BY <1>1, SumSame

-----------------------------------------------------------------------------
(* The invariant of the server's side.                                     *)

\* A job on the server is for the leaf that the client leaf of its request stands for, and so
\* is the answer to an open.
Placed(j) == \A r \in reqs : r.req = j.req => j.leaf = cLeaf[r.leaf].server
Asking(j) == j.op \in RequestOps \ {"Read"}
PlacedJobs ==
    /\ \A j \in Jobs(sQueue) : Asking(j) => Placed(j)
    /\ \A j \in Jobs(cQueue) : Opens(j) => Placed(j)

\* The count of a server leaf is what is on its way, what rests, and what was leaked.
LeakedAt(l, s) == IF s = Dir THEN l ELSE 0
Balanced(s) ==
    RefsOf(sLeaf, s) = Moving(cQueue, sQueue, cLeaf, s) + Resting(known, opened, forgetting, cLeaf, s)
                           + LeakedAt(leaked, s)
Balance == \A s \in Nat \ {0} : Balanced(s)

Reaches == PlacedJobs /\ (Running => Balance) /\ fault \notin {"serverLeaf", "serverRefs"}
ServerInv == DiskInv /\ (~recreated => Reaches)

LEMMA BalanceTypes ==
    ASSUME Inv
    PROVE  /\ Queues(cQueue, sQueue) /\ Tables(known, opened, forgetting) /\ leaked \in Nat
           /\ IsFiniteSet(DOMAIN known) /\ known \in [DOMAIN known -> Nat] /\ DOMAIN known \subseteq DOMAIN cLeaf
           /\ IsFiniteSet(DOMAIN cLeaf)
           /\ (\A h \in opened : h.leaf \in DOMAIN known) /\ \A m \in forgetting : m.leaf \in DOMAIN cLeaf
  <1>1. Queues(cQueue, sQueue) /\ leaked \in Nat /\ IsFiniteSet(opened) /\ IsFiniteSet(forgetting)
      BY DEF Inv, TypeInv, QueueType, KernelType, Queues
  <1>2. IsFiniteSet(DOMAIN cLeaf)
    <2>1. DOMAIN cLeaf = 1..Len(cLeaf) /\ Len(cLeaf) \in Nat
        BY DEF Inv, TypeInv, IsTree
    <2> QED
        BY <2>1, FS_Interval
  <1>3. DOMAIN known \subseteq DOMAIN cLeaf /\ known \in [DOMAIN known -> Nat]
      BY DEF Inv, TypeInv, KernelType
  <1>4. IsFiniteSet(DOMAIN known)
      BY <1>2, <1>3, FS_Subset
  <1>5. (\A h \in opened : h.leaf \in DOMAIN known) /\ \A m \in forgetting : m.leaf \in DOMAIN cLeaf /\ m.n \in Nat
      BY DEF Inv, TypeInv, KernelType
  <1> QED
      BY <1>1, <1>2, <1>3, <1>4, <1>5 DEF Tables

LEMMA RefsTypes ==
    ASSUME NEW t, IsTree(t), NEW s
    PROVE  RefsOf(t, s) \in Nat
  BY LeafFields DEF RefsOf

\* Only what is on its way changes, with the counts.
LEMMA BalancedMove ==
    ASSUME Inv, NEW s, Balanced(s), UNCHANGED <<cLeaf, known, opened, forgetting, leaked>>,
           NEW r \in Nat, NEW m \in Nat, r = RefsOf(sLeaf', s), m = Moving(cQueue', sQueue', cLeaf, s),
           r + Moving(cQueue, sQueue, cLeaf, s) = RefsOf(sLeaf, s) + m
    PROVE  Balanced(s)'
  <1>1. PICK a \in Nat, b \in Nat : a = Resting(known, opened, forgetting, cLeaf, s) /\ b = LeakedAt(leaked, s)
    <2>1. Resting(known, opened, forgetting, cLeaf, s) \in Nat /\ LeakedAt(leaked, s) \in Nat
        BY BalanceTypes, RestingParts DEF LeakedAt
    <2> QED
        BY <2>1
  <1>2. PICK x \in Nat, y \in Nat : x = RefsOf(sLeaf, s) /\ y = Moving(cQueue, sQueue, cLeaf, s)
    <2>1. RefsOf(sLeaf, s) \in Nat
        BY RefsTypes DEF Inv, TypeInv
    <2>2. Moving(cQueue, sQueue, cLeaf, s) \in Nat
        BY BalanceTypes, MovingType
    <2> QED
        BY <2>1, <2>2
  <1>3. x = y + a + b /\ r + y = x + m
      BY <1>1, <1>2 DEF Balanced
  <1>4. r = m + a + b
      BY <1>3
  <1> QED
      BY <1>1, <1>4 DEF Balanced

LEMMA PlaceFrame ==
    ASSUME Inv, PlacedJobs, KeepsServers(cLeaf, cLeaf'),
           \A r \in reqs' : r \in reqs \/ \A p \in reqs : p.req # r.req,
           \A j \in Jobs(sQueue') : j \in Jobs(sQueue) \/ ~Asking(j) \/ Placed(j)',
           \A j \in Jobs(cQueue') : j \in Jobs(cQueue) \/ ~Opens(j) \/ Placed(j)'
    PROVE  PlacedJobs'
  <1>1. ASSUME NEW j, Placed(j), \E p \in reqs : p.req = j.req PROVE Placed(j)'
    <2> SUFFICES ASSUME NEW r \in reqs', r.req = j.req PROVE j.leaf = cLeaf'[r.leaf].server
        BY DEF Placed
    <2>1. r \in reqs
        BY <1>1
    <2>2. r.leaf \in DOMAIN cLeaf
        BY <2>1 DEF Inv, TypeInv, KernelType
    <2> QED
        BY <1>1, <2>1, <2>2 DEF Placed, KeepsServers
  <1>2. ASSUME NEW j \in Jobs(sQueue), Asking(j) PROVE \E p \in reqs : p.req = j.req
    <2>1. Live(j) /\ Served(j)
        BY <1>2 DEF Asking, Live, Inv, RequestInv
    <2> QED
        BY <2>1 DEF Served, Serves
  <1>3. ASSUME NEW j \in Jobs(cQueue), Opens(j) PROVE \E p \in reqs : p.req = j.req
    <2>1. Live(j) /\ ServedByClient(j)
        BY <1>3 DEF Opens, Live, AnswerOps, Inv, RequestInv
    <2> QED
        BY <2>1 DEF ServedByClient, Serves
  <1>4. \A j \in Jobs(sQueue') : Asking(j) => Placed(j)'
      BY <1>1, <1>2 DEF PlacedJobs
  <1>5. \A j \in Jobs(cQueue') : Opens(j) => Placed(j)'
      BY <1>1, <1>3 DEF PlacedJobs
  <1>6. Jobs(cQueue)' = Jobs(cQueue') /\ Jobs(sQueue)' = Jobs(sQueue')
      BY DEF Jobs
  <1> QED
      BY <1>4, <1>5, <1>6 DEF PlacedJobs, Asking, Opens

LEMMA SameServers == ASSUME cLeaf' = cLeaf PROVE KeepsServers(cLeaf, cLeaf')
  BY DEF KeepsServers

\* The request that a job of the client's main queue asks for.
LEMMA AskedFor ==
    ASSUME Inv, NEW j \in Jobs(cQueue), j.op \in RequestOps
    PROVE  /\ j.leaf \in DOMAIN known /\ j.leaf \in DOMAIN cLeaf
           /\ \A r \in reqs : r.req = j.req => r.leaf = j.leaf
  <1>1. PICK r \in reqs : r.req = j.req /\ j.leaf = r.leaf
      BY DEF Inv, RequestInv, ServedByClient, Live, Serves
  <1>2. \A p \in reqs : p.req = r.req => p = r
      BY DEF Inv, RequestInv
  <1>3. r.leaf \in DOMAIN known /\ DOMAIN known \subseteq DOMAIN cLeaf
      BY DEF Inv, TypeInv, KernelType
  <1> QED
      BY <1>1, <1>2, <1>3

\* The request that a job of the server's main queue serves.
LEMMA ServedFor ==
    ASSUME Inv, PlacedJobs, NEW j \in Jobs(sQueue), Asking(j)
    PROVE  \E r \in reqs : /\ r.req = j.req /\ j.leaf = cLeaf[r.leaf].server /\ r.leaf \in DOMAIN known
                           /\ r.leaf \in DOMAIN cLeaf
  <1>1. Live(j) /\ Served(j)
      BY DEF Asking, Live, Inv, RequestInv
  <1>2. PICK r \in reqs : r.req = j.req
      BY <1>1 DEF Served, Serves
  <1>3. r.leaf \in DOMAIN known /\ DOMAIN known \subseteq DOMAIN cLeaf
      BY DEF Inv, TypeInv, KernelType
  <1> QED
      BY <1>2, <1>3 DEF PlacedJobs, Placed

\* A client leaf stands for a leaf that the server has.
LEMMA StandsFor ==
    ASSUME Inv, NEW c \in DOMAIN cLeaf
    PROVE  cLeaf[c].server \in DOMAIN sLeaf /\ cLeaf[c].server \in Nat \ {0}
  <1>1. cLeaf[c].server \in DOMAIN sLeaf
    <2>1. CASE c = Dir
        BY <2>1 DEF Inv, TreeInv, TypeInv, IsTree
    <2>2. CASE c # Dir
        BY <2>2 DEF Inv, TreeInv, Stands
    <2> QED
        BY <2>1, <2>2
  <1>2. cLeaf[c].server # None /\ cLeaf[c].server \in Nat
      BY <1>1, LeafFields DEF Inv, TypeInv
  <1> QED
      BY <1>1, <1>2 DEF None

-----------------------------------------------------------------------------
(* The steps of the queues.                                                *)

\* What a job that the client's main queue sends on carries does not change.
LEMMA SendingReaches ==
    ASSUME Inv, Reaches, Running, cQueue # <<>>, NEW j \in JobType,
           cQueue' = Tail(cQueue), sQueue' = Append(sQueue, j), Asking(j) => Placed(j),
           \A s \in Nat \ {0} : ServerW(s)[j] = ClientW(cLeaf, s)[Head(cQueue)],
           UNCHANGED <<diskVars, serverVars, clientVars, kernelVars, forgetting, fault>>
    PROVE  Reaches'
  <1>0. UNCHANGED <<cLeaf, reqs, known, opened, forgetting, leaked, sLeaf, fault>>
      BY DEF clientVars, kernelVars, serverVars
  <1>1. Queues(cQueue, sQueue)
      BY BalanceTypes
  <1>2. Balance'
    <2> SUFFICES ASSUME NEW s \in Nat \ {0} PROVE Balanced(s)'
        BY DEF Balance
    <2>1. /\ Queues(Tail(cQueue), sQueue)
          /\ Moving(cQueue, sQueue, cLeaf, s)
                = Moving(Tail(cQueue), sQueue, cLeaf, s) + ClientW(cLeaf, s)[Head(cQueue)]
        BY <1>1, MovingTakenFromClient
    <2>2. /\ Queues(Tail(cQueue), Append(sQueue, j))
          /\ Moving(Tail(cQueue), Append(sQueue, j), cLeaf, s)
                = Moving(Tail(cQueue), sQueue, cLeaf, s) + ServerW(s)[j]
        BY <2>1, MovingPushed
    <2>3. PICK m \in Nat, r \in Nat : m = Moving(cQueue', sQueue', cLeaf, s) /\ r = RefsOf(sLeaf, s)
      <3>1. Moving(Tail(cQueue), Append(sQueue, j), cLeaf, s) \in Nat
          BY <2>2, MovingType
      <3>2. RefsOf(sLeaf, s) \in Nat
          BY RefsTypes DEF Inv, TypeInv
      <3> QED
          BY <3>1, <3>2
    <2>4. m = Moving(cQueue, sQueue, cLeaf, s)
        BY <2>1, <2>2, <2>3
    <2>5. r = RefsOf(sLeaf', s) /\ r + Moving(cQueue, sQueue, cLeaf, s) = RefsOf(sLeaf, s) + m
        BY <1>0, <2>3, <2>4
    <2>6. Balanced(s)
        BY DEF Reaches, Balance
    <2> QED
        BY <1>0, <2>3, <2>5, <2>6, BalancedMove
  <1>3. PlacedJobs'
    <2>1. /\ Jobs(sQueue') = Jobs(sQueue) \cup {j} /\ Jobs(cQueue') \subseteq Jobs(cQueue)
        BY <1>1, QueueAppend, QueueTail DEF Queues
    <2>2. Asking(j) => Placed(j)'
        BY <1>0 DEF Placed
    <2> QED
        BY <1>0, <2>1, <2>2, SameServers, PlaceFrame DEF Reaches
  <1> QED
      BY <1>0, <1>2, <1>3 DEF Reaches

LEMMA ForwardReaches ==
    ASSUME Inv, Reaches, NEW op \in RequestOps \ {"Read"}, Forward(op)
    PROVE  Reaches'
  <1>1. /\ Running /\ cQueue # <<>> /\ Head(cQueue).op = op /\ cQueue' = Tail(cQueue)
        /\ sQueue' = Append(sQueue, [Head(cQueue) EXCEPT !.leaf = cLeaf[Head(cQueue).leaf].server])
        /\ UNCHANGED <<diskVars, serverVars, clientVars, kernelVars, forgetting, fault>>
      BY DEF Forward, ClientHead, ClientJob
  <1>2. PICK h : h = Head(cQueue)
      OBVIOUS
  <1>3. h \in JobType /\ h \in Jobs(cQueue)
      BY <1>1, <1>2, QueueTail DEF Inv, TypeInv, QueueType
  <1>4. h.leaf \in DOMAIN cLeaf /\ \A r \in reqs : r.req = h.req => r.leaf = h.leaf
      BY <1>1, <1>2, <1>3, AskedFor
  <1>5. PICK n \in Nat : n = cLeaf[h.leaf].server
      BY <1>4, StandsFor
  <1>6. PICK j \in JobType : /\ j = [h EXCEPT !.leaf = n] /\ j.op = h.op /\ j.req = h.req /\ j.x = h.x
                             /\ j.leaf = n
      BY <1>3, JobWithLeaf
  <1>7. Placed(j)
      BY <1>4, <1>5, <1>6 DEF Placed
  <1>8. ASSUME NEW s PROVE ServerW(s)[j] = ClientW(cLeaf, s)[h]
    <2>1. ~Forgets(j, s) /\ ~Forgets(h, s) /\ ~Brings(h, s) /\ (Releases(j) <=> Releases(h))
        BY <1>1, <1>2, <1>6 DEF Forgets, Brings, Releases, Opens, RequestOps
    <2>2. ServerW(s)[j] = IF Releases(j) /\ j.leaf = s THEN 1 ELSE 0
        BY <2>1, ServerWeights
    <2>3. ClientW(cLeaf, s)[h] = IF Releases(h) /\ cLeaf[h.leaf].server = s THEN 1 ELSE 0
        BY <1>3, <2>1, ServerWeights
    <2> QED
        BY <1>5, <1>6, <2>1, <2>2, <2>3
  <1> QED
      BY <1>1, <1>2, <1>5, <1>6, <1>7, <1>8, SendingReaches

LEMMA RequestForgetMultiReaches ==
    ASSUME Inv, Reaches, RequestForgetMulti
    PROVE  Reaches'
  <1>1. /\ Running /\ cQueue # <<>> /\ Head(cQueue).op = "ForgetMulti" /\ cQueue' = Tail(cQueue)
        /\ sQueue' = Append(sQueue, Head(cQueue))
        /\ UNCHANGED <<diskVars, serverVars, clientVars, kernelVars, forgetting, fault>>
      BY DEF RequestForgetMulti, ClientHead, ClientJob
  <1>2. PICK j \in JobType : j = Head(cQueue)
      BY <1>1, QueueTail DEF Inv, TypeInv, QueueType
  <1>3. ~Asking(j)
      BY <1>1, <1>2 DEF Asking, RequestOps
  <1>4. ASSUME NEW s PROVE ServerW(s)[j] = ClientW(cLeaf, s)[j]
    <2>1. ~Brings(j, s) /\ ~Releases(j)
        BY <1>1, <1>2 DEF Brings, Releases, Opens
    <2> QED
        BY <2>1, ServerWeights
  <1> QED
      BY <1>1, <1>2, <1>3, <1>4, SendingReaches

LEMMA RequestReadReaches ==
    ASSUME Inv, Reaches, RequestRead
    PROVE  Reaches'
  <1>1. /\ Running /\ cQueue # <<>> /\ Head(cQueue).op = "Read" /\ cQueue' = Tail(cQueue)
        /\ sQueue' = sQueue \o <<Head(cQueue), [Head(cQueue) EXCEPT !.op = "Prefetch"]>>
        /\ UNCHANGED <<diskVars, serverVars, clientVars, kernelVars, forgetting, fault>>
      BY DEF RequestRead, ClientHead, ClientJob
  <1>0. UNCHANGED <<cLeaf, reqs, known, opened, forgetting, leaked, sLeaf, fault>>
      BY <1>1 DEF clientVars, kernelVars, serverVars
  <1>2. PICK j \in JobType : j = Head(cQueue)
      BY <1>1, QueueTail DEF Inv, TypeInv, QueueType
  <1>3. PICK k \in JobType : k = [Head(cQueue) EXCEPT !.op = "Prefetch"] /\ k.op = "Prefetch"
    <2>1. PICK op \in Ops : op = "Prefetch"
        BY DEF Ops
    <2> QED
        BY <1>2, <2>1, JobWithOp
  <1>4. Queues(cQueue, sQueue)
      BY BalanceTypes
  <1>5. sQueue' = Append(Append(sQueue, j), k)
      BY <1>1, <1>2, <1>3, <1>4, QueueAppendTwo DEF Queues
  <1>6. ~Carries(j) /\ ~Carries(k) /\ ~Asking(j) /\ ~Asking(k)
      BY <1>1, <1>2, <1>3 DEF Carries, Releases, Opens, Asking, RequestOps
  <1>7. Balance'
    <2> SUFFICES ASSUME NEW s \in Nat \ {0} PROVE Balanced(s)'
        BY DEF Balance
    <2>1. /\ Queues(Tail(cQueue), sQueue)
          /\ Moving(cQueue, sQueue, cLeaf, s) = Moving(Tail(cQueue), sQueue, cLeaf, s) + ClientW(cLeaf, s)[j]
        BY <1>1, <1>2, <1>4, MovingTakenFromClient
    <2>2. /\ Queues(Tail(cQueue), Append(sQueue, j))
          /\ Moving(Tail(cQueue), Append(sQueue, j), cLeaf, s)
                = Moving(Tail(cQueue), sQueue, cLeaf, s) + ServerW(s)[j]
        BY <2>1, MovingPushed
    <2>3. /\ Queues(Tail(cQueue), sQueue')
          /\ Moving(Tail(cQueue), sQueue', cLeaf, s)
                = Moving(Tail(cQueue), Append(sQueue, j), cLeaf, s) + ServerW(s)[k]
        BY <1>5, <2>2, MovingPushed
    <2>4. ClientW(cLeaf, s)[j] = 0 /\ ServerW(s)[j] = 0 /\ ServerW(s)[k] = 0
        BY <1>6, CarriesNothing
    <2>5. PICK m \in Nat, r \in Nat : m = Moving(cQueue', sQueue', cLeaf, s) /\ r = RefsOf(sLeaf, s)
      <3>1. Moving(Tail(cQueue), sQueue', cLeaf, s) \in Nat
          BY <2>3, MovingType
      <3>2. RefsOf(sLeaf, s) \in Nat
          BY RefsTypes DEF Inv, TypeInv
      <3> QED
          BY <1>1, <3>1, <3>2
    <2>6. PICK a \in Nat, b \in Nat : /\ a = Moving(Tail(cQueue), sQueue, cLeaf, s)
                                     /\ b = Moving(Tail(cQueue), Append(sQueue, j), cLeaf, s)
        BY <2>1, <2>2, MovingType
    <2>7. m = Moving(cQueue, sQueue, cLeaf, s)
        BY <1>1, <2>1, <2>2, <2>3, <2>4, <2>5, <2>6
    <2>8. r = RefsOf(sLeaf', s) /\ r + Moving(cQueue, sQueue, cLeaf, s) = RefsOf(sLeaf, s) + m
        BY <1>0, <2>5, <2>7
    <2>9. Balanced(s)
        BY <1>1 DEF Reaches, Balance
    <2> QED
        BY <1>0, <2>5, <2>8, <2>9, BalancedMove
  <1>8. PlacedJobs'
    <2>1. /\ Append(sQueue, j) \in Seq(JobType) /\ Jobs(Append(sQueue, j)) = Jobs(sQueue) \cup {j}
          /\ Jobs(cQueue') \subseteq Jobs(cQueue)
        BY <1>1, <1>4, QueueAppend, QueueTail DEF Queues
    <2>2. Jobs(sQueue') = Jobs(Append(sQueue, j)) \cup {k}
        BY <1>5, <2>1, QueueAppend
    <2> QED
        BY <1>0, <1>6, <2>1, <2>2, SameServers, PlaceFrame DEF Reaches
  <1> QED
      BY <1>0, <1>7, <1>8 DEF Reaches

\* An answer brings what the handler has counted.
LEMMA GivesOutReaches ==
    ASSUME Inv, Reaches, Running, NEW j, NEW S, GivesOut(j, S), ~Carries(Head(sQueue)),
           Opens(j) => Asking(Head(sQueue)), leaked' \in Nat,
           \A s \in Nat \ {0} : ClientW(cLeaf, s)[j] + LeakedAt(leaked', s)
                                    = LeakedAt(leaked, s) + (IF s \in S THEN 1 ELSE 0)
    PROVE  Reaches'
  <1>0. UNCHANGED <<cLeaf, reqs, known, opened, forgetting, fault>> /\ j \in JobType
      BY DEF GivesOut
  <1>1. /\ sQueue # <<>> /\ j.req = Head(sQueue).req /\ j.leaf = Head(sQueue).leaf
        /\ sQueue' = Tail(sQueue) /\ cQueue' = Append(cQueue, j)
      BY DEF GivesOut
  <1>2. Queues(cQueue, sQueue) /\ Tables(known, opened, forgetting) /\ leaked \in Nat
      BY BalanceTypes
  <1>3. Balance'
    <2> SUFFICES ASSUME NEW s \in Nat \ {0} PROVE Balanced(s)'
        BY DEF Balance
    <2>1. /\ Queues(cQueue, Tail(sQueue)) /\ Head(sQueue) \in JobType
          /\ Moving(cQueue, sQueue, cLeaf, s) = Moving(cQueue, Tail(sQueue), cLeaf, s) + ServerW(s)[Head(sQueue)]
        BY <1>1, <1>2, MovingTakenFromServer
    <2>2. ServerW(s)[Head(sQueue)] = 0
        BY <2>1, CarriesNothing
    <2>3. /\ Moving(Append(cQueue, j), Tail(sQueue), cLeaf, s)
                = Moving(cQueue, Tail(sQueue), cLeaf, s) + ClientW(cLeaf, s)[j]
          /\ ClientW(cLeaf, s)[j] \in Nat
        BY <1>0, <2>1, MovingPushed
    <2>4. PICK a \in Nat, w \in Nat : a = Moving(cQueue, Tail(sQueue), cLeaf, s) /\ w = ClientW(cLeaf, s)[j]
        BY <2>1, <2>3, MovingType
    <2>5. PICK b \in Nat, l \in Nat, k \in Nat :
             /\ b = Resting(known, opened, forgetting, cLeaf, s)
             /\ l = LeakedAt(leaked, s) /\ k = LeakedAt(leaked', s)
      <3>1. Resting(known, opened, forgetting, cLeaf, s) \in Nat
          BY <1>2, RestingParts
      <3>2. LeakedAt(leaked, s) \in Nat /\ LeakedAt(leaked', s) \in Nat
          BY <1>2 DEF LeakedAt
      <3> QED
          BY <3>1, <3>2
    <2>6. PICK i \in Nat : i = IF s \in S THEN 1 ELSE 0
        OBVIOUS
    <2>7. RefsOf(sLeaf, s) = a + b + l
      <3>1. Balanced(s)
          BY DEF Reaches, Balance
      <3> QED
          BY <2>1, <2>2, <2>4, <2>5, <3>1 DEF Balanced
    <2>8. RefsOf(sLeaf', s) = RefsOf(sLeaf, s) + i
        BY <2>6 DEF GivesOut
    <2>9. w + k = l + i
        BY <2>4, <2>5, <2>6
    <2>10. RefsOf(sLeaf', s) = (a + w) + b + k
        BY <2>7, <2>8, <2>9
    <2> QED
        BY <1>0, <1>1, <2>3, <2>4, <2>5, <2>10 DEF Balanced
  <1>4. PlacedJobs'
    <2>1. /\ Jobs(cQueue') = Jobs(cQueue) \cup {j} /\ Jobs(sQueue') \subseteq Jobs(sQueue)
          /\ Head(sQueue) \in Jobs(sQueue)
        BY <1>0, <1>1, <1>2, QueueAppend, QueueTail DEF Queues
    <2>2. Opens(j) => Placed(j)'
      <3>1. Asking(Head(sQueue)) => Placed(Head(sQueue))
          BY <2>1 DEF Reaches, PlacedJobs
      <3> QED
          BY <1>0, <1>1, <3>1 DEF Placed
    <2> QED
        BY <1>0, <2>1, <2>2, SameServers, PlaceFrame DEF Reaches
  <1> QED
      BY <1>0, <1>3, <1>4 DEF Reaches

LEMMA ResponseLookupReaches ==
    ASSUME Inv, Reaches, ResponseLookup
    PROVE  Reaches'
  <1>1. Running /\ Head(sQueue).op = "Lookup"
      BY DEF ResponseLookup, ServerLeaf, ServerHead
  <1>2. PICK j, S : GivesOut(j, S) /\ leaked' = leaked /\ j.op = "LookupIn" /\ S = {j.x.leaf} \ {None}
      BY LookupGivesOut
  <1>3. ~Carries(Head(sQueue)) /\ ~Opens(j)
      BY <1>1, <1>2 DEF Carries, Releases, Opens
  <1>4. leaked \in Nat /\ j \in JobType
      BY <1>2, BalanceTypes DEF GivesOut
  <1>5. ASSUME NEW s \in Nat \ {0}
        PROVE  ClientW(cLeaf, s)[j] + LeakedAt(leaked', s) = LeakedAt(leaked, s) + (IF s \in S THEN 1 ELSE 0)
    <2>1. ~Forgets(j, s) /\ ~Releases(j) /\ (Brings(j, s) <=> s \in S)
        BY <1>2 DEF Forgets, Releases, Brings, Opens, None
    <2>2. ClientW(cLeaf, s)[j] = IF s \in S THEN 1 ELSE 0
        BY <1>4, <2>1, ServerWeights
    <2>3. LeakedAt(leaked, s) \in Nat
        BY <1>4 DEF LeakedAt
    <2> QED
        BY <1>2, <2>2, <2>3
  <1> QED
      BY <1>1, <1>2, <1>3, <1>4, <1>5, GivesOutReaches

LEMMA ResponseReadDirPlusReaches ==
    ASSUME Inv, Reaches, ResponseReadDirPlus
    PROVE  Reaches'
  <1>1. Running /\ Head(sQueue).op = "ReadDirPlus"
      BY DEF ResponseReadDirPlus, ServerLeaf, ServerHead
  <1>2. PICK j, S : /\ GivesOut(j, S) /\ leaked' = leaked /\ j.op = "ReadDirPlusIn"
                    /\ \A s : s \in S <=> \E e \in j.x : e.leaf = s
      BY ReadDirPlusGivesOut
  <1>3. ~Carries(Head(sQueue)) /\ ~Opens(j)
      BY <1>1, <1>2 DEF Carries, Releases, Opens
  <1>4. leaked \in Nat /\ j \in JobType
      BY <1>2, BalanceTypes DEF GivesOut
  <1>5. ASSUME NEW s \in Nat \ {0}
        PROVE  ClientW(cLeaf, s)[j] + LeakedAt(leaked', s) = LeakedAt(leaked, s) + (IF s \in S THEN 1 ELSE 0)
    <2>1. ~Forgets(j, s) /\ ~Releases(j) /\ (Brings(j, s) <=> s \in S)
        BY <1>2 DEF Forgets, Releases, Brings, Opens
    <2>2. ClientW(cLeaf, s)[j] = IF s \in S THEN 1 ELSE 0
        BY <1>4, <2>1, ServerWeights
    <2>3. LeakedAt(leaked, s) \in Nat
        BY <1>4 DEF LeakedAt
    <2> QED
        BY <1>2, <2>2, <2>3
  <1> QED
      BY <1>1, <1>2, <1>3, <1>4, <1>5, GivesOutReaches

\* A handler that counts its leaf, or nothing.
Counts(S) ==
    \/ sLeaf' = sLeaf /\ S = {}
    \/ \E c \in DOMAIN sLeaf : sLeaf' = AddRef(sLeaf, c) /\ S = {c}
LEMMA RepliedCounted ==
    ASSUME Inv, sQueue # <<>>, NEW op \in Ops, NEW x \in Payloads, ServerDone(<<>>, Reply(op, x)),
           UNCHANGED <<sReads, fault>>, NEW S, Counts(S)
    PROVE  \E j : GivesOut(j, S) /\ j.op = op /\ j.x = x
  <1>1. PICK j \in JobType :
           /\ j.op = op /\ j.req = Head(sQueue).req /\ j.leaf = Head(sQueue).leaf /\ j.x = x
           /\ sQueue' = Tail(sQueue) /\ cQueue' = Append(cQueue, j)
           /\ UNCHANGED <<diskVars, clientVars, kernelVars, forgetting>>
      BY Replied
  <1>2. IsTree(sLeaf)
      BY DEF Inv, TypeInv
  <1>3. /\ Extends(sLeaf, sLeaf') /\ DOMAIN sLeaf' = DOMAIN sLeaf
        /\ \A s : RefsOf(sLeaf', s) = RefsOf(sLeaf, s) + (IF s \in S THEN 1 ELSE 0)
    <2>1. CASE sLeaf' = sLeaf /\ S = {}
      <3>1. Extends(sLeaf, sLeaf')
          BY <2>1 DEF Extends
      <3>2. \A s : RefsOf(sLeaf, s) \in Nat
          BY <1>2, RefsTypes
      <3> QED
          BY <2>1, <3>1, <3>2
    <2>2. ASSUME NEW c \in DOMAIN sLeaf, sLeaf' = AddRef(sLeaf, c), S = {c}
          PROVE  /\ Extends(sLeaf, sLeaf') /\ DOMAIN sLeaf' = DOMAIN sLeaf
                 /\ \A s : RefsOf(sLeaf', s) = RefsOf(sLeaf, s) + (IF s \in S THEN 1 ELSE 0)
      <3>1. /\ DOMAIN sLeaf' = DOMAIN sLeaf
            /\ \A i \in DOMAIN sLeaf : /\ sLeaf'[i].name = sLeaf[i].name /\ sLeaf'[i].linked = sLeaf[i].linked
                                       /\ sLeaf'[i].refs = sLeaf[i].refs + (IF i = c THEN 1 ELSE 0)
          BY <1>2, <2>2, AddRefFacts
      <3>2. Extends(sLeaf, sLeaf')
          BY <3>1 DEF Extends
      <3>3. ASSUME NEW s PROVE RefsOf(sLeaf', s) = RefsOf(sLeaf, s) + (IF s \in S THEN 1 ELSE 0)
          BY <2>2, <3>1 DEF RefsOf
      <3> QED
          BY <3>1, <3>2, <3>3
    <2> QED
        BY <2>1, <2>2 DEF Counts
  <1>4. GivesOut(j, S)
      BY <1>1, <1>3 DEF GivesOut, diskVars, clientVars, kernelVars
  <1> QED
      BY <1>1, <1>4

LEMMA ResponseOpenReaches ==
    ASSUME Inv, Reaches, ResponseOpen
    PROVE  Reaches'
  <1>1. /\ Running /\ sQueue # <<>> /\ Head(sQueue).op = "Open" /\ UNCHANGED <<sReads, leaked, fault>>
        /\ Head(sQueue).req \in Nat /\ leaked \in Nat
      BY ServerHeadFacts, BalanceTypes DEF ResponseOpen, ServerLeaf, ServerHead
  <1>2. ~Carries(Head(sQueue)) /\ Asking(Head(sQueue)) /\ Head(sQueue) \in Jobs(sQueue)
      BY <1>1, ServerHeadFacts DEF Carries, Releases, Opens, Asking, RequestOps
  <1>3. Head(sQueue).leaf \in DOMAIN sLeaf
      BY <1>2, ServedFor, StandsFor DEF Reaches
  <1>4. PICK op \in Ops : op = "OpenIn"
      BY DEF Ops
  <1>5. PICK x \in Payloads, S \in SUBSET Nat :
           /\ ServerDone(<<>>, Reply(op, x))
           /\ \/ x = None /\ S = {} /\ sLeaf' = sLeaf
              \/ x = Head(sQueue).req /\ S = {Head(sQueue).leaf} /\ sLeaf' = AddRef(sLeaf, Head(sQueue).leaf)
    <2>1. None \in Payloads /\ Head(sQueue).req \in Payloads
        BY <1>1, PayloadTypes DEF None
    <2>2. {Head(sQueue).leaf} \in SUBSET Nat /\ {} \in SUBSET Nat
        BY <1>1, ServerHeadFacts
    <2>3. \/ ServerDone(<<>>, Reply(op, None)) /\ sLeaf' = sLeaf
          \/ /\ ServerDone(<<>>, Reply(op, Head(sQueue).req))
             /\ sLeaf' = AddRef(sLeaf, Head(sQueue).leaf)
        BY <1>4 DEF ResponseOpen, ServerJob
    <2> QED
        BY <2>1, <2>2, <2>3
  <1>6. PICK j : GivesOut(j, S) /\ j.op = op /\ j.x = x
    <2>1. Counts(S)
        BY <1>3, <1>5 DEF Counts
    <2>2. sQueue # <<>> /\ ServerDone(<<>>, Reply(op, x)) /\ UNCHANGED <<sReads, fault>>
        BY <1>1, <1>5
    <2> QED
        BY <2>1, <2>2, RepliedCounted
  <1>7. Head(sQueue).req # None
    <2>1. PICK r \in reqs : r.req = Head(sQueue).req
        BY <1>2, ServedFor DEF Reaches
    <2>2. r.req \in 1..requests /\ requests \in Nat
        BY DEF Inv, TypeInv, KernelType
    <2> QED
        BY <2>1, <2>2 DEF None
  <1>8. ASSUME NEW s \in Nat \ {0}
        PROVE  ClientW(cLeaf, s)[j] + LeakedAt(leaked', s) = LeakedAt(leaked, s) + (IF s \in S THEN 1 ELSE 0)
    <2>1. j \in JobType /\ j.leaf = Head(sQueue).leaf
        BY <1>6 DEF GivesOut
    <2>2. ~Forgets(j, s) /\ ~Releases(j) /\ (Brings(j, s) <=> s \in S)
        BY <1>4, <1>5, <1>6, <1>7, <2>1 DEF Forgets, Releases, Brings, Opens
    <2>3. ClientW(cLeaf, s)[j] = IF s \in S THEN 1 ELSE 0
        BY <2>1, <2>2, ServerWeights
    <2>4. LeakedAt(leaked, s) \in Nat /\ leaked' = leaked
        BY <1>1 DEF LeakedAt
    <2> QED
        BY <2>3, <2>4
  <1> QED
      BY <1>1, <1>2, <1>6, <1>8, GivesOutReaches

\* A directory that could not be opened keeps its reference.
LEMMA ResponseOpenDirReaches ==
    ASSUME Inv, Reaches, ResponseOpenDir
    PROVE  Reaches'
  <1>1. /\ Running /\ sQueue # <<>> /\ Head(sQueue).op = "OpenDir" /\ UNCHANGED <<sReads, fault>>
        /\ Head(sQueue).req \in Nat /\ leaked \in Nat
      BY ServerHeadFacts, BalanceTypes DEF ResponseOpenDir, ServerLeaf, ServerHead
  <1>2. ~Carries(Head(sQueue)) /\ Asking(Head(sQueue)) /\ Head(sQueue) \in Jobs(sQueue)
      BY <1>1, ServerHeadFacts DEF Carries, Releases, Opens, Asking, RequestOps
  <1>3. Head(sQueue).leaf = Dir /\ Dir \in DOMAIN sLeaf
      BY <1>1, ServerHeadFacts DEF Sound, DirOps, Inv, TypeInv, IsTree
  <1>4. PICK op \in Ops : op = "OpenDirIn"
      BY DEF Ops
  <1>5. PICK x \in Payloads :
           /\ ServerDone(<<>>, Reply(op, x)) /\ sLeaf' = AddRef(sLeaf, Dir)
           /\ \/ x = None /\ leaked' = leaked + 1
              \/ x = Head(sQueue).req /\ leaked' = leaked
    <2>1. None \in Payloads /\ Head(sQueue).req \in Payloads
        BY <1>1, PayloadTypes DEF None
    <2> QED
        BY <1>3, <1>4, <2>1 DEF ResponseOpenDir, ServerJob
  <1>6. PICK j : GivesOut(j, {Dir}) /\ j.op = op /\ j.x = x
    <2>1. PICK S : S = {Dir}
        OBVIOUS
    <2>2. Counts(S)
        BY <1>3, <1>5, <2>1 DEF Counts
    <2>3. sQueue # <<>> /\ ServerDone(<<>>, Reply(op, x)) /\ UNCHANGED <<sReads, fault>>
        BY <1>1, <1>5
    <2>4. \E j : GivesOut(j, S) /\ j.op = op /\ j.x = x
        BY <2>2, <2>3, RepliedCounted
    <2> QED
        BY <2>1, <2>4
  <1>7. Head(sQueue).req # None
    <2>1. PICK r \in reqs : r.req = Head(sQueue).req
        BY <1>2, ServedFor DEF Reaches
    <2>2. r.req \in 1..requests /\ requests \in Nat
        BY DEF Inv, TypeInv, KernelType
    <2> QED
        BY <2>1, <2>2 DEF None
  <1>8. ASSUME NEW s \in Nat \ {0}
        PROVE  ClientW(cLeaf, s)[j] + LeakedAt(leaked', s) = LeakedAt(leaked, s) + (IF s \in {Dir} THEN 1 ELSE 0)
    <2>1. j \in JobType /\ j.leaf = Dir
        BY <1>3, <1>6 DEF GivesOut
    <2>2. ~Forgets(j, s) /\ ~Releases(j) /\ (Brings(j, s) <=> s = Dir /\ x # None)
        BY <1>4, <1>6, <2>1 DEF Forgets, Releases, Brings, Opens
    <2>3. ClientW(cLeaf, s)[j] = IF s = Dir /\ x # None THEN 1 ELSE 0
        BY <2>1, <2>2, ServerWeights
    <2> QED
        BY <1>1, <1>5, <1>7, <2>3 DEF LeakedAt
  <1>9. leaked' \in Nat
      BY <1>1, <1>5
  <1> QED
      BY <1>1, <1>2, <1>6, <1>8, <1>9, GivesOutReaches

\* What has to do with no leaf's count.
LEMMA PlainReplyReaches ==
    ASSUME Inv, Reaches, ResponseGetAttr \/ SendNotifyInvalEntry
    PROVE  Reaches'
  <1>1. /\ Running /\ sQueue # <<>> /\ Head(sQueue).op \in {"GetAttr", "NotifyEntry"}
        /\ UNCHANGED <<sReads, leaked, fault, sLeaf>> /\ leaked \in Nat
      BY BalanceTypes DEF ResponseGetAttr, SendNotifyInvalEntry, ServerHead, serverVars
  <1>2. ~Carries(Head(sQueue))
      BY <1>1 DEF Carries, Releases, Opens
  <1>3. \E j : GivesOut(j, {}) /\ j.op \in {"GetAttrIn", "NotifyEntry"}
    <2>1. CASE ResponseGetAttr
      <3>1. PICK op \in Ops : op = "GetAttrIn"
          BY DEF Ops
      <3>2. ServerDone(<<>>, Reply(op, None)) /\ None \in Payloads
          BY <2>1, <3>1, PayloadTypes DEF ResponseGetAttr, None
      <3>3. PICK S : S = {}
          OBVIOUS
      <3>4. Counts(S)
          BY <1>1, <3>3 DEF Counts
      <3>5. \E j : GivesOut(j, S) /\ j.op = op
          BY <1>1, <3>2, <3>4, RepliedCounted
      <3> QED
          BY <3>1, <3>3, <3>5
    <2>2. CASE SendNotifyInvalEntry
      <3>1. PICK j \in JobType : j = Head(sQueue)
          BY <1>1, ServerHeadFacts
      <3>2. /\ sQueue' = Tail(sQueue) \o <<>> /\ cQueue' = cQueue \o <<j>>
            /\ UNCHANGED <<diskVars, clientVars, kernelVars, forgetting>> /\ j.op = "NotifyEntry"
          BY <2>2, <3>1 DEF SendNotifyInvalEntry, ServerDone, ServerJob, ServerHead
      <3>3. sQueue' = Tail(sQueue) /\ cQueue' = Append(cQueue, j)
          BY <1>1, <3>2, QueueJobs, QueueAppend, QueueTail DEF Inv, TypeInv, QueueType
      <3>4. Extends(sLeaf, sLeaf') /\ DOMAIN sLeaf' = DOMAIN sLeaf
          BY <1>1 DEF Extends
      <3>5. ASSUME NEW s PROVE RefsOf(sLeaf', s) = RefsOf(sLeaf, s) + (IF s \in {} THEN 1 ELSE 0)
        <4>1. RefsOf(sLeaf, s) \in Nat
            BY RefsTypes DEF Inv, TypeInv
        <4> QED
            BY <1>1, <4>1
      <3>6. GivesOut(j, {})
          BY <1>1, <3>1, <3>2, <3>3, <3>4, <3>5 DEF GivesOut, diskVars, clientVars, kernelVars
      <3> QED
          BY <3>2, <3>6
    <2> QED
        BY <2>1, <2>2
  <1>4. PICK j : GivesOut(j, {}) /\ j.op \in {"GetAttrIn", "NotifyEntry"}
      BY <1>3
  <1>5. j \in JobType /\ ~Opens(j) /\ ~Carries(j)
      BY <1>4 DEF GivesOut, Opens, Carries, Releases
  <1>6. ASSUME NEW s \in Nat \ {0}
        PROVE  ClientW(cLeaf, s)[j] + LeakedAt(leaked', s) = LeakedAt(leaked, s) + (IF s \in {} THEN 1 ELSE 0)
    <2>1. ClientW(cLeaf, s)[j] = 0
        BY <1>5, CarriesNothing
    <2>2. LeakedAt(leaked, s) \in Nat /\ leaked' = leaked
        BY <1>1 DEF LeakedAt
    <2> QED
        BY <2>1, <2>2
  <1> QED
      BY <1>1, <1>2, <1>4, <1>5, <1>6, GivesOutReaches

\* A leaf is counted for every reference on its way to it or at rest.
LEMMA CountCovers ==
    ASSUME Inv, Reaches, Running, NEW s \in Nat \ {0}
    PROVE  /\ \A j \in Jobs(sQueue) : ServerW(s)[j] <= RefsOf(sLeaf, s)
           /\ \A c \in DOMAIN known : cLeaf[c].server = s => known[c] <= RefsOf(sLeaf, s)
           /\ RefsOf(sLeaf, s) \in Nat
  <1>1. Queues(cQueue, sQueue) /\ Tables(known, opened, forgetting) /\ leaked \in Nat
      BY BalanceTypes
  <1>2. PICK a \in Nat, b \in Nat : a = Sum(cQueue, ClientW(cLeaf, s)) /\ b = Sum(sQueue, ServerW(s))
      BY <1>1, MovingParts
  <1>3. PICK x \in Nat, y \in Nat, z \in Nat :
           /\ x = KnownAt(known, cLeaf, s) /\ y = OpenAt(opened, cLeaf, s) /\ z = ForgotAt(forgetting, cLeaf, s)
      BY <1>1, RestingParts
  <1>4. PICK l \in Nat : l = LeakedAt(leaked, s)
      BY <1>1 DEF LeakedAt
  <1>5. RefsOf(sLeaf, s) = (a + b) + (x + y + z) + l
    <2>1. Balanced(s)
        BY DEF Reaches, Balance
    <2> QED
        BY <1>2, <1>3, <1>4, <2>1 DEF Balanced, Moving, Resting
  <1>6. ASSUME NEW j \in Jobs(sQueue) PROVE ServerW(s)[j] <= RefsOf(sLeaf, s)
    <2>1. PICK w \in [JobType -> Nat] : w = ServerW(s)
        BY ServerWeightTypes
    <2>2. j \in JobType /\ w[j] <= Sum(sQueue, w)
        BY <1>1, SumMember, QueueJobs DEF Queues
    <2>3. w[j] \in Nat /\ w[j] <= b
        BY <1>2, <2>1, <2>2
    <2> QED
        BY <1>5, <2>1, <2>3
  <1>7. ASSUME NEW c \in DOMAIN known, cLeaf[c].server = s PROVE known[c] <= RefsOf(sLeaf, s)
    <2>1. known[c] <= x /\ known[c] \in Nat
        BY <1>1, <1>3, <1>7, KnownMember DEF Tables
    <2> QED
        BY <1>5, <2>1
  <1> QED
      BY <1>5, <1>6, <1>7

\* What a handler is asked to use or to release is there, with the count it needs.
LEMMA NothingFreed ==
    ASSUME Inv, Reaches, Running, sQueue # <<>>, UsesLeaf(Head(sQueue))
    PROVE  Alive(sLeaf, Head(sQueue).leaf)
  <1>1. PICK h : h = Head(sQueue)
      OBVIOUS
  <1>2. h \in JobType /\ h \in Jobs(sQueue) /\ Sound(h) /\ IsTree(sLeaf)
      BY <1>1, ServerHeadFacts DEF Inv, TypeInv
  <1>3. CASE h.op \in DirOps
      BY <1>1, <1>2, <1>3 DEF Sound, Alive
  <1>4. CASE h.op = "ForgetMulti"
    <2>1. h.leaf \in DOMAIN sLeaf /\ h.x \in Nat \ {0}
        BY <1>2, <1>4 DEF Sound
    <2>2. h.leaf \in Nat \ {0}
        BY <1>2, <2>1, LeafFields DEF None
    <2>3. ServerW(h.leaf)[h] = h.x
        BY <1>2, <1>4, <2>1, ServerWeights DEF Forgets
    <2>4. h.x <= RefsOf(sLeaf, h.leaf) /\ RefsOf(sLeaf, h.leaf) \in Nat
        BY <1>2, <2>2, <2>3, CountCovers
    <2>5. sLeaf[h.leaf].refs > 0
        BY <2>1, <2>4 DEF RefsOf
    <2> QED
        BY <1>1, <2>5 DEF Alive
  <1>5. CASE h.op \in {"Open", "Release", "GetAttr"}
    <2>1. Asking(h)
        BY <1>5 DEF Asking, RequestOps
    <2>2. PICK r \in reqs : /\ h.leaf = cLeaf[r.leaf].server /\ r.leaf \in DOMAIN known
                            /\ r.leaf \in DOMAIN cLeaf
        BY <1>2, <2>1, ServedFor DEF Reaches
    <2>3. h.leaf \in DOMAIN sLeaf /\ h.leaf \in Nat \ {0}
        BY <2>2, StandsFor
    <2>4. known[r.leaf] <= RefsOf(sLeaf, h.leaf) /\ RefsOf(sLeaf, h.leaf) \in Nat /\ known[r.leaf] \in Nat \ {0}
        BY <2>2, <2>3, CountCovers DEF Inv, TypeInv, KernelType
    <2>5. sLeaf[h.leaf].refs > 0
        BY <2>3, <2>4 DEF RefsOf
    <2> QED
        BY <1>1, <2>5 DEF Alive
  <1> QED
      BY <1>1, <1>3, <1>4, <1>5 DEF UsesLeaf, DirOps

\* A handler that takes n references back.
LEMMA ReleasingReaches ==
    ASSUME Inv, Reaches, Running, sQueue # <<>>, NEW n \in Nat \ {0}, ServerReleases(n), NEW op \in Ops,
           op \in {"ForgetMultiIn", "ReleaseIn", "ReleaseDirIn"}, ServerDone(<<>>, Reply(op, None)),
           leaked' = leaked, Head(sQueue).leaf \in Nat \ {0},
           \A s \in Nat \ {0} : ServerW(s)[Head(sQueue)] = IF s = Head(sQueue).leaf THEN n ELSE 0
    PROVE  Reaches'
  <1>1. PICK h : h = Head(sQueue)
      OBVIOUS
  <1>2. h \in JobType /\ h \in Jobs(sQueue) /\ IsTree(sLeaf) /\ Queues(cQueue, sQueue)
      BY <1>1, ServerHeadFacts, BalanceTypes DEF Inv, TypeInv
  <1>3. n <= RefsOf(sLeaf, h.leaf) /\ RefsOf(sLeaf, h.leaf) \in Nat
    <2>1. ServerW(h.leaf)[h] = n
        BY <1>1
    <2> QED
        BY <1>1, <1>2, <2>1, CountCovers
  <1>4. h.leaf \in DOMAIN sLeaf /\ sLeaf[h.leaf].refs >= n
      BY <1>3 DEF RefsOf
  <1>5. sLeaf' = ReleaseRef(sLeaf, h.leaf, n) /\ fault' = fault
      BY <1>1, <1>4 DEF ServerReleases, Released, ServerJob
  <1>6. PICK j \in JobType :
           /\ j.op = op /\ sQueue' = Tail(sQueue) /\ cQueue' = Append(cQueue, j)
           /\ UNCHANGED <<diskVars, clientVars, kernelVars, forgetting>>
    <2>1. None \in Payloads
        BY PayloadTypes DEF None
    <2> QED
        BY <2>1, Replied
  <1>7. UNCHANGED <<cLeaf, reqs, known, opened, forgetting, leaked>>
      BY <1>6 DEF clientVars, kernelVars
  <1>8. ~Carries(j) /\ ~Opens(j)
      BY <1>6 DEF Carries, Releases, Opens
  <1>9. /\ DOMAIN sLeaf' = DOMAIN sLeaf
        /\ \A i \in DOMAIN sLeaf : /\ sLeaf'[i].refs = sLeaf[i].refs - (IF i = h.leaf THEN n ELSE 0)
      BY <1>2, <1>4, <1>5, ReleaseRefFacts
  <1>10. ASSUME NEW s
         PROVE  RefsOf(sLeaf', s) \in Nat /\ RefsOf(sLeaf, s) = RefsOf(sLeaf', s) + (IF s = h.leaf THEN n ELSE 0)
    <2>1. CASE s = h.leaf
      <3>1. PICK v \in Nat : v = sLeaf[s].refs
          BY <1>2, <1>4, <2>1, LeafFields
      <3>2. PICK u : u = sLeaf'[s].refs
          OBVIOUS
      <3>3. u = v - n /\ v >= n
          BY <1>4, <1>9, <2>1, <3>1, <3>2
      <3>4. u \in Nat /\ v = u + n
          BY <3>3
      <3> QED
          BY <1>4, <1>9, <2>1, <3>1, <3>2, <3>4 DEF RefsOf
    <2>2. CASE s # h.leaf
      <3>1. RefsOf(sLeaf, s) \in Nat
          BY <1>2, RefsTypes
      <3>2. RefsOf(sLeaf', s) = RefsOf(sLeaf, s)
        <4>1. CASE s \in DOMAIN sLeaf
          <5>1. sLeaf'[s].refs = sLeaf[s].refs - 0
              BY <1>9, <2>2, <4>1
          <5> QED
              BY <1>9, <3>1, <4>1, <5>1 DEF RefsOf
        <4>2. CASE s \notin DOMAIN sLeaf
            BY <1>9, <4>2 DEF RefsOf
        <4> QED
            BY <4>1, <4>2
      <3> QED
          BY <2>2, <3>1, <3>2
    <2> QED
        BY <2>1, <2>2
  <1>11. Balance'
    <2> SUFFICES ASSUME NEW s \in Nat \ {0} PROVE Balanced(s)'
        BY DEF Balance
    <2>1. /\ Queues(cQueue, Tail(sQueue))
          /\ Moving(cQueue, sQueue, cLeaf, s) = Moving(cQueue, Tail(sQueue), cLeaf, s) + ServerW(s)[h]
        BY <1>1, <1>2, MovingTakenFromServer
    <2>2. PICK i \in Nat : i = (IF s = h.leaf THEN n ELSE 0) /\ ServerW(s)[h] = i
        BY <1>1
    <2>3. /\ Moving(Append(cQueue, j), Tail(sQueue), cLeaf, s)
                = Moving(cQueue, Tail(sQueue), cLeaf, s) + ClientW(cLeaf, s)[j]
          /\ ClientW(cLeaf, s)[j] = 0
        BY <1>8, <2>1, MovingPushed, CarriesNothing
    <2>4. PICK m \in Nat : m = Moving(cQueue, Tail(sQueue), cLeaf, s)
        BY <2>1, MovingType
    <2>5. m = Moving(cQueue', sQueue', cLeaf, s)
        BY <1>6, <2>3, <2>4
    <2>6. PICK r \in Nat : r = RefsOf(sLeaf', s) /\ RefsOf(sLeaf, s) = r + i
        BY <1>10, <2>2
    <2>7. r + Moving(cQueue, sQueue, cLeaf, s) = RefsOf(sLeaf, s) + m
        BY <2>1, <2>2, <2>4, <2>6
    <2>8. Balanced(s)
        BY DEF Reaches, Balance
    <2> QED
        BY <1>7, <2>5, <2>6, <2>7, <2>8, BalancedMove
  <1>12. PlacedJobs'
    <2>1. Jobs(cQueue') = Jobs(cQueue) \cup {j} /\ Jobs(sQueue') \subseteq Jobs(sQueue)
        BY <1>2, <1>6, QueueAppend, QueueTail DEF Queues
    <2> QED
        BY <1>7, <1>8, <2>1, SameServers, PlaceFrame DEF Reaches
  <1> QED
      BY <1>5, <1>11, <1>12 DEF Reaches

LEMMA ResponseReleaseReaches ==
    ASSUME Inv, Reaches, ResponseForgetMulti \/ ResponseRelease \/ ResponseReleaseDir
    PROVE  Reaches'
  <1>1. PICK h : h = Head(sQueue)
      OBVIOUS
  <1>2. /\ Running /\ sQueue # <<>> /\ leaked' = leaked
        /\ h.op \in {"ForgetMulti", "Release", "ReleaseDir"}
      BY <1>1 DEF ResponseForgetMulti, ResponseRelease, ResponseReleaseDir, ServerLeaf, ServerHead
  <1>3. h \in JobType /\ h \in Jobs(sQueue) /\ Sound(h)
      BY <1>1, <1>2, ServerHeadFacts
  <1>4. CASE ResponseForgetMulti
    <2>1. h.op = "ForgetMulti" /\ ServerReleases(h.x) /\ ServerDone(<<>>, Reply("ForgetMultiIn", None))
        BY <1>1, <1>4 DEF ResponseForgetMulti, ServerLeaf, ServerHead, ServerJob
    <2>2. h.leaf \in DOMAIN sLeaf /\ h.x \in Nat \ {0}
        BY <1>3, <2>1 DEF Sound
    <2>3. h.leaf \in Nat \ {0}
        BY <2>2, LeafFields DEF None, Inv, TypeInv
    <2>4. ASSUME NEW s PROVE ServerW(s)[h] = IF s = h.leaf THEN h.x ELSE 0
      <3>1. ~Releases(h) /\ (Forgets(h, s) <=> s = h.leaf)
          BY <2>1, <2>2 DEF Releases, Forgets
      <3> QED
          BY <1>3, <3>1, ServerWeights
    <2>5. PICK op \in Ops : op = "ForgetMultiIn"
        BY DEF Ops
    <2>6. PICK n \in Nat \ {0} : n = h.x
        BY <2>2
    <2> QED
        BY <1>1, <1>2, <2>1, <2>3, <2>4, <2>5, <2>6, ReleasingReaches
  <1>5. CASE ResponseRelease \/ ResponseReleaseDir
    <2>1. PICK op \in Ops : op \in {"ReleaseIn", "ReleaseDirIn"} /\ ServerDone(<<>>, Reply(op, None))
        BY <1>5 DEF ResponseRelease, ResponseReleaseDir, Ops
    <2>2. h.op \in {"Release", "ReleaseDir"} /\ ServerReleases(1)
        BY <1>1, <1>5 DEF ResponseRelease, ResponseReleaseDir, ServerLeaf, ServerHead
    <2>3. h.leaf \in Nat \ {0}
      <3>1. Asking(h)
          BY <2>2 DEF Asking, RequestOps
      <3> QED
          BY <1>3, <3>1, ServedFor, StandsFor DEF Reaches
    <2>4. ASSUME NEW s PROVE ServerW(s)[h] = IF s = h.leaf THEN 1 ELSE 0
      <3>1. Releases(h) /\ ~Forgets(h, s)
          BY <2>2 DEF Releases, Forgets
      <3> QED
          BY <1>3, <3>1, ServerWeights
    <2>5. PICK n \in Nat \ {0} : n = 1
        OBVIOUS
    <2> QED
        BY <1>1, <1>2, <2>1, <2>2, <2>3, <2>4, <2>5, ReleasingReaches
  <1> QED
      BY <1>4, <1>5

\* A step that moves no reference.
LEMMA StillReaches ==
    ASSUME Inv, Reaches, Running, UNCHANGED <<cLeaf, known, opened, forgetting, leaked>>,
           reqs' \subseteq reqs, fault' \notin {"serverLeaf", "serverRefs"},
           \A s : RefsOf(sLeaf', s) = RefsOf(sLeaf, s),
           \A s : Moving(cQueue', sQueue', cLeaf, s) = Moving(cQueue, sQueue, cLeaf, s),
           \A j \in Jobs(sQueue') : j \in Jobs(sQueue) \/ ~Asking(j),
           \A j \in Jobs(cQueue') : j \in Jobs(cQueue) \/ ~Opens(j)
    PROVE  Reaches'
  <1>1. Balance'
    <2> SUFFICES ASSUME NEW s \in Nat \ {0} PROVE Balanced(s)'
        BY DEF Balance
    <2>1. Balanced(s)
        BY DEF Reaches, Balance
    <2>2. PICK r, m : r = RefsOf(sLeaf', s) /\ m = Moving(cQueue', sQueue', cLeaf, s)
        OBVIOUS
    <2>3. r = RefsOf(sLeaf, s) /\ m = Moving(cQueue, sQueue, cLeaf, s)
        BY <2>2
    <2> QED
        BY <2>1, <2>2, <2>3 DEF Balanced
  <1>2. PlacedJobs'
      BY SameServers, PlaceFrame DEF Reaches
  <1> QED
      BY <1>1, <1>2 DEF Reaches

LEMMA ResponseReadAllocReaches ==
    ASSUME Inv, Reaches, ResponseReadAlloc
    PROVE  Reaches'
  <1>1. /\ Running /\ sQueue # <<>> /\ Head(sQueue).op \in {"Read", "Prefetch"}
        /\ sQueue' = Tail(sQueue) \o <<>> /\ cQueue' = cQueue \o <<>>
        /\ UNCHANGED <<cLeaf, reqs, known, opened, forgetting, leaked, sLeaf, fault>>
      BY DEF ResponseReadAlloc, ServerHead, ServerDone, clientVars, kernelVars
  <1>2. Queues(cQueue, sQueue)
      BY BalanceTypes
  <1>3. /\ sQueue' = Tail(sQueue) /\ cQueue' = cQueue /\ Jobs(sQueue') \subseteq Jobs(sQueue)
      BY <1>1, <1>2, QueueJobs, QueueTail DEF Queues
  <1>4. ~Carries(Head(sQueue))
      BY <1>1 DEF Carries, Releases, Opens
  <1>5. ASSUME NEW s PROVE Moving(cQueue', sQueue', cLeaf, s) = Moving(cQueue, sQueue, cLeaf, s)
    <2>1. /\ Queues(cQueue, Tail(sQueue)) /\ Head(sQueue) \in JobType
          /\ Moving(cQueue, sQueue, cLeaf, s) = Moving(cQueue, Tail(sQueue), cLeaf, s) + ServerW(s)[Head(sQueue)]
        BY <1>1, <1>2, MovingTakenFromServer
    <2>2. ServerW(s)[Head(sQueue)] = 0
        BY <1>4, <2>1, CarriesNothing
    <2>3. Moving(cQueue, Tail(sQueue), cLeaf, s) \in Nat
        BY <2>1, MovingType
    <2> QED
        BY <1>3, <2>1, <2>2, <2>3
  <1> QED
      BY <1>1, <1>3, <1>5, StillReaches DEF Reaches

\* A job without references is scheduled.
LEMMA PushedPlain ==
    ASSUME Inv, NEW j \in JobType, ~Carries(j)
    PROVE  /\ \A s : Moving(Append(cQueue, j), sQueue, cLeaf, s) = Moving(cQueue, sQueue, cLeaf, s)
           /\ \A s : Moving(cQueue, Append(sQueue, j), cLeaf, s) = Moving(cQueue, sQueue, cLeaf, s)
  <1> SUFFICES ASSUME NEW s
               PROVE  /\ Moving(Append(cQueue, j), sQueue, cLeaf, s) = Moving(cQueue, sQueue, cLeaf, s)
                      /\ Moving(cQueue, Append(sQueue, j), cLeaf, s) = Moving(cQueue, sQueue, cLeaf, s)
      OBVIOUS
  <1>1. Queues(cQueue, sQueue)
      BY BalanceTypes
  <1>2. /\ Moving(Append(cQueue, j), sQueue, cLeaf, s) = Moving(cQueue, sQueue, cLeaf, s) + ClientW(cLeaf, s)[j]
        /\ Moving(cQueue, Append(sQueue, j), cLeaf, s) = Moving(cQueue, sQueue, cLeaf, s) + ServerW(s)[j]
      BY <1>1, MovingPushed
  <1>3. ClientW(cLeaf, s)[j] = 0 /\ ServerW(s)[j] = 0
      BY CarriesNothing
  <1>4. Moving(cQueue, sQueue, cLeaf, s) \in Nat
      BY <1>1, MovingType
  <1> QED
      BY <1>2, <1>3, <1>4

LEMMA ResponseReadFileReaches ==
    ASSUME Inv, Reaches, NEW r \in sReads, ResponseReadFile(r)
    PROVE  Reaches'
  <1>1. /\ Running /\ sQueue' = sQueue
        /\ UNCHANGED <<cLeaf, reqs, known, opened, forgetting, leaked, sLeaf>>
      BY DEF ResponseReadFile, clientVars, kernelVars
  <1>2. r \in JobType
      BY DEF Inv, TypeInv, QueueType
  <1>3. CASE r.x \in sHandles
    <2>1. PICK op \in Ops : /\ op \in {"ReadIn", "PrefetchIn", "ReadErrorIn"}
                            /\ cQueue' = Append(cQueue, [r EXCEPT !.op = op]) /\ fault' = fault
        BY <1>2, <1>3, ReadAnswer
    <2>2. cQueue' = Append(cQueue, [r EXCEPT !.op = op]) /\ fault' = fault
        BY <2>1
    <2>3. PICK j \in JobType : j = [r EXCEPT !.op = op] /\ j.op = op
        BY <1>2, JobWithOp
    <2>4. ~Carries(j) /\ ~Opens(j)
        BY <2>1, <2>3 DEF Carries, Releases, Opens
    <2>5. Jobs(cQueue') = Jobs(cQueue) \cup {j}
        BY <2>2, <2>3, QueueAppend DEF Inv, TypeInv, QueueType
    <2>6. \A s : Moving(cQueue', sQueue', cLeaf, s) = Moving(cQueue, sQueue, cLeaf, s)
        BY <1>1, <2>2, <2>3, <2>4, PushedPlain
    <2> QED
        BY <1>1, <2>2, <2>4, <2>5, <2>6, StillReaches DEF Reaches
  <1>4. CASE r.x \notin sHandles
    <2>1. cQueue' = cQueue /\ fault' = "readHandle"
        BY <1>4 DEF ResponseReadFile, Fail
    <2> QED
        BY <1>1, <2>1, StillReaches
  <1> QED
      BY <1>3, <1>4

LEMMA ProcessInotifyEventReaches ==
    ASSUME Inv, Inv', DiskInv, Reaches, ProcessInotifyEvent
    PROVE  Reaches'
  <1>1. Running /\ UNCHANGED <<cLeaf, reqs, known, opened, forgetting, leaked, cQueue, fault>>
      BY DEF ProcessInotifyEvent, clientVars, kernelVars
  <1>2. PICK j \in JobType : j.op = "NotifyEntry" /\ sQueue' = Append(sQueue, j)
      BY ProcessInotifyEventKeepsDisk
  <1>3. \A s : RefsOf(sLeaf', s) = RefsOf(sLeaf, s)
      BY ProcessInotifyEventKeepsDisk
  <1>4. ~Carries(j) /\ ~Asking(j)
      BY <1>2 DEF Carries, Releases, Opens, Asking, RequestOps
  <1>5. Jobs(sQueue') = Jobs(sQueue) \cup {j}
      BY <1>2, QueueAppend DEF Inv, TypeInv, QueueType
  <1>6. \A s : Moving(cQueue', sQueue', cLeaf, s) = Moving(cQueue, sQueue, cLeaf, s)
      BY <1>1, <1>2, <1>4, PushedPlain
  <1> QED
      BY <1>1, <1>3, <1>4, <1>5, <1>6, StillReaches DEF Reaches

LEMMA ChangeReaches ==
    ASSUME Inv, Reaches, NEW f \in Files, CreateFile(f) \/ DeleteFile(f)
    PROVE  Reaches'
  <1>1. Running /\ UNCHANGED <<cLeaf, reqs, known, opened, forgetting, leaked, cQueue, sQueue, fault, sLeaf>>
      BY DEF CreateFile, DeleteFile, Change, clientVars, kernelVars, serverVars
  <1> QED
      BY <1>1, StillReaches DEF Reaches

LEMMA ApplyBlockCacheReaches ==
    ASSUME Inv, Reaches, ApplyBlockCache
    PROVE  Reaches'
  <1>1. /\ Running /\ UNCHANGED <<cLeaf, known, opened, forgetting, leaked, cQueue, sQueue, sLeaf>>
        /\ reqs' \subseteq reqs /\ (fault' = fault \/ fault' = "blockLeaf")
      BY DEF ApplyBlockCache, serverVars, Fail
  <1> QED
      BY <1>1, StillReaches DEF Reaches

LEMMA ServerUsesFreedReaches ==
    ASSUME Inv, Reaches, ServerUsesFreed
    PROVE  Reaches'
  <1>1. Running /\ sQueue # <<>> /\ UsesLeaf(Head(sQueue)) /\ ~Alive(sLeaf, Head(sQueue).leaf)
      BY DEF ServerUsesFreed, ServerJob
  <1>2. Alive(sLeaf, Head(sQueue).leaf)
      BY <1>1, NothingFreed
  <1> QED
      BY <1>1, <1>2

LEMMA OpenAssertsReaches ==
    ASSUME Inv, Reaches, OpenAsserts
    PROVE  Reaches'
  <1>1. Running /\ UNCHANGED <<cLeaf, reqs, known, opened, forgetting, leaked, cQueue, sQueue, sLeaf>>
      BY DEF OpenAsserts, ServerLeaf, ServerHead, clientVars, kernelVars, serverVars
  <1>2. fault' = "openFailed"
      BY DEF OpenAsserts, Fail
  <1> QED
      BY <1>1, <1>2, StillReaches DEF Reaches

\* With one server leaf of a name, a client leaf that keeps its name keeps its server leaf.
LEMMA ServersStay ==
    ASSUME TreeInv, TreeInv', OneOfAll(sLeaf), sLeaf' = sLeaf,
           \A c \in DOMAIN cLeaf : c \in DOMAIN cLeaf' /\ cLeaf'[c].name = cLeaf[c].name
    PROVE  KeepsServers(cLeaf, cLeaf')
  <1> SUFFICES ASSUME NEW c \in DOMAIN cLeaf PROVE cLeaf'[c].server = cLeaf[c].server
      BY DEF KeepsServers
  <1>1. CASE c = Dir
      BY <1>1 DEF TreeInv
  <1>2. CASE c # Dir
    <2>1. /\ cLeaf[c].server \in DOMAIN sLeaf /\ cLeaf[c].server # Dir
          /\ sLeaf[cLeaf[c].server].name = cLeaf[c].name
        BY <1>2 DEF TreeInv, Stands
    <2>2. /\ cLeaf'[c].server \in DOMAIN sLeaf /\ cLeaf'[c].server # Dir
          /\ sLeaf[cLeaf'[c].server].name = cLeaf'[c].name
        BY <1>2 DEF TreeInv, Stands
    <2> QED
        BY <2>1, <2>2 DEF OneOfAll
  <1> QED
      BY <1>1, <1>2

LEMMA TablesNext ==
    ASSUME Inv'
    PROVE  IsFiniteSet(DOMAIN known') /\ known' \in [DOMAIN known' -> Nat] /\ IsFiniteSet(opened')
  <1>1. /\ DOMAIN known' \subseteq DOMAIN cLeaf' /\ known' \in [DOMAIN known' -> Nat]
        /\ IsFiniteSet(opened')
        /\ DOMAIN cLeaf' = 1..Len(cLeaf') /\ Len(cLeaf') \in Nat
      BY DEF Inv, TypeInv, KernelType, IsTree
  <1>2. IsFiniteSet(DOMAIN cLeaf')
      BY <1>1, FS_Interval
  <1>3. IsFiniteSet(DOMAIN known')
      BY <1>1, <1>2, FS_Subset
  <1> QED
      BY <1>1, <1>3

LEMMA TailKept ==
    ASSUME Inv, cQueue # <<>>, NEW v, KeepsServers(cLeaf, v), NEW s
    PROVE  Sum(Tail(cQueue), ClientW(v, s)) = Sum(Tail(cQueue), ClientW(cLeaf, s))
  <1>1. PICK q \in Seq(JobType) : q = Tail(cQueue) /\ Jobs(q) \subseteq Jobs(cQueue)
      BY QueueTail DEF Inv, TypeInv, QueueType
  <1>2. ReleasesOf(q, cLeaf)
      BY <1>1, AskedFor DEF Releases, RequestOps, ReleasesOf
  <1>3. Sum(q, ClientW(v, s)) = Sum(q, ClientW(cLeaf, s))
      BY <1>2, KeptQueue
  <1> QED
      BY <1>1, <1>3

\* A job of the client's main queue ends: what it carried comes to rest.
LEMMA ClientRunReaches ==
    ASSUME Inv, Inv', Reaches, Running, cQueue # <<>>, cQueue' = Tail(cQueue), reqs' \subseteq reqs,
           UNCHANGED <<sLeaf, sQueue, leaked, forgetting>>, fault' \notin {"serverLeaf", "serverRefs"},
           KeepsServers(cLeaf, cLeaf'),
           \A s \in Nat \ {0} : KnownAt(known', cLeaf', s) + OpenAt(opened', cLeaf', s)
              = KnownAt(known, cLeaf', s) + OpenAt(opened, cLeaf', s) + ClientW(cLeaf, s)[Head(cQueue)]
    PROVE  Reaches'
  <1>1. /\ Queues(cQueue, sQueue) /\ Tables(known, opened, forgetting) /\ leaked \in Nat
        /\ DOMAIN known \subseteq DOMAIN cLeaf /\ (\A h \in opened : h.leaf \in DOMAIN known)
        /\ \A m \in forgetting : m.leaf \in DOMAIN cLeaf
      BY BalanceTypes
  <1>2. Tables(known', opened', forgetting)
      BY <1>1, TablesNext DEF Tables
  <1>3. ASSUME NEW s \in Nat \ {0} PROVE Balanced(s)'
    <2>1. PICK w \in Nat, a \in Nat : /\ w = ClientW(cLeaf, s)[Head(cQueue)]
                                      /\ a = Moving(Tail(cQueue), sQueue, cLeaf, s)
                                      /\ Moving(cQueue, sQueue, cLeaf, s) = a + w
      <3>1. /\ Queues(Tail(cQueue), sQueue) /\ ClientW(cLeaf, s)[Head(cQueue)] \in Nat
            /\ Moving(cQueue, sQueue, cLeaf, s)
                  = Moving(Tail(cQueue), sQueue, cLeaf, s) + ClientW(cLeaf, s)[Head(cQueue)]
          BY <1>1, MovingTakenFromClient
      <3>2. Moving(Tail(cQueue), sQueue, cLeaf, s) \in Nat
          BY <3>1, MovingType
      <3> QED
          BY <3>1, <3>2
    <2>2. Moving(Tail(cQueue), sQueue, cLeaf', s) = a
      <3>1. PICK v : v = cLeaf' /\ KeepsServers(cLeaf, v)
          OBVIOUS
      <3>2. Sum(Tail(cQueue), ClientW(v, s)) = Sum(Tail(cQueue), ClientW(cLeaf, s))
          BY <3>1, TailKept
      <3> QED
          BY <2>1, <3>1, <3>2 DEF Moving
    <2>3. PICK x \in Nat, y \in Nat, z \in Nat :
             /\ x = KnownAt(known, cLeaf, s) /\ y = OpenAt(opened, cLeaf, s) /\ z = ForgotAt(forgetting, cLeaf, s)
        BY <1>1, RestingParts
    <2>4. /\ x = KnownAt(known, cLeaf', s) /\ y = OpenAt(opened, cLeaf', s)
          /\ z = ForgotAt(forgetting, cLeaf', s)
        BY <1>1, <2>3, KeptSums
    <2>5. PICK u \in Nat, v \in Nat : u = KnownAt(known', cLeaf', s) /\ v = OpenAt(opened', cLeaf', s)
        BY <1>2, RestingParts
    <2>6. u + v = x + y + w
        BY <2>1, <2>4, <2>5
    <2>7. PICK l \in Nat : l = LeakedAt(leaked, s)
        BY <1>1 DEF LeakedAt
    <2>8. RefsOf(sLeaf, s) = (a + w) + (x + y + z) + l
      <3>1. Balanced(s)
          BY DEF Reaches, Balance
      <3> QED
          BY <2>1, <2>3, <2>7, <3>1 DEF Balanced, Resting
    <2>9. RefsOf(sLeaf, s) = a + (u + v + z) + l
        BY <2>6, <2>8
    <2>10. Moving(cQueue', sQueue', cLeaf', s) = a /\ Resting(known', opened', forgetting', cLeaf', s) = u + v + z
        BY <2>2, <2>4, <2>5 DEF Resting
    <2> QED
        BY <2>7, <2>9, <2>10 DEF Balanced
  <1>4. Balance'
      BY <1>3 DEF Balance
  <1>5. PlacedJobs'
    <2>1. Jobs(cQueue') \subseteq Jobs(cQueue)
        BY <1>1, QueueTail DEF Queues
    <2> QED
        BY <2>1, PlaceFrame DEF Reaches
  <1> QED
      BY <1>4, <1>5 DEF Reaches

\* A job that carries nothing.
LEMMA ClientRunPlain ==
    ASSUME Inv, Inv', Reaches, Running, cQueue # <<>>, cQueue' = Tail(cQueue), reqs' \subseteq reqs,
           UNCHANGED <<sLeaf, sQueue, leaked, forgetting, known, opened>>,
           fault' \notin {"serverLeaf", "serverRefs"}, KeepsServers(cLeaf, cLeaf'), ~Carries(Head(cQueue))
    PROVE  Reaches'
  <1>1. Queues(cQueue, sQueue) /\ Tables(known, opened, forgetting) /\ Head(cQueue) \in JobType
      BY BalanceTypes, QueueTail DEF Queues
  <1>2. ASSUME NEW s
        PROVE  KnownAt(known', cLeaf', s) + OpenAt(opened', cLeaf', s)
                  = KnownAt(known, cLeaf', s) + OpenAt(opened, cLeaf', s) + ClientW(cLeaf, s)[Head(cQueue)]
    <2>1. PICK x \in Nat, y \in Nat : x = KnownAt(known, cLeaf', s) /\ y = OpenAt(opened, cLeaf', s)
        BY <1>1, RestingParts
    <2>2. ClientW(cLeaf, s)[Head(cQueue)] = 0
        BY <1>1, CarriesNothing
    <2> QED
        BY <2>1, <2>2
  <1> QED
      BY <1>2, ClientRunReaches

LEMMA OnlyAnsweredReaches ==
    ASSUME Inv, Inv', Reaches,
           ResponseReleaseIn \/ ResponseReleaseDirIn \/ ResponseGetAttrIn \/ ResponseForgetMultiIn
    PROVE  Reaches'
  <1>1. /\ Running /\ cQueue # <<>> /\ OnlyAnswered
        /\ Head(cQueue).op \in {"ReleaseIn", "ReleaseDirIn", "GetAttrIn", "ForgetMultiIn"}
      BY DEF ResponseReleaseIn, ResponseReleaseDirIn, ResponseGetAttrIn, ResponseForgetMultiIn, ClientHead
  <1>2. /\ cQueue' = Tail(cQueue) /\ UNCHANGED <<sLeaf, sQueue, leaked, forgetting, known, opened>>
        /\ reqs' \subseteq reqs /\ cLeaf' = cLeaf /\ fault' = fault
      BY <1>1 DEF OnlyAnswered, Answered, ClientDone, ClientJob, clientVars, serverVars
  <1>3. ~Carries(Head(cQueue))
      BY <1>1 DEF Carries, Releases, Opens
  <1> QED
      BY <1>1, <1>2, <1>3, SameServers, ClientRunPlain DEF Reaches

LEMMA ResponseReadFileInReaches ==
    ASSUME Inv, Inv', Reaches, ResponseReadFileIn \/ ResponseReadFileError
    PROVE  Reaches'
  <1>1. /\ Running /\ cQueue # <<>> /\ Head(cQueue).op \in {"ReadIn", "PrefetchIn", "ReadErrorIn"}
        /\ cQueue' = Tail(cQueue) /\ UNCHANGED <<sLeaf, sQueue, leaked, forgetting, known, opened>>
        /\ reqs' \subseteq reqs /\ cLeaf' = cLeaf /\ fault' = fault
      BY DEF ResponseReadFileIn, ResponseReadFileError, ClientHead, ClientDone, serverVars, clientVars
  <1>2. ~Carries(Head(cQueue))
      BY <1>1 DEF Carries, Releases, Opens
  <1> QED
      BY <1>1, <1>2, SameServers, ClientRunPlain DEF Reaches

LEMMA ReleaseLeafRefReaches ==
    ASSUME Inv, Inv', Reaches, ReleaseLeafRef
    PROVE  Reaches'
  <1>1. /\ Running /\ cQueue # <<>> /\ Head(cQueue).op = "ReleaseLeafRef"
        /\ cQueue' = Tail(cQueue) /\ UNCHANGED <<sLeaf, sQueue, leaked, forgetting, known, opened>>
        /\ reqs' \subseteq reqs
      BY DEF ReleaseLeafRef, ClientHead, ClientDone, serverVars
  <1>2. ~Carries(Head(cQueue))
      BY <1>1 DEF Carries, Releases, Opens
  <1>3. PICK h : h = Head(cQueue)
      OBVIOUS
  <1>4. h \in Jobs(cQueue) /\ Sound(h)
      BY <1>1, <1>3, QueueTail DEF Inv, TypeInv, QueueType, SoundInv
  <1>5. h.leaf \in DOMAIN cLeaf /\ h.x \in Nat \ {0} /\ IsTree(cLeaf)
      BY <1>1, <1>3, <1>4 DEF Sound, Inv, TypeInv
  <1>6. \/ cLeaf[h.leaf].refs >= h.x /\ cLeaf' = ReleaseRef(cLeaf, h.leaf, h.x) /\ fault' = fault
        \/ cLeaf' = cLeaf /\ fault' = "clientRefs"
      BY <1>3 DEF ReleaseLeafRef, ClientJob, Fail
  <1>7. KeepsServers(cLeaf, cLeaf')
    <2>1. CASE cLeaf' = cLeaf
        BY <2>1, SameServers
    <2>2. CASE cLeaf[h.leaf].refs >= h.x /\ cLeaf' = ReleaseRef(cLeaf, h.leaf, h.x)
      <3>1. PICK n \in Nat : n = h.x
          BY <1>5
      <3>2. /\ DOMAIN cLeaf' = DOMAIN cLeaf
            /\ \A i \in DOMAIN cLeaf : cLeaf'[i].server = cLeaf[i].server
          BY <1>5, <2>2, <3>1, ReleaseRefFacts
      <3> QED
          BY <3>2 DEF KeepsServers
    <2> QED
        BY <1>6, <2>1, <2>2
  <1>8. fault' \notin {"serverLeaf", "serverRefs"}
      BY <1>6 DEF Reaches
  <1> QED
      BY <1>1, <1>2, <1>7, <1>8, ClientRunPlain

\* The leaf that has the name, when the tree follows an event or an answer.
LEMMA AddedStays ==
    ASSUME IsTree(cLeaf), OneOfAName(cLeaf), NEW name \in Names, NEW s \in Nat, NEW tree, NEW c,
           tree = AddChild(cLeaf, name), c = Find(tree, name)
    PROVE  LET u == SetServerInode(tree, c, s)
           IN /\ IsTree(u) /\ c \in DOMAIN u /\ u[c].server = s
              /\ \A i \in DOMAIN cLeaf : i \in DOMAIN u /\ u[i].name = cLeaf[i].name
  <1>1. /\ IsTree(tree) /\ DOMAIN cLeaf \subseteq DOMAIN tree
        /\ (\A i \in DOMAIN cLeaf : tree[i] = cLeaf[i]) /\ c \in DOMAIN tree
      BY AddChildFacts
  <1>2. PICK u : u = SetServerInode(tree, c, s)
      OBVIOUS
  <1>3. /\ IsTree(u) /\ DOMAIN u = DOMAIN tree
        /\ \A i \in DOMAIN tree : /\ u[i].name = tree[i].name
                                  /\ u[i].server = IF i = c THEN s ELSE tree[i].server
      BY <1>1, <1>2, SetServerFacts
  <1> QED
      BY <1>1, <1>2, <1>3

LEMMA NotifyInvalEntryReaches ==
    ASSUME Inv, Inv', Reaches, OneOfAll(sLeaf), NotifyInvalEntry
    PROVE  Reaches'
  <1>1. PICK h : h = Head(cQueue)
      OBVIOUS
  <1>2. /\ Running /\ cQueue # <<>> /\ h.op = "NotifyEntry"
        /\ cQueue' = Tail(cQueue) /\ UNCHANGED <<sLeaf, sQueue, leaked, forgetting, known, opened>>
        /\ reqs' \subseteq reqs
      BY <1>1 DEF NotifyInvalEntry, ClientHead, ClientDone, serverVars
  <1>3. ~Carries(h)
      BY <1>2 DEF Carries, Releases, Opens
  <1>4. PICK m : m = h.x
      OBVIOUS
  <1>5. m \in Notices /\ (m.type = "Created" => Named(m))
      BY <1>1, <1>2, <1>4, PendingRan DEF Sound
  <1>6. PICK name, s, tree, c :
           /\ name = m.name /\ s = m.leaf /\ tree = AddChild(cLeaf, name) /\ c = Find(tree, name)
      OBVIOUS
  <1>7. /\ fault' = fault \/ fault' = "stuck"
        /\ \/ cLeaf' = cLeaf
           \/ cLeaf' = SetServerInode(tree, c, s)
           \/ cLeaf' = RemoveChild(cLeaf, name)
      BY <1>1, <1>4, <1>6 DEF NotifyInvalEntry, ClientJob, Fail
  <1>8. IsTree(cLeaf) /\ OneOfAName(cLeaf) /\ TreeInv /\ name \in Names /\ s \in Nat
    <2>1. m.name \in Names /\ m.leaf \in Nat
        BY <1>5 DEF Notices, Names
    <2> QED
        BY <1>6, <2>1 DEF Inv, TypeInv, TreeInv
  <1>9. \A i \in DOMAIN cLeaf : i \in DOMAIN cLeaf' /\ cLeaf'[i].name = cLeaf[i].name
    <2>1. CASE cLeaf' = cLeaf
        BY <2>1
    <2>2. CASE cLeaf' = SetServerInode(tree, c, s)
        BY <1>6, <1>8, <2>2, AddedStays
    <2>3. CASE cLeaf' = RemoveChild(cLeaf, name)
        BY <1>8, <2>3, RemoveChildFacts
    <2> QED
        BY <1>7, <2>1, <2>2, <2>3
  <1>10. KeepsServers(cLeaf, cLeaf')
    <2>1. TreeInv'
        BY DEF Inv
    <2> QED
        BY <1>2, <1>8, <1>9, <2>1, ServersStay
  <1>11. fault' \notin {"serverLeaf", "serverRefs"}
      BY <1>7 DEF Reaches
  <1> QED
      BY <1>1, <1>2, <1>3, <1>10, <1>11, ClientRunPlain

\* What an answer brought is now known to the kernel.
LEMMA GivenReaches ==
    ASSUME Inv, Inv', Reaches, Running, cQueue # <<>>, cQueue' = Tail(cQueue), reqs' \subseteq reqs,
           UNCHANGED <<sLeaf, sQueue, leaked, forgetting, opened, fault>>, KeepsServers(cLeaf, cLeaf'),
           NEW S, Given(S), \A c, d \in S : cLeaf'[c].server = cLeaf'[d].server => c = d,
           \A s \in Nat \ {0} :
              ClientW(cLeaf, s)[Head(cQueue)] = IF \E c \in S : cLeaf'[c].server = s THEN 1 ELSE 0
    PROVE  Reaches'
  <1>1. Tables(known, opened, forgetting) /\ known \in [DOMAIN known -> Nat]
      BY BalanceTypes
  <1>2. IsFiniteSet(DOMAIN known')
      BY TablesNext
  <1>3. Gives(known, S, known')
      BY DEF Gives, Given, Lookups
  <1>4. ASSUME NEW s \in Nat \ {0}
        PROVE  KnownAt(known', cLeaf', s) + OpenAt(opened', cLeaf', s)
                  = KnownAt(known, cLeaf', s) + OpenAt(opened, cLeaf', s) + ClientW(cLeaf, s)[Head(cQueue)]
    <2>1. PICK t : t = cLeaf'
        OBVIOUS
    <2>2. PICK k : k = known'
        OBVIOUS
    <2>3. Gives(known, S, k) /\ IsFiniteSet(DOMAIN k)
          /\ \A c, d \in S : t[c].server = s /\ t[d].server = s => c = d
        BY <1>2, <1>3, <2>1, <2>2
    <2>4. /\ KnownAt(known, t, s) \in Nat
          /\ KnownAt(k, t, s) = KnownAt(known, t, s) + (IF \E c \in S : t[c].server = s THEN 1 ELSE 0)
        BY <1>1, <2>3, KnownGiven
    <2>5. PICK i \in Nat : /\ i = (IF \E c \in S : t[c].server = s THEN 1 ELSE 0)
                           /\ ClientW(cLeaf, s)[Head(cQueue)] = i
        BY <2>1
    <2>6. PICK x \in Nat, y \in Nat : x = KnownAt(known, t, s) /\ y = OpenAt(opened, t, s)
        BY <1>1, RestingParts
    <2>7. KnownAt(k, t, s) = x + i
        BY <2>4, <2>5, <2>6
    <2>8. KnownAt(k, t, s) + y = x + y + i
        BY <2>7
    <2> QED
        BY <2>1, <2>2, <2>5, <2>6, <2>8
  <1>5. fault' \notin {"serverLeaf", "serverRefs"}
      BY DEF Reaches
  <1> QED
      BY <1>4, <1>5, ClientRunReaches

\* The directory is always found.
LEMMA DirFound == ASSUME Inv PROVE FindLeafByServerInode(Dir) = Dir
  <1>1. Dir \in DOMAIN cLeaf /\ cLeaf[Dir].linked /\ cLeaf[Dir].server = Dir
      BY DEF Inv, TypeInv, IsTree, TreeInv
  <1>2. Dir \in DOMAIN index /\ index[Dir] = Dir
      BY <1>1 DEF Inv, TreeInv, IndexAgrees
  <1> QED
      BY <1>2 DEF FindLeafByServerInode, Alive

LEMMA ResponseLookupInReaches ==
    ASSUME Inv, Inv', Reaches, OneOfAll(sLeaf), ResponseLookupIn
    PROVE  Reaches'
  <1>1. PICK h : h = Head(cQueue)
      OBVIOUS
  <1>2. /\ Running /\ cQueue # <<>> /\ h.op = "LookupIn" /\ cQueue' = Tail(cQueue)
        /\ UNCHANGED <<sLeaf, sQueue, leaked, forgetting, opened, fault>> /\ reqs' \subseteq reqs
      BY <1>1 DEF ResponseLookupIn, ClientHead, ClientDone, Answered, ClientJob, serverVars
  <1>3. PICK m : m = h.x
      OBVIOUS
  <1>4. m \in Entries /\ (m.leaf = None \/ Named(m)) /\ h.leaf = Dir /\ h \in JobType
      BY <1>1, <1>2, <1>3, PendingRan DEF Sound
  <1>5. PICK name, s, tree, c :
           /\ name = m.name /\ s = m.leaf /\ tree = AddChild(cLeaf, name) /\ c = Find(tree, name)
      OBVIOUS
  <1>6. \/ s = None /\ UNCHANGED <<cLeaf, known>>
        \/ s # None /\ cLeaf' = AddRef(SetServerInode(tree, c, s), c) /\ Given({c})
    <2>1. FindLeafByServerInode(h.leaf) # None
        BY <1>4, DirFound DEF Dir, None
    <2> QED
        BY <1>1, <1>3, <1>5, <2>1 DEF ResponseLookupIn, ClientJob
  <1>7. ASSUME NEW i PROVE ClientW(cLeaf, i)[h] = IF s = i THEN 1 ELSE 0
    <2>1. ~Forgets(h, i) /\ ~Releases(h) /\ (Brings(h, i) <=> s = i)
        BY <1>2, <1>3, <1>5 DEF Forgets, Releases, Brings, Opens
    <2> QED
        BY <1>4, <2>1, ServerWeights
  <1>8. CASE s = None /\ UNCHANGED <<cLeaf, known>>
    <2>1. Tables(known, opened, forgetting)
        BY BalanceTypes
    <2>2. ASSUME NEW i \in Nat \ {0}
          PROVE  KnownAt(known', cLeaf', i) + OpenAt(opened', cLeaf', i)
                    = KnownAt(known, cLeaf', i) + OpenAt(opened, cLeaf', i) + ClientW(cLeaf, i)[h]
      <3>1. ClientW(cLeaf, i)[h] = 0
          BY <1>7, <1>8 DEF None
      <3>2. PICK x \in Nat, y \in Nat : x = KnownAt(known, cLeaf', i) /\ y = OpenAt(opened, cLeaf', i)
          BY <2>1, RestingParts
      <3> QED
          BY <1>2, <1>8, <3>1, <3>2
    <2>3. fault' \notin {"serverLeaf", "serverRefs"}
        BY <1>2 DEF Reaches
    <2> QED
        BY <1>1, <1>2, <1>8, <2>2, <2>3, SameServers, ClientRunReaches
  <1>9. CASE s # None /\ cLeaf' = AddRef(SetServerInode(tree, c, s), c) /\ Given({c})
    <2>1. IsTree(cLeaf) /\ OneOfAName(cLeaf) /\ name \in Names /\ s \in Nat /\ TreeInv
      <3>1. m.name \in Names /\ m.leaf \in Nat
          BY <1>4 DEF Entries
      <3> QED
          BY <1>5, <3>1 DEF Inv, TypeInv, TreeInv
    <2>2. PICK u : u = SetServerInode(tree, c, s)
        OBVIOUS
    <2>3. /\ IsTree(u) /\ c \in DOMAIN u /\ u[c].server = s
          /\ \A i \in DOMAIN cLeaf : i \in DOMAIN u /\ u[i].name = cLeaf[i].name
        BY <1>5, <2>1, <2>2, AddedStays
    <2>4. /\ DOMAIN cLeaf' = DOMAIN u
          /\ \A i \in DOMAIN u : cLeaf'[i].name = u[i].name /\ cLeaf'[i].server = u[i].server
        BY <1>9, <2>2, <2>3, AddRefFacts
    <2>5. KeepsServers(cLeaf, cLeaf')
      <3>1. TreeInv'
          BY DEF Inv
      <3>2. \A i \in DOMAIN cLeaf : i \in DOMAIN cLeaf' /\ cLeaf'[i].name = cLeaf[i].name
          BY <2>3, <2>4
      <3> QED
          BY <1>2, <2>1, <3>1, <3>2, ServersStay
    <2>6. PICK S : S = {c}
        OBVIOUS
    <2>7. \A i \in Nat \ {0} : ClientW(cLeaf, i)[h] = IF \E d \in S : cLeaf'[d].server = i THEN 1 ELSE 0
        BY <1>7, <2>3, <2>4, <2>6
    <2>8. Given(S) /\ \A d, e \in S : cLeaf'[d].server = cLeaf'[e].server => d = e
        BY <1>9, <2>6
    <2> QED
        BY <1>1, <1>2, <2>5, <2>7, <2>8, GivenReaches
  <1> QED
      BY <1>6, <1>8, <1>9

\* An open file comes to the kernel.
LEMMA OpenedReaches ==
    ASSUME Inv, Inv', Reaches, ResponseOpenIn \/ ResponseOpenDirIn
    PROVE  Reaches'
  <1>1. PICK h : h = Head(cQueue)
      OBVIOUS
  <1>2. /\ Running /\ cQueue # <<>> /\ h.op \in {"OpenIn", "OpenDirIn"} /\ cQueue' = Tail(cQueue)
        /\ UNCHANGED <<sLeaf, sQueue, leaked, forgetting, cLeaf, known, fault>> /\ reqs' \subseteq reqs
        /\ opened' = IF h.x = None THEN opened
                     ELSE opened \cup {[leaf |-> r.leaf, handle |-> h.x] : r \in {q \in reqs : q.req = h.req}}
      BY <1>1 DEF ResponseOpenIn, ResponseOpenDirIn, ClientHead, Opened, Answered, ClientDone,
                  ClientJob, clientVars, serverVars
  <1>3. h \in JobType /\ h \in Jobs(cQueue) /\ Tables(known, opened, forgetting) /\ IsFiniteSet(opened)
      BY <1>1, <1>2, PendingRan, BalanceTypes DEF Tables
  <1>4. fault' \notin {"serverLeaf", "serverRefs"} /\ KeepsServers(cLeaf, cLeaf')
      BY <1>2, SameServers DEF Reaches
  <1>5. CASE h.x = None
    <2>1. ~Carries(h) /\ opened' = opened
        BY <1>2, <1>5 DEF Carries, Releases, Opens
    <2> QED
        BY <1>1, <1>2, <1>4, <2>1, ClientRunPlain
  <1>6. CASE h.x # None
    <2>1. Opens(h) /\ Live(h)
        BY <1>2, <1>6 DEF Opens, Live, AnswerOps
    <2>2. PICK r \in reqs : r.req = h.req
        BY <1>3, <2>1 DEF Inv, RequestInv, ServedByClient, Serves
    <2>0. PICK o : o = [leaf |-> r.leaf, handle |-> h.x]
        OBVIOUS
    <2>3. o.leaf = r.leaf /\ o.handle = h.x
        BY <2>0
    <2>4. opened' = opened \cup {o}
      <3>1. {q \in reqs : q.req = h.req} = {r}
          BY <2>2 DEF Inv, RequestInv
      <3> QED
          BY <1>2, <1>6, <2>0, <3>1
    <2>5. o \notin opened
      <3>1. h.x = h.req
          BY <1>3, <2>1 DEF Inv, HandleInv, Owned
      <3> QED
          BY <2>2, <2>3, <3>1 DEF Inv, HandleInv
    <2>6. cLeaf[o.leaf].server = h.leaf
        BY <1>3, <2>1, <2>2, <2>3 DEF Reaches, PlacedJobs, Placed
    <2>7. ASSUME NEW s
          PROVE  KnownAt(known', cLeaf', s) + OpenAt(opened', cLeaf', s)
                    = KnownAt(known, cLeaf', s) + OpenAt(opened, cLeaf', s) + ClientW(cLeaf, s)[h]
      <3>1. ~Forgets(h, s) /\ ~Releases(h) /\ (Brings(h, s) <=> h.leaf = s)
          BY <1>2, <2>1 DEF Forgets, Releases, Brings, Opens
      <3>2. PICK i \in Nat : i = (IF h.leaf = s THEN 1 ELSE 0) /\ ClientW(cLeaf, s)[h] = i
          BY <1>3, <3>1, ServerWeights
      <3>3. PICK O : O = opened'
          OBVIOUS
      <3>4. /\ OpenAt(opened, cLeaf, s) \in Nat
            /\ OpenAt(O, cLeaf, s) = OpenAt(opened, cLeaf, s) + (IF cLeaf[o.leaf].server = s THEN 1 ELSE 0)
          BY <1>3, <2>4, <2>5, <3>3, OpenAdded
      <3>5. PICK x \in Nat, y \in Nat : x = KnownAt(known, cLeaf, s) /\ y = OpenAt(opened, cLeaf, s)
          BY <1>3, RestingParts
      <3>6. OpenAt(O, cLeaf, s) = y + i
          BY <2>6, <3>2, <3>4, <3>5
      <3>7. x + OpenAt(O, cLeaf, s) = x + y + i
          BY <3>6
      <3> QED
          BY <1>2, <3>2, <3>3, <3>5, <3>7
    <2> QED
        BY <1>1, <1>2, <1>4, <2>7, ClientRunReaches
  <1> QED
      BY <1>5, <1>6

LEMMA ResponseReadDirPlusInReaches ==
    ASSUME Inv, Inv', Reaches, OneOfAll(sLeaf), ResponseReadDirPlusIn
    PROVE  Reaches'
  <1>1. PICK h : h = Head(cQueue)
      OBVIOUS
  <1>2. /\ Running /\ cQueue # <<>> /\ h.op = "ReadDirPlusIn" /\ cQueue' = Tail(cQueue)
        /\ UNCHANGED <<sLeaf, sQueue, leaked, forgetting, opened, fault>> /\ reqs' \subseteq reqs
      BY <1>1 DEF ResponseReadDirPlusIn, ClientHead, ClientDone, Answered, ClientJob, serverVars
  <1>3. PICK E : E = h.x
      OBVIOUS
  <1>4. /\ E \in Listings /\ IsFiniteSet(E) /\ (\A e \in E : Named(e)) /\ h \in JobType
        /\ \A e, g \in E : e.name = g.name => e = g
      BY <1>1, <1>2, <1>3, PendingRan DEF Sound
  <1>5. PICK tree, given, new : Listing(E, tree, given, new) /\ Given(given)
      BY <1>1, <1>3 DEF ResponseReadDirPlusIn, ClientJob, Listing
  <1>6. IsTree(cLeaf) /\ OneOfAName(cLeaf) /\ TreeInv /\ TreeInv'
      BY DEF Inv, TypeInv, TreeInv
  <1>7. tree = ResolveClientInode(E) /\ given = {Find(tree, e.name) : e \in E}
      BY <1>5 DEF Listing
  <1>8. /\ IsTree(tree) /\ DOMAIN cLeaf \subseteq DOMAIN tree /\ (\A i \in DOMAIN cLeaf : tree[i] = cLeaf[i])
        /\ \A e \in E : /\ Find(tree, e.name) \in DOMAIN tree /\ Find(tree, e.name) # Dir
                        /\ tree[Find(tree, e.name)].name = e.name
      BY <1>4, <1>6, <1>7, ResolveFacts
  <1>9. /\ DOMAIN cLeaf' = DOMAIN tree
        /\ \A i \in DOMAIN tree : cLeaf'[i].name = tree[i].name
      BY <1>5, <1>8, ListedLeaves
  <1>10. KeepsServers(cLeaf, cLeaf')
    <2>1. \A i \in DOMAIN cLeaf : i \in DOMAIN cLeaf' /\ cLeaf'[i].name = cLeaf[i].name
        BY <1>8, <1>9
    <2> QED
        BY <1>2, <1>6, <2>1, ServersStay
  <1>11. ASSUME NEW e \in E PROVE cLeaf'[Find(tree, e.name)].server = e.leaf
    <2>1. PICK c : c = Find(tree, e.name)
        OBVIOUS
    <2>2. c \in DOMAIN cLeaf' /\ c # Dir /\ cLeaf'[c].name = e.name
        BY <1>8, <1>9, <2>1
    <2>3. /\ cLeaf'[c].server \in DOMAIN sLeaf /\ cLeaf'[c].server # Dir
          /\ sLeaf[cLeaf'[c].server].name = e.name
        BY <1>2, <1>6, <2>2 DEF TreeInv, Stands
    <2>4. e.leaf \in DOMAIN sLeaf /\ e.leaf # Dir /\ sLeaf[e.leaf].name = e.name
        BY <1>4 DEF Named
    <2> QED
        BY <2>1, <2>3, <2>4 DEF OneOfAll
  <1>12. ASSUME NEW c \in given, NEW d \in given, cLeaf'[c].server = cLeaf'[d].server
         PROVE  c = d
    <2>1. PICK e \in E, g \in E : c = Find(tree, e.name) /\ d = Find(tree, g.name)
        BY <1>7
    <2>2. e.leaf = g.leaf
        BY <1>11, <1>12, <2>1
    <2>3. e.name = g.name
        BY <1>4, <2>2 DEF Named
    <2> QED
        BY <2>1, <2>3
  <1>13. ASSUME NEW s \in Nat \ {0}
         PROVE  ClientW(cLeaf, s)[h] = IF \E c \in given : cLeaf'[c].server = s THEN 1 ELSE 0
    <2>1. ~Forgets(h, s) /\ ~Releases(h) /\ (Brings(h, s) <=> \E e \in E : e.leaf = s)
        BY <1>2, <1>3 DEF Forgets, Releases, Brings, Opens
    <2>2. ClientW(cLeaf, s)[h] = IF Brings(h, s) THEN 1 ELSE 0
        BY <1>4, <2>1, ServerWeights
    <2>3. (\E e \in E : e.leaf = s) <=> \E c \in given : cLeaf'[c].server = s
      <3>1. ASSUME NEW e \in E, e.leaf = s PROVE \E c \in given : cLeaf'[c].server = s
          BY <1>7, <1>11, <3>1
      <3>2. ASSUME NEW c \in given, cLeaf'[c].server = s PROVE \E e \in E : e.leaf = s
          BY <1>7, <1>11, <3>2
      <3> QED
          BY <3>1, <3>2
    <2> QED
        BY <2>1, <2>2, <2>3
  <1> QED
      BY <1>1, <1>2, <1>5, <1>10, <1>12, <1>13, GivenReaches

\* What the kernel gives up is on its way.
LEMMA KernelReaches ==
    ASSUME Inv, Reaches, Running, UNCHANGED <<sLeaf, sQueue, leaked, cLeaf, fault>>,
           \A r \in reqs' : r \in reqs \/ \A p \in reqs : p.req # r.req,
           \A j \in Jobs(cQueue') : j \in Jobs(cQueue) \/ ~Opens(j),
           \A s \in Nat \ {0} :
              Moving(cQueue', sQueue, cLeaf, s) + Resting(known', opened', forgetting', cLeaf, s)
                 = Moving(cQueue, sQueue, cLeaf, s) + Resting(known, opened, forgetting, cLeaf, s)
    PROVE  Reaches'
  <1>1. Balance'
    <2> SUFFICES ASSUME NEW s \in Nat \ {0} PROVE Balanced(s)'
        BY DEF Balance
    <2>1. Balanced(s)
        BY DEF Reaches, Balance
    <2>2. PICK k, O, G, q : k = known' /\ O = opened' /\ G = forgetting' /\ q = cQueue'
        OBVIOUS
    <2>3. PICK a : a = Moving(q, sQueue, cLeaf, s) + Resting(k, O, G, cLeaf, s)
        OBVIOUS
    <2>4. a = Moving(cQueue, sQueue, cLeaf, s) + Resting(known, opened, forgetting, cLeaf, s)
        BY <2>2, <2>3
    <2>5. RefsOf(sLeaf, s) = a + LeakedAt(leaked, s)
        BY <2>1, <2>4 DEF Balanced
    <2> QED
        BY <2>2, <2>3, <2>5 DEF Balanced
  <1>2. PlacedJobs'
      BY SameServers, PlaceFrame DEF Reaches
  <1> QED
      BY <1>1, <1>2 DEF Reaches

LEMMA FuseReaches ==
    ASSUME Inv, Inv', Reaches, NEW op, NEW leaf, NEW x, Asks(op, leaf, x), Fuse(op, leaf, x)
    PROVE  Reaches'
  <1>1. Running /\ UNCHANGED <<sLeaf, sQueue, leaked, cLeaf, known, forgetting, fault>>
      BY DEF Fuse, serverVars, clientVars
  <1>2. PICK n \in Nat, j \in JobType, r \in [req : Nat, op : RequestOps, leaf : DOMAIN known] :
           /\ r = [req |-> n, op |-> op, leaf |-> leaf] /\ reqs' = reqs \cup {r}
           /\ j.op = op /\ j.leaf = leaf /\ j.x = x /\ cQueue' = Append(cQueue, j)
           /\ \A p \in reqs : p.req # n
      BY FuseParts
  <1>3. r.req = n /\ op \in RequestOps
      BY <1>2 DEF Asks
  <1>4. \A p \in reqs' : p \in reqs \/ \A q \in reqs : q.req # p.req
      BY <1>2, <1>3
  <1>5. Queues(cQueue, sQueue) /\ Tables(known, opened, forgetting) /\ IsFiniteSet(opened)
      BY BalanceTypes DEF Tables
  <1>6. ~Opens(j)
      BY <1>2, <1>3 DEF Opens, RequestOps
  <1>7. \A i \in Jobs(cQueue') : i \in Jobs(cQueue) \/ ~Opens(i)
    <2>1. Jobs(cQueue') = Jobs(cQueue) \cup {j}
        BY <1>2, <1>5, QueueAppend DEF Queues
    <2> QED
        BY <1>6, <2>1
  <1>8. ASSUME NEW s \in Nat \ {0}
        PROVE  Moving(cQueue', sQueue, cLeaf, s) + Resting(known', opened', forgetting', cLeaf, s)
                 = Moving(cQueue, sQueue, cLeaf, s) + Resting(known, opened, forgetting, cLeaf, s)
    <2>1. CASE op \notin {"Release", "ReleaseDir"} /\ opened' = opened
      <3>1. ~Carries(j)
          BY <1>2, <1>3, <1>6, <2>1 DEF Carries, Releases, RequestOps
      <3>2. Moving(cQueue', sQueue, cLeaf, s) = Moving(cQueue, sQueue, cLeaf, s)
          BY <1>2, <3>1, PushedPlain
      <3> QED
          BY <1>1, <2>1, <3>2
    <2>2. CASE /\ op \in {"Release", "ReleaseDir"}
               /\ \E h \in opened : h.leaf = leaf /\ Without(opened, h, opened')
      <3>1. PICK h \in opened : h.leaf = leaf /\ Without(opened, h, opened')
          BY <2>2
      <3>2. Releases(j) /\ ~Forgets(j, s) /\ ~Brings(j, s)
          BY <1>2, <1>6, <2>2 DEF Releases, Forgets, Brings
      <3>3. PICK i \in Nat : i = (IF cLeaf[leaf].server = s THEN 1 ELSE 0) /\ ClientW(cLeaf, s)[j] = i
          BY <1>2, <3>2, ServerWeights
      <3>4. PICK P : P = opened'
          OBVIOUS
      <3>5. /\ OpenAt(P, cLeaf, s) \in Nat
            /\ OpenAt(opened, cLeaf, s) = OpenAt(P, cLeaf, s) + (IF cLeaf[h.leaf].server = s THEN 1 ELSE 0)
          BY <1>5, <3>1, <3>4, OpenRemoved
      <3>6. PICK a \in Nat, y \in Nat, z \in Nat, o \in Nat :
               /\ a = Moving(cQueue, sQueue, cLeaf, s) /\ y = KnownAt(known, cLeaf, s)
               /\ z = ForgotAt(forgetting, cLeaf, s) /\ o = OpenAt(P, cLeaf, s)
          BY <1>5, <3>5, MovingType, RestingParts
      <3>7. OpenAt(opened, cLeaf, s) = o + i
          BY <3>1, <3>3, <3>5, <3>6
      <3>8. Moving(Append(cQueue, j), sQueue, cLeaf, s) = a + i
          BY <1>5, <3>3, <3>6, MovingPushed
      <3>9. Resting(known, opened, forgetting, cLeaf, s) = y + (o + i) + z
          BY <3>6, <3>7 DEF Resting
      <3>10. Resting(known, P, forgetting, cLeaf, s) = y + o + z
          BY <3>6 DEF Resting
      <3>11. (a + i) + (y + o + z) = a + (y + (o + i) + z)
          OBVIOUS
      <3> QED
          BY <1>1, <1>2, <3>4, <3>6, <3>8, <3>9, <3>10, <3>11
    <2> QED
        BY <2>1, <2>2 DEF Asks, GivesUp
  <1> QED
      BY <1>1, <1>4, <1>7, <1>8, KernelReaches

\* The jobs of a forget: the one for the server carries what the kernel has counted.
LEMMA ForgetWeights ==
    ASSUME Inv, NEW m \in [leaf : DOMAIN cLeaf, n : Nat \ {0}]
    PROVE  /\ ForwardForget(m) \in JobType /\ ReleaseJob(m) \in JobType
           /\ ~Opens(ForwardForget(m)) /\ ~Opens(ReleaseJob(m))
           /\ \A s : /\ ClientW(cLeaf, s)[ForwardForget(m)] = IF cLeaf[m.leaf].server = s THEN m.n ELSE 0
                     /\ ClientW(cLeaf, s)[ReleaseJob(m)] = 0
  <1>1. PICK j \in JobType, k \in JobType :
           /\ j = ForwardForget(m) /\ k = ReleaseJob(m)
           /\ j.op = "ForgetMulti" /\ k.op = "ReleaseLeafRef"
      BY ForgetJobs
  <1>2. j.leaf = cLeaf[m.leaf].server /\ j.x = m.n /\ m.n \in Nat
      BY <1>1 DEF ForwardForget, Job
  <1>3. ~Opens(j) /\ ~Opens(k) /\ ~Carries(k)
      BY <1>1 DEF Opens, Carries, Releases
  <1>4. ASSUME NEW s PROVE ClientW(cLeaf, s)[j] = IF cLeaf[m.leaf].server = s THEN m.n ELSE 0
    <2>1. ~Brings(j, s) /\ ~Releases(j) /\ (Forgets(j, s) <=> cLeaf[m.leaf].server = s)
        BY <1>1, <1>2 DEF Brings, Releases, Opens, Forgets
    <2> QED
        BY <1>2, <2>1, ServerWeights
  <1>5. \A s : ClientW(cLeaf, s)[k] = 0
      BY <1>3, CarriesNothing
  <1> QED
      BY <1>1, <1>3, <1>4, <1>5

LEMMA FuseForgetReaches ==
    ASSUME Inv, Reaches, NEW c, FuseForget(c)
    PROVE  Reaches'
  <1>1. PICK m : m = [leaf |-> c, n |-> known[c]]
      OBVIOUS
  <1>2. /\ Forget(c) /\ cQueue' = cQueue \o <<ForwardForget(m), ReleaseJob(m)>>
        /\ forgetting' = forgetting
      BY <1>1 DEF FuseForget
  <1>3. /\ Running /\ UNCHANGED <<sLeaf, sQueue, leaked, cLeaf, fault, reqs, opened>>
        /\ c \in DOMAIN known /\ Drops(known, c, known')
      BY <1>2 DEF Forget, Drops, clientVars, serverVars
  <1>4. /\ Queues(cQueue, sQueue) /\ Tables(known, opened, forgetting)
        /\ known \in [DOMAIN known -> Nat] /\ IsFiniteSet(DOMAIN known)
      BY BalanceTypes
  <1>5. c \in DOMAIN cLeaf /\ known[c] \in Nat \ {0}
      BY <1>3 DEF Inv, TypeInv, KernelType
  <1>6. m \in [leaf : DOMAIN cLeaf, n : Nat \ {0}] /\ m.leaf = c /\ m.n = known[c]
      BY <1>1, <1>5
  <1>7. PICK j \in JobType, k \in JobType :
           /\ j = ForwardForget(m) /\ k = ReleaseJob(m) /\ ~Opens(j) /\ ~Opens(k)
           /\ \A s : /\ ClientW(cLeaf, s)[j] = IF cLeaf[c].server = s THEN known[c] ELSE 0
                     /\ ClientW(cLeaf, s)[k] = 0
      BY <1>6, ForgetWeights
  <1>8. cQueue' = Append(Append(cQueue, j), k)
      BY <1>2, <1>4, <1>7, QueueAppendTwo DEF Queues
  <1>9. \A i \in Jobs(cQueue') : i \in Jobs(cQueue) \/ ~Opens(i)
    <2>1. Append(cQueue, j) \in Seq(JobType) /\ Jobs(Append(cQueue, j)) = Jobs(cQueue) \cup {j}
        BY <1>4, QueueAppend DEF Queues
    <2>2. Jobs(cQueue') = Jobs(Append(cQueue, j)) \cup {k}
        BY <1>8, <2>1, QueueAppend
    <2> QED
        BY <1>7, <2>1, <2>2
  <1>10. ASSUME NEW s \in Nat \ {0}
         PROVE  Moving(cQueue', sQueue, cLeaf, s) + Resting(known', opened', forgetting', cLeaf, s)
                   = Moving(cQueue, sQueue, cLeaf, s) + Resting(known, opened, forgetting, cLeaf, s)
    <2>1. PICK i \in Nat : /\ i = (IF cLeaf[c].server = s THEN known[c] ELSE 0)
                           /\ ClientW(cLeaf, s)[j] = i /\ ClientW(cLeaf, s)[k] = 0
        BY <1>5, <1>7
    <2>2. PICK d : d = known'
        OBVIOUS
    <2>3. /\ KnownAt(d, cLeaf, s) \in Nat
          /\ KnownAt(known, cLeaf, s) = KnownAt(d, cLeaf, s) + (IF cLeaf[c].server = s THEN known[c] ELSE 0)
        BY <1>3, <1>4, <2>2, KnownDropped
    <2>4. PICK a \in Nat, y \in Nat, z \in Nat, o \in Nat :
             /\ a = Moving(cQueue, sQueue, cLeaf, s) /\ y = KnownAt(d, cLeaf, s)
             /\ z = ForgotAt(forgetting, cLeaf, s) /\ o = OpenAt(opened, cLeaf, s)
        BY <1>4, <2>3, MovingType, RestingParts
    <2>5. KnownAt(known, cLeaf, s) = y + i
        BY <2>1, <2>3, <2>4
    <2>6. Queues(Append(cQueue, j), sQueue) /\ Moving(Append(cQueue, j), sQueue, cLeaf, s) = a + i
        BY <1>4, <2>1, <2>4, MovingPushed
    <2>7. Moving(cQueue', sQueue, cLeaf, s) = (a + i) + 0
        BY <1>8, <2>1, <2>6, MovingPushed
    <2>8. Resting(known, opened, forgetting, cLeaf, s) = (y + i) + o + z
        BY <2>4, <2>5 DEF Resting
    <2>9. Resting(d, opened, forgetting, cLeaf, s) = y + o + z
        BY <2>4 DEF Resting
    <2>10. ((a + i) + 0) + (y + o + z) = a + ((y + i) + o + z)
        OBVIOUS
    <2> QED
        BY <1>2, <1>3, <2>2, <2>4, <2>7, <2>8, <2>9, <2>10
  <1> QED
      BY <1>3, <1>9, <1>10, KernelReaches

LEMMA FuseForgetmultiReleaseReaches ==
    ASSUME Inv, Reaches, NEW c, FuseForgetmultiRelease(c)
    PROVE  Reaches'
  <1>1. PICK m : m = [leaf |-> c, n |-> known[c]]
      OBVIOUS
  <1>2. /\ Forget(c) /\ cQueue' = Append(cQueue, ReleaseJob(m))
        /\ forgetting' = forgetting \cup {m} /\ ~\E k \in forgetting : k.leaf = c
      BY <1>1 DEF FuseForgetmultiRelease
  <1>3. /\ Running /\ UNCHANGED <<sLeaf, sQueue, leaked, cLeaf, fault, reqs, opened>>
        /\ c \in DOMAIN known /\ Drops(known, c, known')
      BY <1>2 DEF Forget, Drops, clientVars, serverVars
  <1>4. /\ Queues(cQueue, sQueue) /\ Tables(known, opened, forgetting)
        /\ known \in [DOMAIN known -> Nat] /\ IsFiniteSet(DOMAIN known)
        /\ IsFiniteSet(forgetting) /\ \A g \in forgetting : g.n \in Nat
      BY BalanceTypes DEF Tables
  <1>5. c \in DOMAIN cLeaf /\ known[c] \in Nat \ {0}
      BY <1>3 DEF Inv, TypeInv, KernelType
  <1>6. m \in [leaf : DOMAIN cLeaf, n : Nat \ {0}] /\ m.leaf = c /\ m.n = known[c]
      BY <1>1, <1>5
  <1>7. PICK k \in JobType :
           k = ReleaseJob(m) /\ ~Opens(k) /\ \A s : ClientW(cLeaf, s)[k] = 0
      BY <1>6, ForgetWeights
  <1>8. \A i \in Jobs(cQueue') : i \in Jobs(cQueue) \/ ~Opens(i)
    <2>1. Jobs(Append(cQueue, k)) = Jobs(cQueue) \cup {k}
        BY <1>4, QueueAppend DEF Queues
    <2> QED
        BY <1>2, <1>7, <2>1
  <1>9. m \notin forgetting
      BY <1>2, <1>6
  <1>10. ASSUME NEW s \in Nat \ {0}
         PROVE  Moving(cQueue', sQueue, cLeaf, s) + Resting(known', opened', forgetting', cLeaf, s)
                   = Moving(cQueue, sQueue, cLeaf, s) + Resting(known, opened, forgetting, cLeaf, s)
    <2>1. PICK i \in Nat : i = (IF cLeaf[c].server = s THEN known[c] ELSE 0)
        BY <1>5
    <2>2. PICK d, G : d = known' /\ G = forgetting'
        OBVIOUS
    <2>3. /\ KnownAt(d, cLeaf, s) \in Nat
          /\ KnownAt(known, cLeaf, s) = KnownAt(d, cLeaf, s) + (IF cLeaf[c].server = s THEN known[c] ELSE 0)
        BY <1>3, <1>4, <2>2, KnownDropped
    <2>4. /\ ForgotAt(forgetting, cLeaf, s) \in Nat
          /\ ForgotAt(G, cLeaf, s) = ForgotAt(forgetting, cLeaf, s) + (IF cLeaf[m.leaf].server = s THEN m.n ELSE 0)
      <3>1. G = forgetting \cup {m} /\ m.n \in Nat
          BY <1>2, <1>6, <2>2
      <3> QED
          BY <1>4, <1>9, <3>1, ForgotAdded
    <2>5. PICK a \in Nat, y \in Nat, z \in Nat, o \in Nat :
             /\ a = Moving(cQueue, sQueue, cLeaf, s) /\ y = KnownAt(d, cLeaf, s)
             /\ z = ForgotAt(forgetting, cLeaf, s) /\ o = OpenAt(opened, cLeaf, s)
        BY <1>4, <2>3, MovingType, RestingParts
    <2>6. KnownAt(known, cLeaf, s) = y + i /\ ForgotAt(G, cLeaf, s) = z + i
        BY <1>6, <2>1, <2>3, <2>4, <2>5
    <2>7. Moving(cQueue', sQueue, cLeaf, s) = a + 0
        BY <1>2, <1>4, <1>7, <2>5, MovingPushed
    <2>8. Resting(known, opened, forgetting, cLeaf, s) = (y + i) + o + z
        BY <2>5, <2>6 DEF Resting
    <2>9. Resting(d, opened, G, cLeaf, s) = y + o + (z + i)
        BY <2>5, <2>6 DEF Resting
    <2>10. (a + 0) + (y + o + (z + i)) = a + ((y + i) + o + z)
        OBVIOUS
    <2> QED
        BY <1>3, <2>2, <2>5, <2>7, <2>8, <2>9, <2>10
  <1> QED
      BY <1>3, <1>8, <1>10, KernelReaches

LEMMA FuseForgetmultiRequestReaches ==
    ASSUME Inv, Reaches, NEW m \in forgetting, FuseForgetmultiRequest(m)
    PROVE  Reaches'
  <1>1. /\ Running /\ UNCHANGED <<sLeaf, sQueue, leaked, cLeaf, reqs, known, opened>>
        /\ Without(forgetting, m, forgetting')
        /\ \/ cQueue' = Append(cQueue, ForwardForget(m)) /\ fault' = fault
           \/ fault' = "forgetMulti" /\ cQueue' = cQueue
      BY DEF FuseForgetmultiRequest, Fail, Without, clientVars, serverVars, kernelVars
  <1>2. /\ Queues(cQueue, sQueue) /\ Tables(known, opened, forgetting)
        /\ IsFiniteSet(forgetting) /\ \A g \in forgetting : g.n \in Nat
      BY BalanceTypes DEF Tables
  <1>3. m \in [leaf : DOMAIN cLeaf, n : Nat \ {0}]
      BY DEF Inv, TypeInv, KernelType
  <1>4. CASE cQueue' = Append(cQueue, ForwardForget(m)) /\ fault' = fault
    <2>1. PICK j \in JobType :
             /\ j = ForwardForget(m) /\ ~Opens(j)
             /\ \A s : ClientW(cLeaf, s)[j] = IF cLeaf[m.leaf].server = s THEN m.n ELSE 0
        BY <1>3, ForgetWeights
    <2>2. \A i \in Jobs(cQueue') : i \in Jobs(cQueue) \/ ~Opens(i)
      <3>1. Jobs(Append(cQueue, j)) = Jobs(cQueue) \cup {j}
          BY <1>2, QueueAppend DEF Queues
      <3> QED
          BY <1>4, <2>1, <3>1
    <2>3. ASSUME NEW s \in Nat \ {0}
          PROVE  Moving(cQueue', sQueue, cLeaf, s) + Resting(known', opened', forgetting', cLeaf, s)
                    = Moving(cQueue, sQueue, cLeaf, s) + Resting(known, opened, forgetting, cLeaf, s)
      <3>1. PICK i \in Nat : /\ i = (IF cLeaf[m.leaf].server = s THEN m.n ELSE 0)
                             /\ ClientW(cLeaf, s)[j] = i
          BY <1>2, <2>1
      <3>2. PICK G : G = forgetting'
          OBVIOUS
      <3>3. /\ ForgotAt(G, cLeaf, s) \in Nat
            /\ ForgotAt(forgetting, cLeaf, s)
                  = ForgotAt(G, cLeaf, s) + (IF cLeaf[m.leaf].server = s THEN m.n ELSE 0)
          BY <1>1, <1>2, <3>2, ForgotRemoved
      <3>4. PICK a \in Nat, y \in Nat, z \in Nat, o \in Nat :
               /\ a = Moving(cQueue, sQueue, cLeaf, s) /\ y = KnownAt(known, cLeaf, s)
               /\ z = ForgotAt(G, cLeaf, s) /\ o = OpenAt(opened, cLeaf, s)
          BY <1>2, <3>3, MovingType, RestingParts
      <3>5. ForgotAt(forgetting, cLeaf, s) = z + i
          BY <3>1, <3>3, <3>4
      <3>6. Moving(cQueue', sQueue, cLeaf, s) = a + i
          BY <1>2, <1>4, <2>1, <3>1, <3>4, MovingPushed
      <3>7. Resting(known, opened, forgetting, cLeaf, s) = y + o + (z + i)
          BY <3>4, <3>5 DEF Resting
      <3>8. Resting(known, opened, G, cLeaf, s) = y + o + z
          BY <3>4 DEF Resting
      <3>9. (a + i) + (y + o + z) = a + (y + o + (z + i))
          OBVIOUS
      <3> QED
          BY <1>1, <3>2, <3>4, <3>6, <3>7, <3>8, <3>9
    <2> QED
        BY <1>1, <1>4, <2>2, <2>3, KernelReaches
  <1>5. CASE fault' = "forgetMulti" /\ cQueue' = cQueue
    <2>1. PlacedJobs'
        BY <1>1, <1>5, SameServers, PlaceFrame DEF Reaches
    <2> QED
        BY <1>5, <2>1 DEF Reaches, Running
  <1> QED
      BY <1>1, <1>4, <1>5

-----------------------------------------------------------------------------
(* Every step.                                                             *)

LEMMA StillDisk ==
    ASSUME Inv, Inv', DiskInv, UNCHANGED <<diskVars, sLeaf>>
    PROVE  DiskInv'
  <1>1. UNCHANGED <<disk, deleted, recreated, events, sLeaf>>
      BY DEF diskVars
  <1> QED
      BY <1>1, DiskFrame

LEMMA CountedDisk ==
    ASSUME Inv, Inv', DiskInv,
           \/ ResponseOpen \/ ResponseOpenDir
           \/ ResponseForgetMulti \/ ResponseRelease \/ ResponseReleaseDir
    PROVE  DiskInv'
  <1>1. UNCHANGED <<disk, deleted, recreated, events>>
      BY DEF ResponseOpen, ResponseOpenDir, ResponseForgetMulti, ResponseRelease, ResponseReleaseDir,
             ServerDone, diskVars
  <1>2. PICK h : h = Head(sQueue)
      OBVIOUS
  <1>3. \/ sLeaf' = sLeaf
        \/ sLeaf' = AddRef(sLeaf, h.leaf)
        \/ \E n \in Nat : sLeaf[h.leaf].refs >= n /\ sLeaf' = ReleaseRef(sLeaf, h.leaf, n)
    <2>1. CASE ResponseOpen \/ ResponseOpenDir
        BY <1>2, <2>1 DEF ResponseOpen, ResponseOpenDir, ServerJob
    <2>2. CASE ResponseRelease \/ ResponseReleaseDir
      <3>1. ServerReleases(1)
          BY <2>2 DEF ResponseRelease, ResponseReleaseDir
      <3> QED
          BY <1>2, <3>1 DEF ServerReleases, Released, ServerJob
    <2>3. CASE ResponseForgetMulti
      <3>1. ServerReleases(h.x) /\ sQueue # <<>> /\ h.op = "ForgetMulti"
          BY <1>2, <2>3 DEF ResponseForgetMulti, ServerLeaf, ServerHead, ServerJob
      <3>2. h.x \in Nat
          BY <1>2, <3>1, ServerHeadFacts DEF Sound
      <3> QED
          BY <1>2, <3>1, <3>2 DEF ServerReleases, Released, ServerJob
    <2> QED
        BY <2>1, <2>2, <2>3
  <1>4. IsTree(sLeaf)
      BY DEF Inv, TypeInv
  <1>5. /\ DOMAIN sLeaf' = DOMAIN sLeaf
        /\ \A i \in DOMAIN sLeaf : sLeaf'[i].name = sLeaf[i].name /\ sLeaf'[i].linked = sLeaf[i].linked
    <2>1. CASE sLeaf' = AddRef(sLeaf, h.leaf)
        BY <1>4, <2>1, AddRefFacts
    <2>2. CASE \E n \in Nat : sLeaf[h.leaf].refs >= n /\ sLeaf' = ReleaseRef(sLeaf, h.leaf, n)
        BY <1>4, <2>2, ReleaseRefFacts
    <2> QED
        BY <1>3, <2>1, <2>2
  <1> QED
      BY <1>1, <1>5, DiskFrame

LEMMA ServerMainDisk ==
    ASSUME Inv, Inv', DiskInv, ServerMain
    PROVE  DiskInv'
  <1>1. CASE ResponseLookup
      BY <1>1, LookupGivesOut, GivesOutKeepsDisk
  <1>2. CASE ResponseReadDirPlus
      BY <1>2, ReadDirPlusGivesOut, GivesOutKeepsDisk
  <1>3. CASE \/ ResponseOpen \/ ResponseOpenDir
             \/ ResponseForgetMulti \/ ResponseRelease \/ ResponseReleaseDir
      BY <1>3, CountedDisk
  <1>4. CASE ProcessInotifyEvent
      BY <1>4, ProcessInotifyEventKeepsDisk
  <1>5. CASE \/ ResponseGetAttr \/ ResponseReadAlloc \/ SendNotifyInvalEntry \/ ServerUsesFreed
             \/ OpenAsserts
    <2>1. UNCHANGED <<diskVars, sLeaf>>
        BY <1>5 DEF ResponseGetAttr, ResponseReadAlloc, SendNotifyInvalEntry, ServerUsesFreed,
                    OpenAsserts, ServerDone, serverVars
    <2> QED
        BY <2>1, StillDisk
  <1> QED
      BY <1>1, <1>2, <1>3, <1>4, <1>5, Zenon DEF ServerMain

LEMMA ClientMainDisk ==
    ASSUME Inv, Inv', DiskInv, ClientMain
    PROVE  DiskInv'
  <1>1. CASE \/ RequestLookup \/ RequestOpenDir \/ RequestOpen \/ RequestReadDirPlus \/ RequestGetAttr
             \/ RequestRelease \/ RequestReleaseDir \/ RequestForgetMulti \/ RequestRead
    <2>1. UNCHANGED <<diskVars, serverVars>>
        BY <1>1 DEF RequestLookup, RequestOpenDir, RequestOpen, RequestReadDirPlus, RequestGetAttr,
                    RequestRelease, RequestReleaseDir, Forward, RequestForgetMulti, RequestRead
    <2> QED
        BY <2>1, StillDisk DEF serverVars
  <1>2. CASE \/ ResponseLookupIn \/ ResponseReadDirPlusIn \/ ResponseOpenIn \/ ResponseOpenDirIn
             \/ ResponseReleaseIn \/ ResponseReleaseDirIn \/ ResponseGetAttrIn \/ ResponseForgetMultiIn
             \/ ResponseReadFileIn \/ ResponseReadFileError \/ ReleaseLeafRef \/ NotifyInvalEntry
    <2>1. ClientDone
        BY <1>2, Zenon DEF ResponseLookupIn, ResponseReadDirPlusIn, ResponseOpenIn, ResponseOpenDirIn,
           ResponseReleaseIn, ResponseReleaseDirIn, ResponseGetAttrIn, ResponseForgetMultiIn,
           ResponseReadFileIn, ResponseReadFileError, ReleaseLeafRef, NotifyInvalEntry, Opened, OnlyAnswered
    <2> QED
        BY <2>1, StillDisk DEF ClientDone, serverVars
  <1> QED
      BY <1>1, <1>2, Zenon DEF ClientMain

LEMMA NextDisk ==
    ASSUME Inv, Inv', DiskInv, [Next]_vars
    PROVE  DiskInv'
  <1>1. CASE DiskStep
      BY <1>1, ChangeKeepsDisk DEF DiskStep
  <1>2. CASE KernelStep
    <2>1. CASE \E c \in DOMAIN cLeaf : FuseForget(c) \/ FuseForgetmultiRelease(c)
      <3>1. UNCHANGED <<diskVars, serverVars>>
          BY <2>1 DEF FuseForget, FuseForgetmultiRelease, Forget
      <3> QED
          BY <3>1, StillDisk DEF serverVars
    <2>2. CASE \/ \E f \in Files : FuseLookup(f)
               \/ FuseOpendir
               \/ \E c \in DOMAIN cLeaf :
                     \/ FuseOpen(c)
                     \/ \E x \in {None} \cup {h.handle : h \in {o \in opened : o.leaf = c}} : FuseGetattr(c, x)
               \/ \E h \in opened : FuseReadDirPlus(h) \/ FuseRead(h) \/ FuseRelease(h) \/ FuseReleaseDir(h)
      <3>1. \E op, leaf, x : Asks(op, leaf, x) /\ Fuse(op, leaf, x)
          BY <2>2, FuseStepAsks
      <3>2. UNCHANGED <<diskVars, serverVars>>
          BY <3>1 DEF Fuse
      <3> QED
          BY <3>2, StillDisk DEF serverVars
    <2> QED
        BY <1>2, <2>1, <2>2, Zenon DEF KernelStep
  <1>3. CASE FuseThread \/ DiskThread \/ ApplyBlockCache \/ UNCHANGED vars
    <2>1. UNCHANGED <<diskVars, sLeaf>>
        BY <1>3 DEF FuseThread, DiskThread, ApplyBlockCache, vars, FuseForgetmultiRequest, ResponseReadFile,
                    serverVars
    <2> QED
        BY <2>1, StillDisk
  <1>4. CASE ServerMain \/ ClientMain
      BY <1>4, ServerMainDisk, ClientMainDisk
  <1> QED
      BY <1>1, <1>2, <1>3, <1>4 DEF Next, Workers

LEMMA StutterReaches ==
    ASSUME Reaches, UNCHANGED vars
    PROVE  Reaches'
  <1>1. UNCHANGED <<sLeaf, leaked, cLeaf, sQueue, cQueue, reqs, known, opened, forgetting, fault>>
      BY DEF vars, serverVars, clientVars, kernelVars
  <1>2. PlacedJobs'
      BY <1>1 DEF Reaches, PlacedJobs, Placed
  <1>3. ASSUME NEW s PROVE Balanced(s)' <=> Balanced(s)
      BY <1>1 DEF Balanced
  <1> QED
      BY <1>1, <1>2, <1>3 DEF Reaches, Balance, Running

LEMMA KernelStepReaches ==
    ASSUME Inv, Inv', Reaches, KernelStep
    PROVE  Reaches'
  <1>1. CASE \E c \in DOMAIN cLeaf : FuseForget(c) \/ FuseForgetmultiRelease(c)
      BY <1>1, FuseForgetReaches, FuseForgetmultiReleaseReaches
  <1>2. CASE \/ \E f \in Files : FuseLookup(f)
             \/ FuseOpendir
             \/ \E c \in DOMAIN cLeaf :
                   \/ FuseOpen(c)
                   \/ \E x \in {None} \cup {h.handle : h \in {o \in opened : o.leaf = c}} : FuseGetattr(c, x)
             \/ \E h \in opened : FuseReadDirPlus(h) \/ FuseRead(h) \/ FuseRelease(h) \/ FuseReleaseDir(h)
      BY <1>2, FuseStepAsks, FuseReaches
  <1> QED
      BY <1>1, <1>2, Zenon DEF KernelStep

LEMMA ServerMainReaches ==
    ASSUME Inv, Inv', DiskInv, Reaches, ServerMain
    PROVE  Reaches'
  BY ResponseLookupReaches, ResponseReadDirPlusReaches, ResponseOpenReaches, ResponseOpenDirReaches,
     ResponseReleaseReaches, PlainReplyReaches, ResponseReadAllocReaches, ProcessInotifyEventReaches,
     ServerUsesFreedReaches, OpenAssertsReaches, Zenon DEF ServerMain

LEMMA ClientMainReaches ==
    ASSUME Inv, Inv', Reaches, OneOfAll(sLeaf), ClientMain
    PROVE  Reaches'
  <1>1. CASE \/ RequestLookup \/ RequestOpenDir \/ RequestOpen \/ RequestReadDirPlus \/ RequestGetAttr
             \/ RequestRelease \/ RequestReleaseDir
    <2>1. PICK op \in RequestOps \ {"Read"} : Forward(op)
        BY <1>1 DEF RequestOps, RequestLookup, RequestOpenDir, RequestOpen, RequestReadDirPlus,
                    RequestGetAttr, RequestRelease, RequestReleaseDir
    <2> QED
        BY <2>1, ForwardReaches
  <1>2. CASE \/ RequestForgetMulti \/ RequestRead \/ ResponseLookupIn \/ ResponseReadDirPlusIn
             \/ ResponseReadFileIn \/ ResponseReadFileError \/ ReleaseLeafRef \/ NotifyInvalEntry
      BY <1>2, RequestForgetMultiReaches, RequestReadReaches, ResponseLookupInReaches,
         ResponseReadDirPlusInReaches, ResponseReadFileInReaches, ReleaseLeafRefReaches,
         NotifyInvalEntryReaches
  <1>3. CASE \/ ResponseOpenIn \/ ResponseOpenDirIn
             \/ ResponseReleaseIn \/ ResponseReleaseDirIn \/ ResponseGetAttrIn \/ ResponseForgetMultiIn
      BY <1>3, OpenedReaches, OnlyAnsweredReaches
  <1> QED
      BY <1>1, <1>2, <1>3, Zenon DEF ClientMain

LEMMA NextReaches ==
    ASSUME Inv, Inv', DiskInv, Reaches, ~recreated, [Next]_vars
    PROVE  Reaches'
  <1>1. OneOfAll(sLeaf)
      BY DEF DiskInv, FreshNames
  <1>2. CASE DiskStep
      BY <1>2, ChangeReaches DEF DiskStep
  <1>3. CASE KernelStep
      BY <1>3, KernelStepReaches
  <1>4. CASE FuseThread
      BY <1>4, FuseForgetmultiRequestReaches DEF FuseThread
  <1>5. CASE Workers
    <2>1. CASE DiskThread
        BY <2>1, ResponseReadFileReaches DEF DiskThread
    <2> QED
        BY <1>1, <1>5, <2>1, ServerMainReaches, ClientMainReaches, ApplyBlockCacheReaches DEF Workers
  <1>6. CASE UNCHANGED vars
      BY <1>6, StutterReaches
  <1> QED
      BY <1>2, <1>3, <1>4, <1>5, <1>6 DEF Next

\* Names that were created again stay so.
LEMMA RecreatedStays ==
    ASSUME [Next]_vars, recreated
    PROVE  recreated'
  <1>1. CASE DiskStep
      BY <1>1 DEF DiskStep, CreateFile, DeleteFile
  <1>2. CASE KernelStep
    <2>1. UNCHANGED diskVars
        BY <1>2, Zenon DEF KernelStep, FuseForget, FuseForgetmultiRelease, Forget, FuseLookup, FuseOpendir,
           FuseOpen, FuseGetattr, FuseReadDirPlus, FuseRead, FuseRelease, FuseReleaseDir, Fuse, diskVars
    <2> QED
        BY <2>1 DEF diskVars
  <1>3. CASE FuseThread \/ DiskThread \/ ApplyBlockCache \/ UNCHANGED vars
      BY <1>3 DEF FuseThread, DiskThread, ApplyBlockCache, vars, FuseForgetmultiRequest, ResponseReadFile,
                  diskVars
  <1>4. CASE ServerMain
    <2>1. CASE ProcessInotifyEvent
        BY <2>1 DEF ProcessInotifyEvent
    <2>2. CASE ServerUsesFreed \/ OpenAsserts
        BY <2>2 DEF ServerUsesFreed, OpenAsserts, diskVars
    <2>3. CASE \E own, out : ServerDone(own, out)
        BY <2>3 DEF ServerDone, diskVars
    <2> QED
        BY <1>4, <2>1, <2>2, <2>3, Zenon DEF ServerMain, ResponseLookup, ResponseReadDirPlus, ResponseOpen,
           ResponseOpenDir, ResponseForgetMulti, ResponseRelease, ResponseReleaseDir, ResponseGetAttr,
           ResponseReadAlloc, SendNotifyInvalEntry
  <1>5. CASE ClientMain
    <2>1. CASE ClientDone
        BY <2>1 DEF ClientDone, diskVars
    <2>2. CASE \/ RequestForgetMulti \/ RequestRead
               \/ \E op : Forward(op)
        BY <2>2 DEF RequestForgetMulti, RequestRead, Forward, diskVars
    <2> QED
        BY <1>5, <2>1, <2>2, Zenon DEF ClientMain, RequestLookup, RequestOpenDir, RequestOpen,
           RequestReadDirPlus, RequestGetAttr, RequestRelease, RequestReleaseDir, ResponseLookupIn,
           ResponseReadDirPlusIn, ResponseOpenIn, ResponseOpenDirIn, ResponseReleaseIn,
           ResponseReleaseDirIn, ResponseGetAttrIn, ResponseForgetMultiIn, ResponseReadFileIn,
           ResponseReadFileError, ReleaseLeafRef, NotifyInvalEntry, Opened, OnlyAnswered
  <1> QED
      BY <1>1, <1>2, <1>3, <1>4, <1>5 DEF Next, Workers

LEMMA ServerInvNext == Inv /\ Inv' /\ ServerInv /\ [Next]_vars => ServerInv'
  <1>1. SUFFICES ASSUME Inv, Inv', ServerInv, [Next]_vars PROVE ServerInv'
      OBVIOUS
  <1>2. DiskInv'
      BY <1>1, NextDisk DEF ServerInv
  <1>3. ASSUME ~recreated' PROVE Reaches'
    <2>1. ~recreated
        BY <1>1, <1>3, RecreatedStays
    <2> QED
        BY <1>1, <2>1, NextReaches DEF ServerInv
  <1> QED
      BY <1>2, <1>3 DEF ServerInv

\* A sum of which one term is not zero.
LEMMA TotalOfOne ==
    ASSUME NEW E, IsFiniteSet(E), NEW g \in [E -> Nat], NEW e \in E, \A c \in E : c # e => g[c] = 0
    PROVE  Total(g) = g[e]
  <1>1. PICK h : h = [c \in E \ {e} |-> g[c]]
      OBVIOUS
  <1>2. Total(g) = Total(h) + g[e]
      BY <1>1, TotalSplit
  <1>3. PICK D : D = E \ {e} /\ h \in [D -> Nat] /\ \A c \in D : h[c] = 0
      BY <1>1
  <1>4. Total(h) = 0
      BY <1>3, TotalZero
  <1> QED
      BY <1>2, <1>4

\* At first, the kernel has looked up each leaf that is there once.
LEMMA OnceEach ==
    ASSUME NEW n \in Nat, NEW t, \A c \in 1..n : t[c].server = c, NEW k, k = [c \in 1..n |-> 1], NEW s
    PROVE  KnownAt(k, t, s) = IF s \in 1..n THEN 1 ELSE 0
  <1>1. PICK g : g = [c \in 1..n |-> IF t[c].server = s THEN k[c] ELSE 0]
      OBVIOUS
  <1>2. KnownAt(k, t, s) = Total(g)
      BY <1>1 DEF KnownAt
  <1>3. g \in [1..n -> Nat] /\ \A c \in 1..n : g[c] = IF c = s THEN 1 ELSE 0
      BY <1>1
  <1>4. CASE s \notin 1..n
    <2>1. \A c \in 1..n : g[c] = 0
        BY <1>3, <1>4
    <2> QED
        BY <1>2, <1>3, <1>4, <2>1, TotalZero
  <1>5. CASE s \in 1..n
    <2>1. IsFiniteSet(1..n)
        BY FS_Interval
    <2>2. \A c \in 1..n : c # s => g[c] = 0
        BY <1>3
    <2>3. Total(g) = g[s]
        BY <1>3, <1>5, <2>1, <2>2, TotalOfOne
    <2> QED
        BY <1>2, <1>3, <1>5, <2>3
  <1> QED
      BY <1>4, <1>5

LEMMA NothingOpen == \A t, s : OpenAt({}, t, s) = 0 /\ ForgotAt({}, t, s) = 0
  <1>1. SUFFICES ASSUME NEW t, NEW s PROVE OpenAt({}, t, s) = 0 /\ ForgotAt({}, t, s) = 0
      OBVIOUS
  <1>2. OpenAt({}, t, s) = 0
    <2>1. {h \in {} : t[h.leaf].server = s} = {}
        OBVIOUS
    <2> QED
        BY <2>1, FS_EmptySet DEF OpenAt
  <1>3. PICK f : f = [m \in {} |-> IF t[m.leaf].server = s THEN m.n ELSE 0]
      OBVIOUS
  <1>4. f \in [{} -> Nat] /\ \A m \in {} : f[m] = 0
      BY <1>3
  <1>5. Total(f) = 0
      BY <1>4, TotalZero
  <1> QED
      BY <1>2, <1>3, <1>5 DEF ForgotAt

LEMMA ServerInvInit == Init => ServerInv
  <1>1. SUFFICES ASSUME Init PROVE ServerInv
      OBVIOUS
  <1>2. PICK S \in SUBSET disk : sLeaf = Looked(S, TRUE) /\ cLeaf = Looked(S, FALSE)
      BY <1>1 DEF Init
  <1>3. IsFiniteSet(S) /\ S \subseteq Files
    <2>1. disk \subseteq Files /\ IsFiniteSet(Files)
        BY <1>1, RemoteTreeAssumption DEF Init
    <2> QED
        BY <2>1, FS_Subset
  <1>4. PICK n \in Nat : n = Cardinality(S)
      BY <1>3, LookedFacts
  <1>5. /\ DOMAIN sLeaf = 1..(n + 1) /\ OneOfAName(sLeaf)
        /\ \A i \in DOMAIN sLeaf : sLeaf[i].linked /\ sLeaf[i].refs = 1
      BY <1>2, <1>3, <1>4, LookedFacts
  <1>6. DOMAIN cLeaf = 1..(n + 1) /\ \A i \in DOMAIN cLeaf : cLeaf[i].server = i
      BY <1>2, <1>3, <1>4, LookedFacts
  <1>7. /\ events = <<>> /\ deleted = {} /\ leaked = 0 /\ sQueue = <<>> /\ cQueue = <<>>
        /\ reqs = {} /\ opened = {} /\ forgetting = {} /\ fault = "none"
        /\ known = [c \in DOMAIN cLeaf |-> 1]
      BY <1>1 DEF Init
  <1>8. DiskInv
    <2>1. OneOfAll(sLeaf)
        BY <1>5 DEF OneOfAll, OneOfAName
    <2> QED
        BY <1>5, <1>7, <2>1 DEF DiskInv, GoneNames, FreshNames
  <1>9. PlacedJobs
      BY <1>7 DEF PlacedJobs, Placed
  <1>10. ASSUME NEW s \in Nat \ {0} PROVE Balanced(s)
    <2>1. Moving(cQueue, sQueue, cLeaf, s) = 0
        BY <1>7, SumEmpty DEF Moving
    <2>2. KnownAt(known, cLeaf, s) = IF s \in 1..(n + 1) THEN 1 ELSE 0
      <3>1. PICK m \in Nat : m = n + 1
          OBVIOUS
      <3>2. known = [c \in 1..m |-> 1] /\ \A c \in 1..m : cLeaf[c].server = c
          BY <1>6, <1>7, <3>1
      <3>3. KnownAt(known, cLeaf, s) = IF s \in 1..m THEN 1 ELSE 0
          BY <3>2, OnceEach
      <3> QED
          BY <3>1, <3>3
    <2>3. OpenAt(opened, cLeaf, s) = 0 /\ ForgotAt(forgetting, cLeaf, s) = 0
        BY <1>7, NothingOpen
    <2>4. RefsOf(sLeaf, s) = IF s \in 1..(n + 1) THEN 1 ELSE 0
        BY <1>5 DEF RefsOf
    <2>5. LeakedAt(leaked, s) = 0
        BY <1>7 DEF LeakedAt
    <2> QED
        BY <2>1, <2>2, <2>3, <2>4, <2>5 DEF Balanced, Resting
  <1> QED
      BY <1>7, <1>8, <1>9, <1>10 DEF ServerInv, Reaches, Balance

\* The server's names stay apart while none is created again, its jobs name the server leaves that
\* their requests' client leaves stand for, and each server leaf's count is what is on its way, what
\* the kernel holds and what failed opendirs have left.
THEOREM ServerInvariantHolds == Spec => []ServerInv
  BY InvariantHolds, ServerInvInit, ServerInvNext, PTL DEF Spec

LEMMA HeldIsResting ==
    ASSUME Inv, forgetting = {}, NEW s
    PROVE  Held(s) = Resting(known, opened, forgetting, cLeaf, s) /\ Held(s) \in Nat
  <1>1. PICK D, E : D = DOMAIN known /\ E = DOMAIN cLeaf
      OBVIOUS
  <1>2. D \subseteq E /\ known \in [D -> Nat]
      BY <1>1, BalanceTypes
  <1>3. PICK f : f = [c \in D |-> IF cLeaf[c].server = s THEN known[c] ELSE 0]
      OBVIOUS
  <1>4. PICK g : g = [c \in E |-> IF cLeaf[c].server = s THEN Lookups(c) ELSE 0]
      OBVIOUS
  <1>5. f \in [D -> Nat] /\ g \in [E -> Nat] /\ \A c \in E : g[c] = IF c \in D THEN f[c] ELSE 0
      BY <1>1, <1>2, <1>3, <1>4 DEF Lookups
  <1>6. Total(g) = KnownAt(known, cLeaf, s)
      BY <1>1, <1>2, <1>3, <1>5, TotalPad DEF KnownAt
  <1>7. Held(s) = KnownAt(known, cLeaf, s) + OpenAt(opened, cLeaf, s)
      BY <1>1, <1>4, <1>6 DEF Held, OpenAt
  <1>8. ForgotAt(forgetting, cLeaf, s) = 0
      BY NothingOpen
  <1> QED
      BY <1>7, <1>8, BalanceTypes, RestingParts

LEMMA ServerInvSafe == Inv /\ ServerInv => ServerLeavesSafe /\ ServerRefsCounted
  <1>1. SUFFICES ASSUME Inv, ServerInv PROVE ServerLeavesSafe /\ ServerRefsCounted
      OBVIOUS
  <1>2. ServerLeavesSafe
      BY <1>1 DEF ServerInv, Reaches, ServerLeavesSafe
  <1>3. ServerRefsCounted
    <2>1. SUFFICES ASSUME Quiet, ~recreated, NEW s \in DOMAIN sLeaf
                   PROVE  sLeaf[s].refs = Held(s) + (IF s = Dir THEN leaked ELSE 0)
        BY DEF ServerRefsCounted
    <2>2. s \in Nat \ {0}
      <3>1. PICK t : t = sLeaf /\ IsTree(t)
          BY <1>1 DEF Inv, TypeInv
      <3> QED
          BY <2>1, <3>1, LeafFields DEF None
    <2>3. Balanced(s)
        BY <1>1, <2>1, <2>2 DEF ServerInv, Reaches, Balance, Running, Quiet
    <2>4. Moving(cQueue, sQueue, cLeaf, s) = 0
        BY <2>1, SumEmpty DEF Moving, Quiet
    <2>5. Held(s) = Resting(known, opened, forgetting, cLeaf, s) /\ Held(s) \in Nat
        BY <1>1, <2>1, HeldIsResting DEF Quiet
    <2>6. sLeaf[s].refs = 0 + Held(s) + LeakedAt(leaked, s)
        BY <2>3, <2>4, <2>5 DEF Balanced, RefsOf
    <2>7. leaked \in Nat
        BY <1>1, BalanceTypes
    <2> QED
        BY <2>5, <2>6, <2>7 DEF LeakedAt
  <1> QED
      BY <1>2, <1>3

\* As long as no name is created again, no message of a client makes the server use a leaf that is
\* gone, and no forget or release takes off more than ResponseLookupJob and the others have counted.
THEOREM ServerLeavesAlwaysSafe == Spec => []ServerLeavesSafe
  BY InvariantHolds, ServerInvariantHolds, ServerInvSafe, PTL

\* When no message is on its way, the server's count of a leaf is what the kernel holds through the
\* client's leaves, and on the directory what failed opendirs have left: no reference is lost.
THEOREM ServerRefsAlwaysCounted == Spec => []ServerRefsCounted
  BY InvariantHolds, ServerInvariantHolds, ServerInvSafe, PTL
=============================================================================
