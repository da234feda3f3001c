----------------------------- MODULE MainProofs -----------------------------
(***************************************************************************)
(* The shutdown of init.c and mnt.c, for any disks mounted in any tree and *)
(* any number of processes.                                                *)
(***************************************************************************)
EXTENDS Main, SequenceTheorems, TLAPS

-----------------------------------------------------------------------------
(* Sequences of mount points.                                               *)

Distinct(m) == \A i, j \in 1 .. Len(m) : i # j => m[i] # m[j]

(* What a mount point is mounted in comes before it (after it).             *)
ParentsFirst(m) ==
  \A i \in 1 .. Len(m) : m[i] = "/" \/ \E j \in 1 .. i - 1 : m[j] = Parent(m[i])

ParentsLast(m) ==
  \A i \in 1 .. Len(m) : m[i] = "/" \/ \E j \in i + 1 .. Len(m) : m[j] = Parent(m[i])

(* Only the mount point itself goes away.                                   *)
LEMMA RemoveAtElements ==
  ASSUME NEW S, NEW m \in Seq(S), NEW k \in 1 .. Len(m)
  PROVE  /\ RemoveAt(m, k) \in Seq(S)
         /\ Len(RemoveAt(m, k)) = Len(m) - 1
         /\ \A i \in 1 .. Len(m) - 1 :
              RemoveAt(m, k)[i] = IF i < k THEN m[i] ELSE m[i + 1]
<1> DEFINE a == SubSeq(m, 1, k - 1)
           b == SubSeq(m, k + 1, Len(m))
<1>0. Len(m) \in Nat
  OBVIOUS
<1>1. a \in Seq(S) /\ Len(a) = k - 1 /\ \A i \in 1 .. k - 1 : a[i] = m[i]
  BY <1>0, SubSeqProperties
<1>2. b \in Seq(S) /\ Len(b) = Len(m) - k /\ \A i \in 1 .. Len(m) - k : b[i] = m[i + k]
  BY <1>0, SubSeqProperties
<1>3. RemoveAt(m, k) = a \o b
  BY DEF RemoveAt
<1> HIDE DEF a, b
<1>4. a \o b \in Seq(S) /\ Len(a \o b) = Len(m) - 1
  <2>1. a \o b \in Seq(S) /\ Len(a \o b) = Len(a) + Len(b)
    BY <1>1, <1>2, ConcatProperties
  <2>2. Len(a) + Len(b) = Len(m) - 1
    BY <1>0, <1>1, <1>2
  <2> QED
    BY <2>1, <2>2
<1>5. ASSUME NEW i \in 1 .. Len(m) - 1
      PROVE  (a \o b)[i] = IF i < k THEN m[i] ELSE m[i + 1]
  <2>1. i \in 1 .. Len(a) + Len(b)
    BY <1>0, <1>1, <1>2
  <2>2. (a \o b)[i] = IF i <= Len(a) THEN a[i] ELSE b[i - Len(a)]
    BY <1>1, <1>2, <2>1, ConcatProperties
  <2>3. CASE i < k
    BY <1>0, <1>1, <2>2, <2>3
  <2>4. CASE i >= k
    <3> DEFINE j == i - (k - 1)
    <3>1. j \in 1 .. Len(m) - k /\ j + k = i + 1 /\ ~(i <= k - 1)
      BY <1>0, <2>4
    <3>2. (a \o b)[i] = b[j]
      BY <1>1, <2>2, <3>1
    <3>3. b[j] = m[i + 1]
      BY <1>2, <3>1
    <3> QED
      BY <3>1, <3>2, <3>3, <2>4
  <2>5. i < k \/ i >= k
    BY <1>0
  <2> QED
    BY <2>3, <2>4, <2>5
<1> QED
  BY <1>3, <1>4, <1>5

(* Unmounting takes one file system out and leaves a tree.                  *)
LEMMA UnmountOne ==
  ASSUME NEW d \in Mounted \ {"/"}, mounts \in Seq(Dirs), Distinct(mounts),
         ParentsFirst(mounts), Below(d) = {}
  PROVE  /\ Without(d) \in Seq(Dirs)
         /\ Distinct(Without(d))
         /\ ParentsFirst(Without(d))
         /\ Range(Without(d)) = Mounted \ {d}
<1> DEFINE k == CHOOSE i \in DOMAIN mounts : mounts[i] = d
           w == RemoveAt(mounts, k)
<1>1. k \in 1 .. Len(mounts) /\ mounts[k] = d
  BY DEF Mounted, Range
<1>2. w = Without(d)
  BY DEF Without
<1> HIDE DEF k
<1>3. /\ w \in Seq(Dirs)
      /\ Len(w) = Len(mounts) - 1
      /\ \A i \in 1 .. Len(mounts) - 1 :
           w[i] = IF i < k THEN mounts[i] ELSE mounts[i + 1]
  BY <1>1, RemoveAtElements
<1> HIDE DEF w
<1>0. Len(mounts) \in Nat
  OBVIOUS
<1>4. Distinct(w)
  BY <1>0, <1>1, <1>3 DEF Distinct
<1>5. ParentsFirst(w)
  <2> SUFFICES ASSUME NEW i \in 1 .. Len(w), w[i] # "/"
               PROVE  \E j \in 1 .. i - 1 : w[j] = Parent(w[i])
    BY DEF ParentsFirst
  <2> DEFINE h == IF i < k THEN i ELSE i + 1
  <2>1. h \in 1 .. Len(mounts) /\ mounts[h] = w[i] /\ h # k
    BY <1>0, <1>1, <1>3
  <2>2. PICK g \in 1 .. h - 1 : mounts[g] = Parent(mounts[h])
    BY <2>1 DEF ParentsFirst
  <2>3. g # k
    BY <2>1, <2>2, <1>1 DEF Below, Mounted, Range
  <2>4. CASE g < k
    BY <1>0, <1>1, <1>3, <2>1, <2>2, <2>4
  <2>5. CASE g > k
    <3>1. g - 1 \in 1 .. i - 1 /\ w[g - 1] = mounts[g]
      BY <1>0, <1>1, <1>3, <2>1, <2>2, <2>5
    <3> QED
      BY <3>1, <2>1, <2>2
  <2> QED
    BY <2>2, <2>3, <2>4, <2>5, <1>1
<1>6. Range(w) = Mounted \ {d}
  <2>1. ASSUME NEW i \in 1 .. Len(w) PROVE w[i] \in Mounted \ {d}
    BY <1>0, <1>1, <1>3, <2>1 DEF Mounted, Range, Distinct
  <2>2. ASSUME NEW e \in Mounted \ {d} PROVE \E i \in 1 .. Len(w) : w[i] = e
    <3>1. PICK i \in 1 .. Len(mounts) : mounts[i] = e
      BY DEF Mounted, Range
    <3>2. CASE i < k
      BY <1>0, <1>1, <1>3, <3>1, <3>2
    <3>3. CASE i > k
      <4>1. i - 1 \in 1 .. Len(w) /\ w[i - 1] = e
        BY <1>0, <1>1, <1>3, <3>1, <3>3
      <4> QED
        BY <4>1
    <3> QED
      BY <1>1, <3>1, <3>2, <3>3
  <2> QED
    BY <2>1, <2>2, <1>3 DEF Range
<1> QED
  BY <1>2, <1>3, <1>4, <1>5, <1>6

(* The order of unmounting.                                                 *)
LEMMA ReverseOrder ==
  ASSUME NEW m \in Seq(Dirs), Distinct(m), ParentsFirst(m)
  PROVE  /\ Reverse(m) \in Seq(Dirs)
         /\ Distinct(Reverse(m))
         /\ ParentsLast(Reverse(m))
         /\ Range(Reverse(m)) = Range(m)
<1> DEFINE n == Len(m)
           r == Reverse(m)
<1>0. n \in Nat
  OBVIOUS
<1>1. r \in Seq(Dirs) /\ Len(r) = n /\ \A i \in 1 .. n : r[i] = m[(n - i) + 1]
  BY <1>0, IsASeq DEF Reverse
<1> HIDE DEF r, n
<1>2. Distinct(r)
  BY <1>0, <1>1 DEF Distinct, n
<1>3. ParentsLast(r)
  <2> SUFFICES ASSUME NEW i \in 1 .. n, r[i] # "/"
               PROVE  \E j \in i + 1 .. n : r[j] = Parent(r[i])
    BY <1>1 DEF ParentsLast
  <2>1. (n - i) + 1 \in 1 .. n /\ r[i] = m[(n - i) + 1]
    BY <1>0, <1>1
  <2>2. PICK g \in 1 .. n - i : m[g] = Parent(r[i])
    BY <1>0, <2>1 DEF ParentsFirst, n
  <2>3. (n - g) + 1 \in i + 1 .. n /\ r[(n - g) + 1] = m[g]
    BY <1>0, <1>1, <2>2
  <2> QED
    BY <2>2, <2>3
<1>4. Range(r) = Range(m)
  <2>1. ASSUME NEW i \in 1 .. n PROVE (n - i) + 1 \in 1 .. n /\ (n - ((n - i) + 1)) + 1 = i
    BY <1>0
  <2>2. DOMAIN r = 1 .. n /\ DOMAIN m = 1 .. n
    BY <1>1 DEF n
  <2>3. \A i \in 1 .. n : r[i] \in Range(m) /\ m[i] \in Range(r)
    BY <1>1, <2>1, <2>2 DEF Range
  <2> QED
    BY <2>2, <2>3 DEF Range
<1> QED
  BY <1>1, <1>2, <1>3, <1>4 DEF r

-----------------------------------------------------------------------------
(* The inductive invariant.                                                 *)

(* Only processes that run have children, and whatever set of processes one *)
(* takes, one of them has its parent outside: no process is cut off from    *)
(* tinit, so that without children of tinit there is no process at all.     *)
ProcsOK ==
  /\ parent \in [Procs -> Procs \cup {"tinit", "gone"}]
  /\ zombie \subseteq Left
  /\ killed \subseteq Procs
  /\ \A p \in Procs : parent[p] \in Running \cup {"tinit", "gone"}
  /\ \A S \in SUBSET Left : S # {} => \E p \in S : parent[p] \notin S

(* Where mnt.c can be while main() is where it is.                          *)
PhaseOK ==
  /\ pc = "boot" => at \in {"mount", "failed", "idle"}
  /\ pc = "loop" => at = "idle"
  /\ pc \in {"kill", "wait"} => at \in {"failed", "idle"}
  /\ pc = "umount" => at \in {"points", "types", "walk", "done", "crashed"}
  /\ Ended => at = "done"
  /\ pc = "umount" \/ Ended => Left = {}

TableOK == mounts \in Seq(Dirs) /\ Distinct(mounts) /\ ParentsFirst(mounts)

(* The table and what is left to mount are those of mnt_mount_all().        *)
AtBoot == <<"/", "/proc", "/sys", "/dev", "/dev/mqueue", "/run">>

BootOK ==
  at = "mount" =>
    /\ points \in Seq(Dirs)
    /\ Len(mounts) \in 1 .. 6 /\ Len(mounts) + Len(points) = 6
    /\ \A i \in 1 .. Len(mounts) : mounts[i] = AtBoot[i]
    /\ \A i \in 1 .. Len(points) : points[i] = AtBoot[Len(mounts) + i]

(* What is left of a mount point once it has been dealt with.               *)
Settled(d) ==
  \/ d = "/" \/ Type(d) \in Skipped \/ d \in told
  \/ d \in ro /\ (d \in open \/ Below(d) # {})

WalkOK ==
  at \in {"types", "walk"} =>
    /\ points \in Seq(Dirs) /\ Distinct(points) /\ ParentsLast(points)
    /\ Range(points) \subseteq Mounted
    /\ TooLong \cap Mounted \subseteq told
    /\ \A d \in Mounted \ Range(points) : Settled(d)

TypesOK ==
  /\ at = "types" => errno = "EAGAIN"
  /\ at = "walk" => unread \/ types = Listed

DoneOK ==
  at = "done" => \/ "table" \in told
                 \/ "/" \in ro \cup told /\ \A d \in Mounted : Settled(d)

MntOK == MntTypeOK /\ TableOK /\ BootOK /\ WalkOK /\ TypesOK /\ DoneOK /\ TypesFound

IInv == MntOK /\ MainTypeOK /\ ProcsOK /\ PhaseOK

(* The mount table is a tree.                                               *)
LEMMA TreeOfTable ==
  ASSUME NEW m \in Seq(Dirs), ParentsFirst(m)
  PROVE  \A d \in Range(m) : Parent(d) \in Range(m)
<1> SUFFICES ASSUME NEW d \in Range(m) PROVE Parent(d) \in Range(m)
  OBVIOUS
<1>1. PICK i \in 1 .. Len(m) : m[i] = d
  BY DEF Range
<1>2. CASE d = "/"
  <2>1. "/" \notin Disks
    BY MntAssumption
  <2> QED
    BY <1>2, <2>1 DEF Parent
<1>3. CASE d # "/"
  <2>1. PICK j \in 1 .. i - 1 : m[j] = Parent(m[i])
    BY <1>1, <1>3 DEF ParentsFirst
  <2>2. j \in 1 .. Len(m)
    OBVIOUS
  <2> QED
    BY <1>1, <2>1, <2>2 DEF Range
<1> QED
  BY <1>2, <1>3

-----------------------------------------------------------------------------
(* The steps of the processes.                                              *)

LEMMA ForkGood ==
  ASSUME ProcsOK, NEW p \in Procs, NEW q \in Procs \cup {"tinit"}, Fork(q, p)
  PROVE  ProcsOK'
<1>1. /\ q \in {"tinit"} \cup Running /\ parent[p] = "gone"
      /\ parent' = [parent EXCEPT ![p] = q] /\ zombie' = zombie /\ killed' = killed
  BY DEF Fork
<1>2. p \notin Left /\ Left' = Left \cup {p} /\ q # p /\ Running \subseteq Left
  BY <1>1, ProcAssumption DEF Left, ProcsOK, Running
<1>3. Running' = Running \cup {p}
  BY <1>1, <1>2 DEF Running, Left, ProcsOK
<1>4. \A r \in Procs : parent[r] # p
  BY <1>2, ProcAssumption DEF ProcsOK, Running
<1>5. ASSUME NEW S \in SUBSET Left', S # {} PROVE \E r \in S : parent'[r] \notin S
  <2>1. CASE S \ {p} = {}
    BY <1>1, <1>2, <1>5, <2>1 DEF ProcsOK
  <2>2. CASE S \ {p} # {}
    <3>1. PICK r \in S \ {p} : parent[r] \notin S \ {p}
      BY <1>2, <2>2 DEF ProcsOK
    <3>2. parent[r] # p /\ r \in Procs
      BY <1>2, <1>4 DEF Left
    <3> QED
      BY <1>1, <3>1, <3>2 DEF ProcsOK
  <2> QED
    BY <2>1, <2>2
<1>6. \A r \in Procs : parent'[r] \in Running' \cup {"tinit", "gone"}
  BY <1>1, <1>3 DEF ProcsOK
<1>7. parent' \in [Procs -> Procs \cup {"tinit", "gone"}] /\ zombie' \subseteq Left'
  BY <1>1, <1>2 DEF ProcsOK
<1> QED
  BY <1>1, <1>5, <1>6, <1>7 DEF ProcsOK

LEMMA DieGood ==
  ASSUME ProcsOK, NEW p \in Procs, Die(p)
  PROVE  ProcsOK' /\ Left' = Left
<1>1. /\ p \in Running /\ zombie' = zombie \cup {p} /\ killed' = killed
      /\ parent' = [q \in Procs |-> IF parent[q] = p THEN "tinit" ELSE parent[q]]
  BY DEF Die
<1>2. p # "gone" /\ p # "tinit"
  BY ProcAssumption
<1>3. Left' = Left
  BY <1>1, <1>2 DEF Left, ProcsOK
<1>4. Running' = Running \ {p}
  BY <1>1, <1>2 DEF Running, ProcsOK
<1>5. ASSUME NEW S \in SUBSET Left', S # {} PROVE \E r \in S : parent'[r] \notin S
  <2>1. PICK r \in S : parent[r] \notin S
    BY <1>3, <1>5 DEF ProcsOK
  <2>2. r \in Procs /\ "tinit" \notin S
    BY <1>3, ProcAssumption DEF Left
  <2> QED
    BY <1>1, <2>1, <2>2
<1>6. \A r \in Procs : parent'[r] \in Running' \cup {"tinit", "gone"}
  BY <1>1, <1>4 DEF ProcsOK
<1>7. parent' \in [Procs -> Procs \cup {"tinit", "gone"}] /\ zombie' \subseteq Left'
  BY <1>1, <1>3 DEF ProcsOK, Running, Left
<1> QED
  BY <1>1, <1>3, <1>5, <1>6, <1>7 DEF ProcsOK

LEMMA WaitGood ==
  ASSUME ProcsOK, NEW p \in Procs, WaitChild(p)
  PROVE  ProcsOK'
<1>1. /\ p \in zombie /\ zombie' = zombie \ {p} /\ killed' = killed
      /\ parent' = [parent EXCEPT ![p] = "gone"]
  BY DEF WaitChild
<1>2. Left' = Left \ {p} /\ Running' = Running
  BY <1>1, ProcAssumption DEF Left, Running, ProcsOK
<1>3. ASSUME NEW S \in SUBSET Left', S # {} PROVE \E r \in S : parent'[r] \notin S
  <2>1. PICK r \in S : parent[r] \notin S
    BY <1>2, <1>3 DEF ProcsOK
  <2> QED
    BY <1>1, <1>2, <2>1 DEF ProcsOK
<1>4. \A r \in Procs : parent'[r] \in Running' \cup {"tinit", "gone"}
  BY <1>1, <1>2 DEF ProcsOK
<1>5. parent' \in [Procs -> Procs \cup {"tinit", "gone"}] /\ zombie' \subseteq Left'
  BY <1>1, <1>2 DEF ProcsOK
<1> QED
  BY <1>1, <1>3, <1>4, <1>5 DEF ProcsOK

(* waitid() finds no child only when nothing runs any more.                 *)
LEMMA NoChildNoProcess ==
  ASSUME ProcsOK, ChildrenOf["tinit"] = {}
  PROVE  Left = {}
<1> SUFFICES ASSUME Left # {} PROVE FALSE
  OBVIOUS
<1>1. PICK p \in Left : parent[p] \notin Left
  BY DEF ProcsOK
<1>2. p \in Procs /\ parent[p] # "gone" /\ parent[p] # "tinit"
  BY <1>1 DEF Left, ChildrenOf
<1> QED
  BY <1>1, <1>2 DEF ProcsOK, Running, Left

-----------------------------------------------------------------------------
(* The steps of mnt.c.                                                      *)

LEMMA MntFrame ==
  ASSUME MntOK, UNCHANGED mntvars
  PROVE  MntOK'
BY DEF MntOK, mntvars, MntTypeOK, TableOK, BootOK, WalkOK, TypesOK, DoneOK, TypesFound,
       Settled, Mounted, Below

LEMMA InitialDirs ==
  /\ \A i \in 1 .. 6 : AtBoot[i] \in Dirs
  /\ \A i, j \in 1 .. 6 : i # j => AtBoot[i] # AtBoot[j]
  /\ \A i \in 1 .. 6 : i = 1 \/ \E j \in 1 .. i - 1 : AtBoot[j] = Parent(AtBoot[i])
<1>1. Range(Initial) = {"/proc", "/sys", "/dev", "/dev/mqueue", "/run"}
  <2>1. DOMAIN Initial = 1 .. 5
    BY DEF Initial
  <2> QED
    BY <2>1 DEF Range, Initial
<1>2. \A i \in 1 .. 6 : AtBoot[i] \in {"/"} \cup Range(Initial)
  BY <1>1 DEF AtBoot
<1>3. \A i, j \in 1 .. 6 : i # j => AtBoot[i] # AtBoot[j]
  BY DEF AtBoot
<1>4. \A i \in 1 .. 6 : AtBoot[i] \notin Disks
  BY <1>2, MntAssumption
<1>5. \A i \in 1 .. 6 : Parent(AtBoot[i]) = IF i = 5 THEN AtBoot[4] ELSE AtBoot[1]
  BY <1>4 DEF Parent, AtBoot
<1>6. \A i \in 1 .. 6 : i = 1 \/ \E j \in 1 .. i - 1 : AtBoot[j] = Parent(AtBoot[i])
  BY <1>5
<1> QED
  BY <1>2, <1>3, <1>6 DEF Dirs

(* Appending a mount point whose parent is there.                           *)
LEMMA MountOne ==
  ASSUME TableOK, NEW d \in Dirs \ Mounted, Parent(d) \in Mounted, mounts' = Append(mounts, d)
  PROVE  TableOK' /\ Mounted' = Mounted \cup {d}
<1> DEFINE n == Len(mounts)
<1>1. n \in Nat /\ mounts \in Seq(Dirs) /\ DOMAIN mounts = 1 .. n
  BY DEF TableOK
<1>2. /\ mounts' \in Seq(Dirs) /\ Len(mounts') = n + 1 /\ mounts'[n + 1] = d
      /\ \A i \in 1 .. n : mounts'[i] = mounts[i]
  BY <1>1, AppendProperties
<1>3. DOMAIN mounts' = 1 .. n + 1
  BY <1>2
<1>4. \A i \in 1 .. n : mounts[i] \in Mounted /\ mounts[i] # d
  BY <1>1 DEF Mounted, Range
<1>5. PICK k \in 1 .. n : mounts[k] = Parent(d)
  BY <1>1 DEF Mounted, Range
<1> HIDE DEF n
<1>6. Distinct(mounts')
  BY <1>1, <1>2, <1>4 DEF TableOK, Distinct, n
<1>7. ParentsFirst(mounts')
  <2> SUFFICES ASSUME NEW i \in 1 .. n + 1, mounts'[i] # "/"
               PROVE  \E j \in 1 .. i - 1 : mounts'[j] = Parent(mounts'[i])
    BY <1>2 DEF ParentsFirst
  <2>1. CASE i = n + 1
    BY <1>1, <1>2, <1>5, <2>1
  <2>2. CASE i # n + 1
    <3>1. i \in 1 .. n
      BY <1>1, <2>2
    <3>2. PICK j \in 1 .. i - 1 : mounts[j] = Parent(mounts[i])
      BY <1>2, <3>1 DEF TableOK, ParentsFirst, n
    <3> QED
      BY <1>1, <1>2, <3>1, <3>2
  <2> QED
    BY <2>1, <2>2
<1>8. Mounted' = Mounted \cup {d}
  BY <1>1, <1>2, <1>3 DEF Mounted, Range
<1> QED
  BY <1>2, <1>6, <1>7, <1>8 DEF TableOK

LEMMA MountPseudoGood ==
  ASSUME MntOK, MountPseudo
  PROVE  MntOK' /\ at' \in {"mount", "failed"}
<1>1. CASE at' = "failed"
  BY <1>1 DEF MountPseudo, MntOK, MntTypeOK, TableOK, BootOK, WalkOK, TypesOK, DoneOK,
     TypesFound, Mounted
<1>2. CASE mounts' = Append(mounts, Head(points)) /\ points' = Tail(points) /\ at' = at
  <2> DEFINE n == Len(mounts)
             d == Head(points)
  <2>1. /\ at = "mount" /\ points # <<>> /\ points \in Seq(Dirs) /\ mounts \in Seq(Dirs)
        /\ n \in 1 .. 6 /\ n + Len(points) = 6
        /\ \A i \in 1 .. n : mounts[i] = AtBoot[i]
        /\ \A i \in 1 .. Len(points) : points[i] = AtBoot[n + i]
    BY DEF MountPseudo, MntOK, BootOK, TableOK
  <2>2. Len(points) \in 1 .. 5 /\ n \in 1 .. 5
    <3>0. points \in Seq(Dirs) /\ points # <<>>
      BY <2>1
    <3>1. Len(points) \in Nat /\ Len(points) # 0
      BY <3>0
    <3>2. n \in 1 .. 6 /\ n + Len(points) = 6
      BY <2>1
    <3>3. \A l \in Nat, k \in 1 .. 6 : (l # 0 /\ k + l = 6) => l \in 1 .. 5 /\ k \in 1 .. 5
      OBVIOUS
    <3> HIDE DEF n
    <3> QED
      BY <3>1, <3>2, <3>3
  <2>3. d = AtBoot[n + 1] /\ n + 1 \in 2 .. 6
    BY <2>1, <2>2
  <2>4. DOMAIN mounts = 1 .. n
    BY <2>1
  <2> HIDE DEF n, d
  <2>5. d \in Dirs \ Mounted
    BY <2>1, <2>2, <2>3, <2>4, InitialDirs DEF Mounted, Range
  <2>6. PICK j \in 1 .. n : AtBoot[j] = Parent(d)
    BY <2>3, <2>2, InitialDirs
  <2>7. Parent(d) \in Mounted
    BY <2>1, <2>4, <2>6 DEF Mounted, Range
  <2>8. TableOK' /\ Mounted' = Mounted \cup {d}
    BY <1>2, <2>5, <2>7, MountOne DEF MntOK, d
  <2>9. BootOK'
    <3>1. /\ points' \in Seq(Dirs) /\ Len(points') = Len(points) - 1
          /\ \A i \in 1 .. Len(points) - 1 : points'[i] = points[i + 1]
      BY <1>2, <2>1, HeadTailProperties
    <3>2. /\ Len(mounts') = n + 1 /\ mounts'[n + 1] = d
          /\ \A i \in 1 .. n : mounts'[i] = mounts[i]
      BY <1>2, <2>1, AppendProperties DEF n, d
    <3>3. \A i \in 1 .. n + 1 : mounts'[i] = AtBoot[i]
      BY <2>1, <2>2, <2>3, <3>2
    <3>4. ASSUME NEW i \in 1 .. Len(points) - 1
          PROVE  points'[i] = AtBoot[(n + 1) + i]
      <4>1. i + 1 \in 1 .. Len(points) /\ n + (i + 1) = (n + 1) + i
        BY <2>2
      <4> QED
        BY <2>1, <3>1, <4>1
    <3> QED
      BY <2>1, <2>2, <3>1, <3>2, <3>3, <3>4 DEF BootOK
  <2>10. MntTypeOK'
    <3>1. \A e \in Mounted' : Parent(e) \in Mounted'
      BY <2>8, TreeOfTable DEF TableOK, Mounted
    <3>2. mounts' \in Seq(Dirs) /\ points' \in Seq(Dirs)
      BY <1>2, <2>1, <2>8, <2>9 DEF TableOK, BootOK
    <3> QED
      BY <1>2, <3>1, <3>2 DEF MountPseudo, MntOK, MntTypeOK
  <2> QED
    BY <1>2, <2>1, <2>8, <2>9, <2>10 DEF MountPseudo, MntOK, WalkOK, TypesOK, DoneOK, TypesFound
<1> QED
  BY <1>1, <1>2 DEF MountPseudo

LEMMA RemountAtBootGood ==
  ASSUME MntOK, RemountRootAtBoot
  PROVE  MntOK' /\ at' \in {"idle", "failed"}
<1>1. mounts' = mounts /\ Mounted' = Mounted
  BY DEF RemountRootAtBoot, Mounted
<1> QED
  BY <1>1 DEF RemountRootAtBoot, MntOK, MntTypeOK, TableOK, BootOK, WalkOK, TypesOK,
     DoneOK, TypesFound, Dirs

(* While tinit_loop() runs, services mount what they want.                  *)
LEMMA ServiceMountGood ==
  ASSUME MntOK, at = "idle", NEW d \in Disks, ServiceMount(d)
  PROVE  MntOK'
<1>1. d \in Dirs \ Mounted /\ Parent(d) \in Mounted
  BY DEF ServiceMount, Dirs, Parent
<1>2. TableOK' /\ Mounted' = Mounted \cup {d}
  BY <1>1, MountOne DEF ServiceMount, MntOK
<1>3. \A e \in Mounted' : Parent(e) \in Mounted'
  BY <1>2, TreeOfTable DEF TableOK, Mounted
<1>4. MntTypeOK'
  BY <1>2, <1>3 DEF ServiceMount, MntOK, MntTypeOK, TableOK
<1> QED
  BY <1>2, <1>4 DEF ServiceMount, MntOK, BootOK, WalkOK, TypesOK, DoneOK, TypesFound

LEMMA ServiceRemountGood ==
  ASSUME MntOK, at = "idle", ServiceRemountRoot
  PROVE  MntOK'
<1>1. mounts' = mounts /\ Mounted' = Mounted
  BY DEF ServiceRemountRoot, Mounted
<1> QED
  BY <1>1 DEF ServiceRemountRoot, MntOK, MntTypeOK, TableOK, BootOK, WalkOK, TypesOK,
     DoneOK, TypesFound

LEMMA LoadPointsGood ==
  ASSUME MntOK, LoadPoints
  PROVE  MntOK' /\ at' \in {"types", "done"}
<1>1. mounts' = mounts /\ Mounted' = Mounted /\ Range(mounts) = Mounted
  BY DEF LoadPoints, Mounted
<1>2. CASE at' = "done" /\ told' = told \cup {"table"} /\ points' = points
  BY <1>1, <1>2 DEF LoadPoints, MntOK, MntTypeOK, TableOK, BootOK, WalkOK, TypesOK,
     DoneOK, TypesFound
<1>3. CASE /\ points' = Reverse(mounts) /\ told' = told \cup (TooLong \cap Mounted)
           /\ errno' = "EAGAIN" /\ at' = "types"
  <2>1. /\ points' \in Seq(Dirs) /\ Distinct(points') /\ ParentsLast(points')
        /\ Range(points') = Mounted'
    BY <1>1, <1>3, ReverseOrder DEF MntOK, TableOK
  <2>2. WalkOK'
    BY <1>1, <1>3, <2>1 DEF WalkOK
  <2>3. TooLong \cap Mounted \subseteq Dirs
    BY MntAssumption DEF Dirs
  <2>4. MntTypeOK'
    BY <1>1, <1>3, <2>1, <2>3 DEF LoadPoints, MntOK, MntTypeOK
  <2> QED
    BY <1>1, <1>3, <2>2, <2>4 DEF LoadPoints, MntOK, TableOK, BootOK, TypesOK, DoneOK,
       TypesFound
<1> QED
  BY <1>2, <1>3 DEF LoadPoints

LEMMA LoadTypesGood ==
  ASSUME MntOK, LoadTypes
  PROVE  MntOK' /\ at' = "walk"
<1>1. /\ mounts' = mounts /\ Mounted' = Mounted /\ at = "types" /\ at' = "walk"
      /\ points' = points /\ told' = told /\ ro' = ro /\ open' = open
      /\ \A d : Below(d)' = Below(d)
  BY DEF LoadTypes, Mounted, Below
<1>2. WalkOK'
  BY <1>1 DEF MntOK, WalkOK, Settled
<1>3. TypesOK'
  BY <1>1 DEF LoadTypes, MntOK, TypesOK
<1>4. MntTypeOK'
  BY <1>1 DEF LoadTypes, MntOK, MntTypeOK
<1> QED
  BY <1>1, <1>2, <1>3, <1>4 DEF MntOK, TableOK, BootOK, DoneOK, TypesFound

LEMMA RemountRootGood ==
  ASSUME MntOK, RemountRoot
  PROVE  MntOK' /\ at' = "done"
<1>1. /\ mounts' = mounts /\ Mounted' = Mounted /\ at = "walk" /\ at' = "done"
      /\ points = <<>> /\ points' = points /\ open' = open
      /\ types' = types /\ unread' = unread /\ errno' = errno
      /\ \A d : Below(d)' = Below(d)
  BY DEF RemountRoot, RemountReadOnly, Mounted, Below
<1>2. \/ ro' = ro \cup {"/"} /\ told' = told
      \/ told' = told \cup {"/"} /\ ro' = ro
  BY DEF RemountRoot, RemountReadOnly
<1>3. Range(points) = {}
  BY <1>1 DEF Range
<1>4. \A d \in Mounted : Settled(d)'
  BY <1>1, <1>2, <1>3 DEF MntOK, WalkOK, Settled
<1>5. MntTypeOK'
  BY <1>1, <1>2 DEF MntOK, MntTypeOK, Dirs
<1> QED
  BY <1>1, <1>2, <1>4, <1>5 DEF MntOK, TableOK, BootOK, WalkOK, TypesOK, DoneOK, TypesFound

(* One round of the loop of mnt_umount_all().                               *)
LEMMA UmountPointGood ==
  ASSUME MntOK, UmountPoint(FALSE)
  PROVE  MntOK' /\ at' \in {"walk", "crashed"}
<1>0. PICK d, rest : d = Head(points) /\ rest = Tail(points)
  OBVIOUS
<1>1. /\ at = "walk" /\ points \in Seq(Dirs) /\ points # <<>> /\ points' = rest
      /\ Distinct(points) /\ ParentsLast(points) /\ Range(points) \subseteq Mounted
      /\ TooLong \cap Mounted \subseteq told
      /\ \A e \in Mounted \ Range(points) : Settled(e)
      /\ UNCHANGED <<open, types, errno, unread>>
  BY <1>0 DEF UmountPoint, MntOK, WalkOK
<1>2. /\ rest \in Seq(Dirs) /\ Len(rest) = Len(points) - 1 /\ d = points[1]
      /\ \A i \in 1 .. Len(rest) : rest[i] = points[i + 1]
  BY <1>0, <1>1, HeadTailProperties
<1>3. d \in Mounted /\ Range(points) = Range(rest) \cup {d} /\ d \notin Range(rest)
  <2>1. Len(points) \in Nat /\ Len(points) # 0
    BY <1>1
  <2>2. DOMAIN points = 1 .. Len(points) /\ DOMAIN rest = 1 .. Len(points) - 1
    BY <1>1, <1>2
  <2>3. d \in Range(points)
    BY <1>2, <2>1, <2>2 DEF Range
  <2>4. \A i \in 1 .. Len(points) - 1 : rest[i] \in Range(points) /\ rest[i] # d
    BY <1>1, <1>2, <2>1, <2>2 DEF Range, Distinct
  <2>5. \A i \in 2 .. Len(points) : i - 1 \in DOMAIN rest /\ rest[i - 1] = points[i]
    BY <1>2, <2>1, <2>2
  <2>6. \A i \in 1 .. Len(points) : points[i] \in Range(rest) \cup {d}
    BY <1>2, <2>1, <2>5 DEF Range
  <2> QED
    BY <1>1, <2>2, <2>3, <2>4, <2>6 DEF Range
<1>4. Distinct(rest)
  BY <1>1, <1>2 DEF Distinct
<1>5. ParentsLast(rest)
  <2> SUFFICES ASSUME NEW i \in 1 .. Len(rest), rest[i] # "/"
               PROVE  \E j \in i + 1 .. Len(rest) : rest[j] = Parent(rest[i])
    BY DEF ParentsLast
  <2>1. i + 1 \in 1 .. Len(points) /\ rest[i] = points[i + 1] /\ Len(points) \in Nat
    BY <1>1, <1>2
  <2>2. PICK j \in (i + 1) + 1 .. Len(points) : points[j] = Parent(points[i + 1])
    BY <1>1, <2>1 DEF ParentsLast
  <2>3. j - 1 \in i + 1 .. Len(rest) /\ rest[j - 1] = points[j]
    BY <1>2, <2>1, <2>2
  <2> QED
    BY <2>1, <2>2, <2>3
(* No child of what has been dealt with is still to come.                   *)
<1>6. ASSUME NEW e \in Range(points), e # "/"
      PROVE  Parent(e) \in Range(rest)
  <2>0. Len(points) \in Nat
    BY <1>1
  <2>1. PICK i \in 1 .. Len(points) : points[i] = e
    BY <1>1 DEF Range
  <2>2. PICK j \in i + 1 .. Len(points) : points[j] = Parent(e)
    BY <1>1, <1>6, <2>1 DEF ParentsLast
  <2>3. j - 1 \in 1 .. Len(rest) /\ rest[j - 1] = points[j]
    BY <1>2, <2>0, <2>1, <2>2
  <2> QED
    BY <1>2, <2>2, <2>3 DEF Range
<1>7. d \in Dirs
  BY <1>3 DEF MntOK, MntTypeOK, Mounted, Range
(* The mount point stays, and what it is has been told.                     *)
<1>8. ASSUME mounts' = mounts, ro \subseteq ro', ro' \subseteq ro \cup {d},
             told \subseteq told', told' \subseteq told \cup {d},
             at' = "walk", Settled(d)'
      PROVE  MntOK'
  <2>1. Mounted' = Mounted /\ \A e : Below(e)' = Below(e)
    BY <1>8 DEF Mounted, Below
  <2>2. \A e \in Mounted : Settled(e) => Settled(e)'
    BY <1>1, <1>8, <2>1 DEF Settled
  <2>3. WalkOK'
    BY <1>1, <1>2, <1>3, <1>4, <1>5, <1>8, <2>1, <2>2 DEF WalkOK
  <2>4. MntTypeOK'
    BY <1>1, <1>2, <1>7, <1>8, <2>1 DEF MntOK, MntTypeOK
  <2>5. TypesOK' /\ TableOK' /\ BootOK' /\ DoneOK' /\ TypesFound'
    BY <1>1, <1>8, <2>1 DEF MntOK, TypesOK, TableOK, BootOK, DoneOK, TypesFound
  <2> QED
    BY <2>3, <2>4, <2>5 DEF MntOK
<1>9. CASE /\ UNCHANGED <<mounts, ro, told, at>>
           /\ d \in {"/"} \cup TooLong \/ Type(d) \in types \cap Skipped
  <2>1. Settled(d)
    BY <1>1, <1>3, <1>9 DEF Settled
  <2>2. Settled(d)'
    BY <1>1, <1>9, <2>1 DEF Settled, Below, Mounted
  <2> QED
    BY <1>1, <1>8, <1>9, <2>2
<1>10. CASE at' = "crashed" /\ UNCHANGED <<mounts, ro, told>> /\ Type(d) \notin types
  <2>1. Mounted' = Mounted
    BY <1>10 DEF Mounted
  <2>2. TypesFound'
    BY <1>1, <1>3, <1>10, <2>1 DEF MntOK, TypesOK, TypesFound
  <2>3. MntTypeOK'
    BY <1>1, <1>2, <1>10, <2>1 DEF MntOK, MntTypeOK
  <2> QED
    BY <1>10, <2>1, <2>2, <2>3 DEF MntOK, TableOK, BootOK, WalkOK, TypesOK, DoneOK
<1>11. CASE Busy(d, FALSE) /\ RemountReadOnly(d) /\ at' = at
  <2>1. \/ ro' = ro \cup {d} /\ told' = told
        \/ told' = told \cup {d} /\ ro' = ro
    BY <1>11 DEF RemountReadOnly
  <2>2. mounts' = mounts /\ (d \in open \/ Below(d) # {})
    BY <1>11 DEF RemountReadOnly, Busy
  <2>3. Settled(d)'
    BY <1>1, <2>1, <2>2 DEF Settled, Below, Mounted
  <2> QED
    BY <1>1, <1>8, <1>11, <2>1, <2>2, <2>3
<1>12. CASE Umount(d, FALSE) /\ at' = at /\ told' = told \cup {d} /\ mounts' = mounts
  <2>1. Settled(d)' /\ ro' = ro
    BY <1>12 DEF Umount, Settled
  <2> QED
    BY <1>1, <1>8, <1>12, <2>1
<1>13. CASE Umount(d, FALSE) /\ at' = at /\ told' = told /\ mounts' = Without(d) /\ d # "/"
  <2>1. Below(d) = {} /\ ro' = ro
    BY <1>13 DEF Umount, Busy
  <2>2. TableOK' /\ Mounted' = Mounted \ {d}
    BY <1>3, <1>13, <2>1, UnmountOne DEF MntOK, TableOK, Mounted
  <2>3. \A e \in Mounted' : Parent(e) \in Mounted'
    BY <2>2, TreeOfTable DEF TableOK, Mounted
  <2>4. MntTypeOK'
    BY <1>1, <1>2, <1>13, <2>1, <2>2, <2>3 DEF MntOK, MntTypeOK, TableOK
  <2>5. ASSUME NEW e \in Mounted \ Range(points) PROVE Settled(e)'
    <3>1. Settled(e) /\ Parent(d) # e
      BY <1>1, <1>3, <1>6, <1>13
    <3>2. Below(e)' = Below(e)
      BY <2>2, <3>1 DEF Below
    <3> QED
      BY <1>1, <1>13, <2>1, <3>1, <3>2 DEF Settled
  <2>6. WalkOK'
    BY <1>1, <1>2, <1>3, <1>4, <1>5, <1>13, <2>2, <2>5 DEF WalkOK
  <2> QED
    BY <1>1, <1>13, <2>2, <2>4, <2>6 DEF MntOK, BootOK, TypesOK, DoneOK, TypesFound
<1>14. \/ /\ UNCHANGED <<mounts, ro, told, at>>
          /\ d \in {"/"} \cup TooLong \/ Type(d) \in types \cap Skipped
       \/ at' = "crashed" /\ UNCHANGED <<mounts, ro, told>> /\ Type(d) \notin types
       \/ d # "/" /\ (Umount(d, FALSE) \/ (Busy(d, FALSE) /\ RemountReadOnly(d))) /\ at' = at
  BY <1>0 DEF UmountPoint
<1>15. Umount(d, FALSE) => \/ mounts' = Without(d) /\ told' = told
                           \/ told' = told \cup {d} /\ mounts' = mounts
  BY DEF Umount
<1> QED
  BY <1>1, <1>9, <1>10, <1>11, <1>12, <1>13, <1>14, <1>15

-----------------------------------------------------------------------------
(* The steps of main().                                                     *)

LEMMA InitGood == MainInit => IInv
<1> SUFFICES ASSUME MainInit PROVE IInv
  OBVIOUS
<1>1. /\ mounts = <<"/">> /\ points = Initial /\ at = "mount" /\ pc = "boot"
      /\ ro = {} /\ open \subseteq Disks /\ types = {} /\ errno = "other" /\ told = {}
      /\ unread = FALSE /\ zombie = {} /\ killed = {}
      /\ parent = [p \in Procs |-> "gone"]
  BY DEF MainInit, MntInit
<1>2. Len(mounts) = 1 /\ mounts[1] = "/" /\ DOMAIN mounts = 1 .. 1 /\ mounts \in Seq(Dirs)
  BY <1>1 DEF Dirs
<1>3. TableOK
  BY <1>2 DEF TableOK, Distinct, ParentsFirst
<1>4. \A i \in 1 .. 5 : Initial[i] = AtBoot[1 + i]
  BY DEF Initial, AtBoot
<1>5. Len(points) = 5 /\ \A i \in 1 .. 5 : points[i] \in Dirs
  BY <1>1, <1>4, InitialDirs DEF Initial
<1>6. points \in Seq(Dirs)
  BY <1>1, <1>5 DEF Initial
<1>7. BootOK
  BY <1>1, <1>2, <1>4, <1>5, <1>6 DEF BootOK, AtBoot
<1>8. \A d \in Mounted : Parent(d) \in Mounted
  BY <1>2, <1>3, TreeOfTable DEF TableOK, Mounted
<1>9. MntTypeOK
  BY <1>1, <1>2, <1>6, <1>8 DEF MntTypeOK
<1>10. WalkOK /\ TypesOK /\ DoneOK /\ TypesFound /\ PhaseOK
  BY <1>1 DEF WalkOK, TypesOK, DoneOK, TypesFound, PhaseOK, Ended
<1>11. Left = {} /\ Running = {}
  BY <1>1 DEF Left, Running
<1>12. ProcsOK
  BY <1>1, <1>11 DEF ProcsOK
<1> QED
  BY <1>1, <1>3, <1>7, <1>9, <1>10, <1>11, <1>12 DEF IInv, MntOK, MainTypeOK

(* The processes are typed by what is said of them.                         *)
LEMMA TypedProcs ==
  ASSUME MntTypeOK, ProcsOK,
         pc \in {"boot", "loop", "kill", "wait", "umount", "rebooted", "asleep"}
  PROVE  MainTypeOK
BY DEF MainTypeOK, ProcsOK

PcType == pc \in {"boot", "loop", "kill", "wait", "umount", "rebooted", "asleep"}
Core   == MntOK /\ ProcsOK /\ PhaseOK /\ PcType

LEMMA CoreIsInvariant == IInv <=> Core
BY TypedProcs DEF IInv, Core, PcType, MainTypeOK, MntOK

(* mnt.c runs on its own.                                                   *)
LEMMA SameProcs ==
  ASSUME ProcsOK, UNCHANGED <<parent, zombie>>, killed' \in {killed, Left}
  PROVE  ProcsOK' /\ Left' = Left
<1>1. Left' = Left /\ Running' = Running
  BY DEF Left, Running
<1>2. Left \subseteq Procs
  BY DEF Left
<1> QED
  BY <1>1, <1>2 DEF ProcsOK

LEMMA MountingGood ==
  ASSUME Core, Mounting
  PROVE  Core'
<1>1. ProcsOK' /\ pc = "boot" /\ pc' = "boot" /\ at = "mount" /\ MntStep(FALSE)
  BY SameProcs DEF Mounting, mainvars, Core
<1>2. MntOK' /\ at' \in {"mount", "failed", "idle"}
  BY <1>1, MountPseudoGood, RemountAtBootGood
     DEF MntStep, LoadPoints, LoadTypes, UmountPoint, RemountRoot, Core
<1> QED
  BY <1>1, <1>2 DEF Core, PhaseOK, PcType, Ended

LEMMA UnmountingGood ==
  ASSUME Core, Unmounting
  PROVE  Core'
<1>1. /\ ProcsOK' /\ Left' = Left /\ pc = "umount" /\ pc' = "umount" /\ Left = {}
      /\ at \in {"points", "types", "walk", "done", "crashed"} /\ MntStep(Left # {})
  BY SameProcs DEF Unmounting, mainvars, Core, PhaseOK
<1>2. MntStep(FALSE)
  <2>1. (Left # {}) = FALSE
    BY <1>1
  <2> QED
    BY <1>1, <2>1
<1>3. MntOK' /\ at' \in {"types", "walk", "done", "crashed"}
  BY <1>1, <1>2, LoadPointsGood, LoadTypesGood, UmountPointGood, RemountRootGood
     DEF MntStep, MountPseudo, RemountRootAtBoot, Core
<1> QED
  BY <1>1, <1>3 DEF Core, PhaseOK, PcType, Ended

(* All the processes are gone when the unmounting starts.                   *)
LEMMA WaitDoneGood ==
  ASSUME Core, WaitDone
  PROVE  Core'
<1>1. /\ ProcsOK' /\ Left' = Left /\ Left = {} /\ pc' = "umount" /\ at' = "points"
      /\ pc = "wait" /\ at \in {"failed", "idle"}
  BY SameProcs, NoChildNoProcess DEF WaitDone, Core, PhaseOK
<1>2. UNCHANGED <<mounts, ro, open, points, types, errno, told, unread>> /\ Mounted' = Mounted
  BY DEF WaitDone, Mounted
<1>3. MntOK'
  BY <1>1, <1>2 DEF Core, MntOK, MntTypeOK, TableOK, BootOK, WalkOK, TypesOK, DoneOK, TypesFound
<1> QED
  BY <1>1, <1>3 DEF Core, PhaseOK, PcType, Ended

LEMMA NextGood == IInv /\ [MainNext]_mvars => IInv'
<1> SUFFICES ASSUME Core, [MainNext]_mvars PROVE Core'
  BY CoreIsInvariant, PTL
<1>1. CASE Mounting
  BY <1>1, MountingGood
<1>2. CASE BootFailed \/ Setup \/ Kill \/ LoopEnds \/ Reboot
  <2>1. UNCHANGED mntvars /\ at' = at
    BY <1>2 DEF BootFailed, Setup, Kill, LoopEnds, Reboot, mntvars
  <2>2. UNCHANGED <<parent, zombie>> /\ killed' \in {killed, Left}
    BY <1>2 DEF BootFailed, Setup, Kill, LoopEnds, Reboot
  <2>3. MntOK' /\ ProcsOK' /\ Left' = Left
    BY <2>1, <2>2, MntFrame, SameProcs DEF Core
  <2>4. PhaseOK' /\ PcType'
    BY <1>2, <2>1, <2>3 DEF BootFailed, Setup, Kill, LoopEnds, Reboot, Core, PhaseOK, PcType, Ended
  <2> QED
    BY <2>3, <2>4 DEF Core
<1>3. CASE WaitDone
  BY <1>3, WaitDoneGood
<1>4. CASE Unmounting
  BY <1>4, UnmountingGood
<1>5. ASSUME NEW p \in Procs, NEW q \in Procs \cup {"tinit"}, Fork(q, p) PROVE Core'
  BY <1>5, ForkGood, MntFrame DEF Fork, Core, PhaseOK, PcType, Ended, mntvars
<1>6. ASSUME NEW p \in Procs, Die(p) PROVE Core'
  BY <1>6, DieGood, MntFrame DEF Die, Core, PhaseOK, PcType, Ended, mntvars
<1>7. ASSUME NEW p \in Procs, WaitChild(p) PROVE Core'
  BY <1>7, WaitGood, MntFrame DEF WaitChild, Core, PhaseOK, PcType, Ended, mntvars
<1>8. ASSUME NEW d \in Disks, ServiceMount(d) PROVE Core'
  <2>1. pc = "loop" /\ at = "idle" /\ pc' = pc /\ at' = at
    BY <1>8 DEF ServiceMount, mainvars, Core, PhaseOK
  <2>2. ProcsOK'
    BY <1>8, SameProcs DEF ServiceMount, mainvars, Core
  <2> QED
    BY <1>8, <2>1, <2>2, ServiceMountGood DEF Core, PhaseOK, PcType, Ended
<1>9. CASE ServiceRemountRoot
  <2>1. pc = "loop" /\ at = "idle" /\ pc' = pc /\ at' = at
    BY <1>9 DEF ServiceRemountRoot, mainvars, Core, PhaseOK
  <2>2. ProcsOK'
    BY <1>9, SameProcs DEF ServiceRemountRoot, mainvars, Core
  <2> QED
    BY <1>9, <2>1, <2>2, ServiceRemountGood DEF Core, PhaseOK, PcType, Ended
<1>10. CASE UNCHANGED mvars
  <2>1. UNCHANGED mntvars /\ UNCHANGED <<pc, parent, zombie, killed, at>>
    BY <1>10 DEF mvars, mntvars, mainvars
  <2>2. MntOK' /\ ProcsOK' /\ Left' = Left
    BY <2>1, MntFrame, SameProcs DEF Core
  <2> QED
    BY <2>1, <2>2 DEF Core, PhaseOK, PcType, Ended
<1> QED
  BY <1>1, <1>2, <1>3, <1>4, <1>5, <1>6, <1>7, <1>8, <1>9, <1>10 DEF MainNext, Thread

LEMMA Invariant == MainSpec => []IInv
BY InitGood, NextGood, PTL DEF MainSpec

-----------------------------------------------------------------------------
(* Type correctness; and the mount table stays a tree.                      *)
THEOREM MainTypeCorrect == MainSpec => []MainTypeOK
<1>1. IInv => MainTypeOK
  BY DEF IInv
<1> QED
  BY <1>1, Invariant, PTL

(* tinit never follows a file system type that is not there while it can    *)
(* read the types, subtypes aside (mnt_umount_all()).                       *)
THEOREM TypesAreFound == MainSpec => []TypesFound
<1>1. IInv => TypesFound
  BY DEF IInv, MntOK
<1> QED
  BY <1>1, Invariant, PTL

(* However the disks are mounted in each other and whatever calls fail, no  *)
(* file system is left writable in silence (mnt_umount_all()).              *)
THEOREM WritableIsTold == MainSpec => []NoneSilentlyWritable
<1>1. IInv => NoneSilentlyWritable
  BY DEF IInv, MntOK, PhaseOK, DoneOK, Settled, NoneSilentlyWritable, Ended, OnDisk
<1> QED
  BY <1>1, Invariant, PTL

(* Once kill() and waitid() are through, no process holds a file system,    *)
(* and none is held by another one that is unmounted later.                 *)
THEOREM OnlyBusyAreLeft == MainSpec => []OnlyBusyLeft
<1>1. IInv => OnlyBusyLeft
  BY DEF IInv, MntOK, PhaseOK, DoneOK, Settled, OnlyBusyLeft, Ended, OnDisk
<1> QED
  BY <1>1, Invariant, PTL
=============================================================================
