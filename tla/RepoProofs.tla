----------------------------- MODULE RepoProofs -----------------------------
(***************************************************************************)
(* The repository, for any configuration files, names and settings: the    *)
(* graphs that registration builds have no cycle, are the same from both   *)
(* ends and drop nothing but loops, and clearing leaves nothing dangling.  *)
(***************************************************************************)
EXTENDS Repo, SequenceTheorems, TLAPS

-----------------------------------------------------------------------------
(* Graphs: the direct sources of each service.                              *)

Graphs == [Files -> SUBSET Files]

(* However services are chosen, one of them has no source among them.       *)
WellFounded(graph) ==
  \A D \in SUBSET Files : D # {} => \E t \in D : graph[t] \cap D = {}

LEMMA UpstreamClosed ==
  ASSUME NEW g \in Graphs, NEW s \in Files
  PROVE  /\ UpstreamIn(g, s) \subseteq Files
         /\ g[s] \subseteq UpstreamIn(g, s)
         /\ \A u \in UpstreamIn(g, s) : g[u] \subseteq UpstreamIn(g, s)
<1>1. \A t \in Files : g[t] \subseteq Files
  BY DEF Graphs
<1> QED BY <1>1 DEF UpstreamIn

LEMMA UpstreamLeast ==
  ASSUME NEW g \in Graphs, NEW s \in Files, NEW T \in SUBSET Files,
         g[s] \subseteq T, \A u \in T : g[u] \subseteq T
  PROVE  UpstreamIn(g, s) \subseteq T
BY DEF UpstreamIn

(* What is upstream is a source or upstream of one.                         *)
LEMMA UpstreamUnfold ==
  ASSUME NEW g \in Graphs, NEW s \in Files, NEW t \in UpstreamIn(g, s)
  PROVE  t \in g[s] \/ \E n \in g[s] : t \in UpstreamIn(g, n)
<1> DEFINE T == {x \in Files : x \in g[s] \/ \E n \in g[s] : x \in UpstreamIn(g, n)}
<1>1. g[s] \subseteq T
  BY DEF Graphs
<1>2. ASSUME NEW u \in T
      PROVE  g[u] \subseteq T
  <2>1. g[u] \subseteq Files
    BY DEF Graphs
  <2>2. CASE u \in g[s]
    BY <2>1, <2>2, UpstreamClosed
  <2>3. ASSUME NEW n \in g[s], u \in UpstreamIn(g, n)
        PROVE  g[u] \subseteq T
    <3>1. n \in Files
      BY DEF Graphs
    <3> QED BY <2>1, <2>3, <3>1, UpstreamClosed
  <2> QED BY <1>2, <2>2, <2>3
<1>3. UpstreamIn(g, s) \subseteq T
  <2> HIDE DEF T
  <2> QED BY <1>1, <1>2, UpstreamLeast, T \in SUBSET Files DEF T
<1> QED BY <1>3

(* More sources, more upstream.                                             *)
LEMMA UpstreamMonotone ==
  ASSUME NEW g \in Graphs, NEW h \in Graphs, NEW s \in Files,
         \A t \in Files : g[t] \subseteq h[t]
  PROVE  UpstreamIn(g, s) \subseteq UpstreamIn(h, s)
<1> DEFINE T == UpstreamIn(h, s)
<1>1. T \in SUBSET Files /\ h[s] \subseteq T /\ \A u \in T : h[u] \subseteq T
  BY UpstreamClosed
<1> HIDE DEF T
<1>2. g[s] \subseteq T /\ \A u \in T : g[u] \subseteq T
  BY <1>1
<1>3. UpstreamIn(g, s) \subseteq T
  BY <1>1, <1>2, UpstreamLeast
<1> QED BY <1>3 DEF T

LEMMA NothingUpstreamOfItself ==
  ASSUME NEW g \in Graphs, NEW s \in Files, WellFounded(g)
  PROVE  s \notin UpstreamIn(g, s)
<1> SUFFICES ASSUME s \in UpstreamIn(g, s) PROVE FALSE
  OBVIOUS
<1> DEFINE D == {u \in UpstreamIn(g, s) : s \in UpstreamIn(g, u)}
<1>1. D \in SUBSET Files /\ s \in D
  BY UpstreamClosed
<1>2. PICK u \in D : g[u] \cap D = {}
  <2> HIDE DEF D
  <2> QED BY <1>1 DEF WellFounded
<1>3. u \in Files /\ g[u] \subseteq UpstreamIn(g, s)
  BY <1>1, UpstreamClosed
<1>4. s \in g[u] \/ \E n \in g[u] : s \in UpstreamIn(g, n)
  BY <1>3, UpstreamUnfold
<1> QED BY <1>1, <1>2, <1>3, <1>4

(* A new source that has its observer nowhere upstream closes no cycle.     *)
LEMMA AddSource ==
  ASSUME NEW g \in Graphs, NEW o \in Files, NEW src \in Files,
         WellFounded(g), src # o, o \notin UpstreamIn(g, src)
  PROVE  WellFounded([g EXCEPT ![o] = g[o] \cup {src}])
<1> DEFINE h == [g EXCEPT ![o] = g[o] \cup {src}]
<1> SUFFICES ASSUME NEW D \in SUBSET Files, D # {}
             PROVE  \E t \in D : h[t] \cap D = {}
  BY DEF WellFounded
<1>1. \A t \in Files : h[t] = IF t = o THEN g[o] \cup {src} ELSE g[t]
  BY DEF Graphs
<1> HIDE DEF h
<1> DEFINE R == {src} \cup UpstreamIn(g, src)
<1>2. R \in SUBSET Files /\ src \in R /\ o \notin R /\ \A u \in R : g[u] \subseteq R
  BY UpstreamClosed
<1> HIDE DEF R
<1>3. CASE D \cap R # {}
  <2>1. PICK t \in D \cap R : g[t] \cap (D \cap R) = {}
    BY <1>2, <1>3 DEF WellFounded
  <2>2. h[t] = g[t] /\ g[t] \subseteq R
    BY <1>2, <1>1, <2>1
  <2> QED BY <2>1, <2>2
<1>4. CASE D \cap R = {}
  <2>1. PICK t \in D : g[t] \cap D = {}
    BY DEF WellFounded
  <2>2. h[t] \subseteq g[t] \cup {src}
    BY <1>1, <2>1
  <2> QED BY <1>2, <1>4, <2>1, <2>2
<1> QED BY <1>3, <1>4

LEMMA FewerSources ==
  ASSUME NEW g \in Graphs, NEW h \in Graphs, WellFounded(g),
         \A t \in Files : h[t] \subseteq g[t]
  PROVE  WellFounded(h)
<1> SUFFICES ASSUME NEW D \in SUBSET Files, D # {}
             PROVE  \E t \in D : h[t] \cap D = {}
  BY DEF WellFounded
<1>1. PICK t \in D : g[t] \cap D = {}
  BY DEF WellFounded
<1> QED BY <1>1

PollType == poll \in [Kinds -> [Files -> Seq(Files \cup {NoSvc})]]

LEMMA GraphType ==
  ASSUME PollType, NEW kind \in Kinds
  PROVE  /\ Graph(kind) \in Graphs
         /\ \A t \in Files : Graph(kind)[t] = Sources(kind, t)
<1>1. ASSUME NEW t \in Files
      PROVE  Sources(kind, t) \subseteq Files
  <2>1. poll[kind][t] \in Seq(Files \cup {NoSvc})
    BY DEF PollType
  <2>2. \A i \in DOMAIN poll[kind][t] : poll[kind][t][i] \in Files \cup {NoSvc}
    BY <2>1
  <2> QED BY <2>2 DEF Sources
<1> QED BY <1>1 DEF Graph, Graphs

(* In a graph without cycles the recursion of svc_has_..._notifier() finds  *)
(* exactly the service itself and what is upstream of it.                   *)
LEMMA NotifierFound ==
  ASSUME PollType, NEW kind \in Kinds, WellFounded(Graph(kind)),
         NEW s \in Files, NEW match \in Files
  PROVE  HasNotifier(kind, s, match) <=> s = match \/ match \in Upstream(kind, s)
<1> DEFINE g == Graph(kind)
           body(h) == [t \in Files |-> t = match \/ \E n \in Sources(kind, t) : h[n]]
           has == CHOOSE h : h = body(h)
           found == [t \in Files |-> t = match \/ match \in UpstreamIn(g, t)]
<1>1. g \in Graphs /\ \A t \in Files : g[t] = Sources(kind, t) /\ g[t] \subseteq Files
  BY GraphType DEF Graphs
<1>2. HasNotifier(kind, s, match) <=> has[s]
  BY DEF HasNotifier
<1>3. ASSUME NEW t \in Files
      PROVE  found[t] <=> t = match \/ \E n \in g[t] : found[n]
  <2> HIDE DEF g
  <2>1. ASSUME match \in UpstreamIn(g, t)
        PROVE  \E n \in g[t] : found[n]
    BY <1>1, <2>1, UpstreamUnfold
  <2>2. ASSUME NEW n \in g[t], n = match \/ match \in UpstreamIn(g, n)
        PROVE  match \in UpstreamIn(g, t)
    <3>1. n \in Files
      BY <1>1
    <3>2. UpstreamIn(g, t) \in SUBSET Files
          /\ g[t] \subseteq UpstreamIn(g, t)
          /\ \A u \in UpstreamIn(g, t) : g[u] \subseteq UpstreamIn(g, t)
      BY <1>1, UpstreamClosed
    <3>3. UpstreamIn(g, n) \subseteq UpstreamIn(g, t)
      BY <1>1, <3>1, <3>2, UpstreamLeast
    <3> QED BY <2>2, <3>2, <3>3
  <2>3. \A n \in g[t] : n \in Files
    BY <1>1
  <2> QED BY <2>1, <2>2, <2>3
<1> HIDE DEF found
<1>4. found = body(found)
  <2>1. found = [t \in Files |-> found[t]] /\ \A t \in Files : found[t] \in BOOLEAN
    BY DEF found
  <2>2. \A t \in Files : found[t] = body(found)[t]
    BY <1>1, <1>3, <2>1
  <2> QED BY <2>1, <2>2, Zenon DEF body
<1>5. has = body(has)
  BY <1>4, Zenon
<1>6. \A t \in Files : has[t] <=> t = match \/ \E n \in g[t] : has[n]
  <2>1. \A t \in Files : has[t] <=> t = match \/ \E n \in Sources(kind, t) : has[n]
    <3> HIDE DEF has
    <3> QED BY <1>5
  <2> HIDE DEF has, body, g
  <2> QED BY <1>1, <2>1
<1> HIDE DEF has, g
<1>7. has[s] <=> found[s]
  <2> DEFINE D == {t \in Files : ~(has[t] <=> found[t])}
  <2>1. D = {}
    <3> SUFFICES ASSUME D # {} PROVE FALSE
      OBVIOUS
    <3>1. PICK t \in D : g[t] \cap D = {}
      <4>1. D \in SUBSET Files
        OBVIOUS
      <4> HIDE DEF D
      <4> QED BY <4>1 DEF WellFounded, g
    <3>2. \A n \in g[t] : n \in Files /\ (has[n] <=> found[n])
      BY <1>1, <3>1
    <3> QED BY <1>3, <1>6, <3>1, <3>2
  <2> QED BY <2>1
<1> QED BY <1>2, <1>7 DEF found, Upstream, g

-----------------------------------------------------------------------------
(* The inductive invariant.                                                 *)

(* Each file is read once and is in the repository once, if it is valid.    *)
Loaded ==
  /\ dir \in SUBSET Files
  /\ DOMAIN conf = Files \ dir
  /\ \A f \in Files \ dir : conf[f] \in Confs
  /\ IsInjective(list)
  /\ ToSet(list) \subseteq Files \ dir

NothingRegistered ==
  \A kind \in Kinds, s \in Files : poll[kind][s] = <<>> /\ obsrv[kind][s] = <<>>

Acyclic == \A kind \in Kinds : WellFounded(Graph(kind))

(* Where the loops are.                                                     *)
PositionOK ==
  /\ at.svc >= 1
  /\ at.kind \in DOMAIN KindList
  /\ at.name >= 1
  /\ at.svc \in DOMAIN list => at.name <= Len(CurrentNames) + 1

(* How many names of that setting of that service have been handled.        *)
DoneNr(i, k) ==
  IF i < at.svc \/ (i = at.svc /\ k < at.kind) THEN PollNr(KindList[k], list[i])
  ELSE IF i = at.svc /\ k = at.kind THEN at.name - 1
  ELSE 0

(* Those names account for all the sources, and a source is missing only if *)
(* it would have closed a loop.                                             *)
RegisteredOK(i, k) ==
  LET o     == list[i]
      kind  == KindList[k]
      names == conf[o].on[kind]
  IN  /\ Len(poll[kind][o]) <= DoneNr(i, k)
      /\ \A src \in Sources(kind, o) :
           \E j \in 1 .. DoneNr(i, k) : conf[src].name = names[j]
      /\ \A j \in 1 .. DoneNr(i, k) : \A src \in SearchByName(names[j]) :
           src \in Sources(kind, o) \/ src = o \/ o \in Upstream(kind, src)

IInv ==
  /\ RepoTypeOK
  /\ Loaded
  /\ EndsAgree
  /\ NoDangling
  /\ Acyclic
  /\ pc = "load" => NothingRegistered
  /\ pc = "setup" => PositionOK
  /\ pc = "run" => at.svc > Len(list)
  /\ pc \in {"setup", "run"} =>
       \A i \in DOMAIN list, k \in DOMAIN KindList : RegisteredOK(i, k)

-----------------------------------------------------------------------------
(* Sequences.                                                               *)

LEMMA AppendElements ==
  ASSUME NEW S, NEW q \in Seq(S), NEW e \in S
  PROVE  /\ Append(q, e) \in Seq(S)
         /\ Len(Append(q, e)) = Len(q) + 1
         /\ ToSet(Append(q, e)) = ToSet(q) \cup {e}
         /\ IsInjective(q) /\ e \notin ToSet(q) => IsInjective(Append(q, e))
<1> DEFINE r == Append(q, e)
<1>1. /\ r \in Seq(S) /\ Len(q) \in Nat /\ Len(r) = Len(q) + 1
      /\ DOMAIN q = 1 .. Len(q) /\ DOMAIN r = 1 .. Len(q) + 1
      /\ \A i \in 1 .. Len(q) : r[i] = q[i]
      /\ r[Len(q) + 1] = e
  OBVIOUS
<1> HIDE DEF r
<1>2. ToSet(r) = ToSet(q) \cup {e}
  <2>1. \A x \in ToSet(r) : x \in ToSet(q) \cup {e}
    BY <1>1 DEF ToSet
  <2>2. \A x \in ToSet(q) : x \in ToSet(r)
    BY <1>1 DEF ToSet
  <2>3. e \in ToSet(r)
    BY <1>1 DEF ToSet
  <2> QED BY <2>1, <2>2, <2>3
<1>3. ASSUME IsInjective(q), e \notin ToSet(q)
      PROVE  IsInjective(r)
  <2> SUFFICES ASSUME NEW i \in 1 .. Len(q) + 1, NEW j \in 1 .. Len(q) + 1, r[i] = r[j]
               PROVE  i = j
    BY <1>1 DEF IsInjective
  <2>1. \A x \in 1 .. Len(q) : q[x] # e
    BY <1>1, <1>3 DEF ToSet
  <2> QED BY <1>1, <1>3, <2>1 DEF IsInjective
<1> QED BY <1>1, <1>2, <1>3 DEF r

(* The first element is in the tail of no list that has each element once.  *)
LEMMA TailElements ==
  ASSUME NEW S, NEW q \in Seq(S), q # <<>>, IsInjective(q)
  PROVE  /\ Head(q) \in S
         /\ Head(q) \in ToSet(q)
         /\ Tail(q) \in Seq(S)
         /\ IsInjective(Tail(q))
         /\ ToSet(Tail(q)) = ToSet(q) \ {Head(q)}
<1> DEFINE r == Tail(q)
<1>1. /\ Len(q) \in Nat \ {0} /\ DOMAIN q = 1 .. Len(q)
      /\ r \in Seq(S) /\ DOMAIN r = 1 .. Len(q) - 1
      /\ \A i \in 1 .. Len(q) - 1 : r[i] = q[i + 1]
      /\ Head(q) = q[1] /\ Head(q) \in S
  OBVIOUS
<1> HIDE DEF r
<1>2. IsInjective(r)
  <2> SUFFICES ASSUME NEW i \in 1 .. Len(q) - 1, NEW j \in 1 .. Len(q) - 1, r[i] = r[j]
               PROVE  i = j
    BY <1>1 DEF IsInjective
  <2>1. i + 1 \in DOMAIN q /\ j + 1 \in DOMAIN q /\ q[i + 1] = q[j + 1]
    BY <1>1
  <2>2. i + 1 = j + 1
    BY <2>1 DEF IsInjective
  <2> QED BY <2>2
<1>3. ASSUME NEW x \in ToSet(r)
      PROVE  x \in ToSet(q) /\ x # q[1]
  <2>1. PICK i \in 1 .. Len(q) - 1 : x = r[i]
    BY <1>1 DEF ToSet
  <2>2. i + 1 \in 1 .. Len(q) /\ i + 1 # 1 /\ x = q[i + 1] /\ 1 \in 1 .. Len(q)
    BY <1>1, <2>1
  <2> QED BY <1>1, <2>2 DEF IsInjective, ToSet
<1>4. ASSUME NEW x \in ToSet(q), x # q[1]
      PROVE  x \in ToSet(r)
  <2>1. PICK i \in 1 .. Len(q) : x = q[i]
    BY <1>1 DEF ToSet
  <2>2. i - 1 \in 1 .. Len(q) - 1 /\ x = r[i - 1]
    BY <1>1, <1>4, <2>1
  <2> QED BY <1>1, <2>2 DEF ToSet
<1>5. q[1] \in ToSet(q)
  BY <1>1 DEF ToSet
<1> QED BY <1>1, <1>2, <1>3, <1>4, <1>5 DEF r

(* Only that position goes away.                                            *)
LEMMA RemoveAtElements ==
  ASSUME NEW S, NEW m \in Seq(S), NEW k \in 1 .. Len(m)
  PROVE  /\ RemoveAt(m, k) \in Seq(S)
         /\ Len(RemoveAt(m, k)) = Len(m) - 1
         /\ \A i \in 1 .. Len(m) - 1 :
              RemoveAt(m, k)[i] = IF i < k THEN m[i] ELSE m[i + 1]
<1> DEFINE a == SubSeq(m, 1, k - 1)
           b == SubSeq(m, k + 1, Len(m))
<1>0. Len(m) \in Nat
  OBVIOUS
<1>1. a \in Seq(S) /\ Len(a) = k - 1 /\ \A i \in 1 .. k - 1 : a[i] = m[i]
  BY <1>0, SubSeqProperties
<1>2. b \in Seq(S) /\ Len(b) = Len(m) - k /\ \A i \in 1 .. Len(m) - k : b[i] = m[i + k]
  BY <1>0, SubSeqProperties
<1>3. RemoveAt(m, k) = a \o b
  BY DEF RemoveAt
<1> HIDE DEF a, b
<1>4. a \o b \in Seq(S) /\ Len(a \o b) = Len(m) - 1
  <2>1. a \o b \in Seq(S) /\ Len(a \o b) = Len(a) + Len(b)
    BY <1>1, <1>2, ConcatProperties
  <2>2. Len(a) + Len(b) = Len(m) - 1
    BY <1>0, <1>1, <1>2
  <2> QED
    BY <2>1, <2>2
<1>5. ASSUME NEW i \in 1 .. Len(m) - 1
      PROVE  (a \o b)[i] = IF i < k THEN m[i] ELSE m[i + 1]
  <2>1. i \in 1 .. Len(a) + Len(b)
    BY <1>0, <1>1, <1>2
  <2>2. (a \o b)[i] = IF i <= Len(a) THEN a[i] ELSE b[i - Len(a)]
    BY <1>1, <1>2, <2>1, ConcatProperties
  <2>3. CASE i < k
    BY <1>0, <1>1, <2>2, <2>3
  <2>4. CASE i >= k
    <3> DEFINE j == i - (k - 1)
    <3>1. j \in 1 .. Len(m) - k /\ j + k = i + 1 /\ ~(i <= k - 1)
      BY <1>0, <2>4
    <3>2. (a \o b)[i] = b[j]
      BY <1>1, <2>2, <3>1
    <3>3. b[j] = m[i + 1]
      BY <1>2, <3>1
    <3> QED
      BY <3>1, <3>2, <3>3, <2>4
  <2>5. i < k \/ i >= k
    BY <1>0
  <2> QED
    BY <2>3, <2>4, <2>5
<1> QED
  BY <1>3, <1>4, <1>5

(* The node of an element that a list has once leaves the others in place.  *)
LEMMA RemoveFirstElements ==
  ASSUME NEW S, NEW q \in Seq(S), IsInjective(q), NEW e \in ToSet(q)
  PROVE  /\ RemoveFirst(q, e) \in Seq(S)
         /\ IsInjective(RemoveFirst(q, e))
         /\ ToSet(RemoveFirst(q, e)) = ToSet(q) \ {e}
<1>1. Len(q) \in Nat /\ DOMAIN q = 1 .. Len(q)
  OBVIOUS
<1>2. PICK k \in 1 .. Len(q) : q[k] = e
  BY <1>1 DEF ToSet
<1>3. {i \in 1 .. Len(q) : q[i] = e} = {k}
  BY <1>1, <1>2 DEF IsInjective
<1>4. SelectInSeq(q, LAMBDA v : v = e) = k
  BY <1>3 DEF SelectInSeq, Min
<1> DEFINE r == RemoveAt(q, k)
<1>5. RemoveFirst(q, e) = r
  BY <1>2, <1>4 DEF RemoveFirst
<1>7. /\ r \in Seq(S) /\ DOMAIN r = 1 .. Len(q) - 1
      /\ \A i \in 1 .. Len(q) - 1 : r[i] = IF i < k THEN q[i] ELSE q[i + 1]
  <2>1. r \in Seq(S) /\ Len(r) = Len(q) - 1 /\ \A i \in 1 .. Len(q) - 1 : r[i] = IF i < k THEN q[i] ELSE q[i + 1]
    BY RemoveAtElements
  <2> HIDE DEF r
  <2> QED BY <2>1
<1> HIDE DEF r
<1>8. ASSUME NEW i \in 1 .. Len(q) - 1
      PROVE  \E x \in 1 .. Len(q) : x # k /\ r[i] = q[x] /\ ((x = i /\ i < k) \/ (x = i + 1 /\ i >= k))
  BY <1>1, <1>7
<1>9. ASSUME NEW x \in 1 .. Len(q), x # k
      PROVE  \E i \in 1 .. Len(q) - 1 : r[i] = q[x]
  <2>1. CASE x < k
    BY <1>1, <1>7, <2>1
  <2>2. CASE x > k
    <3>1. x - 1 \in 1 .. Len(q) - 1 /\ r[x - 1] = q[x]
      BY <1>1, <1>7, <2>2
    <3> QED BY <3>1
  <2> QED BY <1>9, <2>1, <2>2
<1>10. IsInjective(r)
  <2> SUFFICES ASSUME NEW i \in 1 .. Len(q) - 1, NEW j \in 1 .. Len(q) - 1, r[i] = r[j]
               PROVE  i = j
    BY <1>7 DEF IsInjective
  <2>1. PICK x \in 1 .. Len(q) : r[i] = q[x] /\ ((x = i /\ i < k) \/ (x = i + 1 /\ i >= k))
    BY <1>8
  <2>2. PICK y \in 1 .. Len(q) : r[j] = q[y] /\ ((y = j /\ j < k) \/ (y = j + 1 /\ j >= k))
    BY <1>8
  <2>3. x = y
    BY <1>1, <2>1, <2>2 DEF IsInjective
  <2> QED BY <2>1, <2>2, <2>3
<1>11. ToSet(r) = ToSet(q) \ {e}
  <2>1. ASSUME NEW z \in ToSet(r)
        PROVE  z \in ToSet(q) /\ z # e
    <3>1. PICK i \in 1 .. Len(q) - 1 : z = r[i]
      BY <1>7 DEF ToSet
    <3>2. PICK x \in 1 .. Len(q) : x # k /\ z = q[x]
      BY <3>1, <1>8
    <3> QED BY <1>1, <1>2, <3>2 DEF ToSet, IsInjective
  <2>2. ASSUME NEW z \in ToSet(q), z # e
        PROVE  z \in ToSet(r)
    <3>1. PICK x \in 1 .. Len(q) : z = q[x]
      BY <1>1 DEF ToSet
    <3>2. PICK i \in 1 .. Len(q) - 1 : r[i] = z
      BY <1>2, <1>9, <2>2, <3>1
    <3> QED BY <1>7, <3>2 DEF ToSet
  <2> QED BY <2>1, <2>2
<1> QED BY <1>5, <1>7, <1>10, <1>11

-----------------------------------------------------------------------------
(* Configurations and names.                                                *)

LEMMA ConfProperties ==
  ASSUME NEW c \in Confs
  PROVE  /\ c.valid \in BOOLEAN
         /\ \A kind \in Kinds : c.on[kind] \in Seq(Names) /\ IsInjective(c.on[kind])
<1>1. CASE c \in [name : Names, valid : {FALSE}, on : [Kinds -> {<<>>}]]
  <2>1. \A kind \in Kinds : c.on[kind] = <<>>
    BY <1>1
  <2>2. <<>> \in Seq(Names) /\ IsInjective(<<>>)
    BY DEF IsInjective
  <2> QED BY <1>1, <2>1, <2>2
<1>2. ASSUME NEW name \in Names,
             c \in [name : {name}, valid : {TRUE}, on : Settings(name)]
      PROVE  /\ c.valid \in BOOLEAN
             /\ \A kind \in Kinds : c.on[kind] \in Seq(Names) /\ IsInjective(c.on[kind])
  <2>1. \A kind \in Kinds : c.on[kind] \in NameLists(name, kind)
    BY <1>2 DEF Settings
  <2>2. ASSUME NEW kind \in Kinds, NEW q \in NameLists(name, kind)
        PROVE  q \in Seq(Names) /\ IsInjective(q)
    <3>1. PICK n \in 0 .. MaxNames[kind] : q \in [1 .. n -> Names \ {name}] /\ IsInjective(q)
      BY <2>2 DEF NameLists
    <3>2. n \in Nat
      BY RepoAssumption, <3>1
    <3>3. q \in [1 .. n -> Names]
      BY <3>1
    <3> QED BY <3>1, <3>2, <3>3
  <2> QED BY <1>2, <2>1, <2>2
<1> QED BY <1>1, <1>2 DEF Confs

LEMMA KindsAreListed ==
  /\ \A k \in DOMAIN KindList : KindList[k] \in Kinds
  /\ \A kind \in Kinds : \E k \in DOMAIN KindList : kind = KindList[k]
  /\ \A k, l \in DOMAIN KindList : KindList[k] = KindList[l] => k = l
  /\ Len(KindList) \in Nat \ {0} /\ DOMAIN KindList = 1 .. Len(KindList)
<1>1. Len(KindList) \in Nat \ {0} /\ DOMAIN KindList = 1 .. Len(KindList)
  BY RepoAssumption
<1> QED BY <1>1, RepoAssumption DEF Kinds, ToSet, IsInjective

(* What the invariant says of the services in the repository.               *)
LEMMA ListedProperties ==
  ASSUME RepoTypeOK, Loaded
  PROVE  /\ Len(list) \in Nat /\ DOMAIN list = 1 .. Len(list)
         /\ \A i \in DOMAIN list : list[i] \in Files /\ list[i] \in DOMAIN conf /\ list[i] \in ToSet(list)
         /\ \A i, j \in DOMAIN list : list[i] = list[j] => i = j
         /\ \A f \in DOMAIN conf, kind \in Kinds :
              /\ conf[f].on[kind] \in Seq(Names)
              /\ PollNr(kind, f) \in Nat
              /\ \A i, j \in DOMAIN conf[f].on[kind] : conf[f].on[kind][i] = conf[f].on[kind][j] => i = j
<1>1. Len(list) \in Nat /\ DOMAIN list = 1 .. Len(list)
  BY DEF RepoTypeOK
<1>2. \A i \in DOMAIN list : list[i] \in Files /\ list[i] \in DOMAIN conf /\ list[i] \in ToSet(list)
  BY DEF RepoTypeOK, Loaded, ToSet
<1>3. \A i, j \in DOMAIN list : list[i] = list[j] => i = j
  BY DEF Loaded, IsInjective
<1>4. ASSUME NEW f \in DOMAIN conf, NEW kind \in Kinds
      PROVE  /\ conf[f].on[kind] \in Seq(Names)
             /\ PollNr(kind, f) \in Nat
             /\ \A i, j \in DOMAIN conf[f].on[kind] : conf[f].on[kind][i] = conf[f].on[kind][j] => i = j
  <2>1. conf[f] \in Confs
    BY DEF Loaded
  <2>2. conf[f].on[kind] \in Seq(Names) /\ IsInjective(conf[f].on[kind])
    BY <2>1, ConfProperties
  <2> QED BY <2>2 DEF PollNr, IsInjective
<1> QED BY <1>1, <1>2, <1>3, <1>4

(* A name finds one service, of that name, or none.                         *)
LEMMA SearchProperties ==
  ASSUME RepoTypeOK, NEW name, NEW src \in SearchByName(name)
  PROVE  /\ src \in Files /\ src \in ToSet(list) /\ conf[src].name = name
         /\ \A other \in SearchByName(name) : other = src
<1>1. Len(list) \in Nat /\ DOMAIN list = 1 .. Len(list) /\ \A i \in 1 .. Len(list) : list[i] \in Files
  BY DEF RepoTypeOK
<1>2. PICK i \in 1 .. Len(list) : /\ src = list[i] /\ conf[list[i]].name = name
                                  /\ \A l \in 1 .. i - 1 : conf[list[l]].name # name
  BY <1>1 DEF SearchByName
<1>3. ASSUME NEW other \in SearchByName(name)
      PROVE  other = src
  <2>1. PICK j \in 1 .. Len(list) : /\ other = list[j] /\ conf[list[j]].name = name
                                    /\ \A l \in 1 .. j - 1 : conf[list[l]].name # name
    BY <1>1 DEF SearchByName
  <2>2. i = j
    BY <1>1, <1>2, <2>1
  <2> QED BY <1>2, <2>1, <2>2
<1> QED BY <1>1, <1>2, <1>3 DEF ToSet

-----------------------------------------------------------------------------
(* Loading.                                                                 *)

LEMMA InitGood == RepoInit => IInv
<1> SUFFICES ASSUME RepoInit PROVE IInv
  OBVIOUS
<1> USE DEF RepoInit
<1>1. RepoTypeOK
  BY DEF RepoTypeOK
<1>2. Loaded
  BY DEF Loaded, IsInjective, ToSet
<1>3. NothingRegistered
  BY DEF NothingRegistered
<1>4. \A kind \in Kinds, s \in Files :
        /\ Sources(kind, s) = {} /\ Observers(kind, s) = {}
        /\ IsInjective(obsrv[kind][s])
  BY <1>3 DEF NothingRegistered, Sources, Observers, IsInjective
<1>5. EndsAgree
  BY <1>4 DEF EndsAgree
<1>6. NoDangling
  BY <1>4 DEF NoDangling
<1>7. Acyclic
  BY <1>4 DEF Acyclic, WellFounded, Graph
<1> QED BY <1>1, <1>2, <1>3, <1>5, <1>6, <1>7 DEF IInv

LEMMA LoadSvcGood ==
  ASSUME IInv, LoadSvc
  PROVE  IInv'
<1>0. /\ RepoTypeOK /\ Loaded /\ EndsAgree /\ Acyclic /\ NothingRegistered
      /\ pc = "load" /\ UNCHANGED <<pc, at, poll, obsrv>>
  BY DEF IInv, LoadSvc
<1>1. PICK f \in dir, c \in Confs :
        /\ dir' = dir \ {f}
        /\ conf' = [g \in DOMAIN conf \cup {f} |-> IF g = f THEN c ELSE conf[g]]
        /\ list' = IF c.valid THEN Append(list, f) ELSE list
  BY DEF LoadSvc
<1>2. /\ f \in Files /\ f \notin DOMAIN conf /\ f \notin ToSet(list) /\ list \in Seq(Files)
      /\ dir \subseteq Files /\ DOMAIN conf = Files \ dir
  BY <1>0 DEF RepoTypeOK, Loaded
<1>3. /\ DOMAIN conf' = DOMAIN conf \cup {f}
      /\ \A g \in DOMAIN conf : conf'[g] = conf[g]
      /\ conf'[f] = c
  BY <1>1, <1>2
<1>4. /\ list' \in Seq(Files)
      /\ IsInjective(list')
      /\ ToSet(list') \subseteq ToSet(list) \cup {f}
  BY <1>0, <1>1, <1>2, AppendElements DEF Loaded
<1>5. RepoTypeOK'
  BY <1>0, <1>4 DEF RepoTypeOK
<1>6. Loaded'
  <2>1. DOMAIN conf' = Files \ dir' /\ dir' \in SUBSET Files
    BY <1>1, <1>2, <1>3
  <2>2. \A g \in Files \ dir' : conf'[g] \in Confs
    BY <1>0, <1>1, <1>2, <1>3 DEF Loaded
  <2>3. ToSet(list') \subseteq Files \ dir'
    BY <1>0, <1>1, <1>2, <1>4 DEF Loaded
  <2>4. \A x : (x = list') => (IsInjective(x) <=> IsInjective(list)')
    BY DEF IsInjective
  <2> QED BY <1>4, <2>1, <2>2, <2>3, <2>4 DEF Loaded
<1>7. NothingRegistered'
  BY <1>0 DEF NothingRegistered
<1>8. \A kind \in Kinds, s \in Files :
        /\ Sources(kind, s)' = {} /\ Observers(kind, s)' = {}
        /\ poll'[kind][s] = <<>> /\ obsrv'[kind][s] = <<>>
  BY <1>7 DEF NothingRegistered, Sources, Observers
<1>9. EndsAgree'
  <2>1. ASSUME NEW kind \in Kinds, NEW s \in DOMAIN conf'
        PROVE  PollNr(kind, s)' \in Nat
    <3>1. conf'[s] \in Confs
      BY <1>6, <2>1 DEF Loaded
    <3>2. conf'[s].on[kind] \in Seq(Names)
      BY <3>1, ConfProperties
    <3> QED BY <3>2 DEF PollNr
  <2>2. IsInjective(<<>>)
    BY DEF IsInjective
  <2>3. \A kind \in Kinds, s \in Files : IsInjective(obsrv[kind][s])'
    BY <1>8, <2>2 DEF IsInjective
  <2> QED BY <1>8, <2>1, <2>3 DEF EndsAgree
<1>10. NoDangling'
  BY <1>8 DEF NoDangling
<1>11. Acyclic'
  BY <1>8 DEF Acyclic, WellFounded, Graph
<1> QED BY <1>0, <1>5, <1>6, <1>7, <1>9, <1>10, <1>11 DEF IInv

-----------------------------------------------------------------------------
(* Steps that leave the graphs and the repository alone.                    *)

LEMMA SameGraphs ==
  ASSUME IInv, UNCHANGED <<conf, dir, list, poll, obsrv>>,
         pc' \in {"load", "setup", "run", "clear", "end"},
         at' \in [svc : Nat, kind : Nat, name : Nat]
  PROVE  /\ RepoTypeOK' /\ Loaded' /\ EndsAgree' /\ NoDangling' /\ Acyclic'
         /\ \A kind \in Kinds, s \in Files :
              Sources(kind, s)' = Sources(kind, s) /\ Upstream(kind, s)' = Upstream(kind, s)
         /\ \A name : SearchByName(name)' = SearchByName(name)
         /\ NothingRegistered => NothingRegistered'
<1>1. \A kind \in Kinds, s \in Files :
        /\ Sources(kind, s)' = Sources(kind, s)
        /\ Observers(kind, s)' = Observers(kind, s)
        /\ PollNr(kind, s)' = PollNr(kind, s)
        /\ IsInjective(obsrv[kind][s])' = IsInjective(obsrv[kind][s])
  BY DEF Sources, Observers, PollNr, IsInjective
<1>2. \A kind \in Kinds : Graph(kind)' = Graph(kind)
  BY <1>1 DEF Graph
<1>3. \A kind \in Kinds, s \in Files : Upstream(kind, s)' = Upstream(kind, s)
  BY <1>2 DEF Upstream, UpstreamIn
<1>4. RepoTypeOK'
  BY DEF IInv, RepoTypeOK
<1>5. Loaded'
  BY DEF IInv, Loaded, IsInjective, ToSet
<1>6. EndsAgree'
  BY <1>1 DEF IInv, EndsAgree
<1>7. NoDangling'
  BY <1>1 DEF IInv, NoDangling, ToSet
<1>8. Acyclic'
  BY <1>2 DEF IInv, Acyclic, WellFounded
<1>9. \A name : SearchByName(name)' = SearchByName(name)
  BY DEF SearchByName
<1>10. NothingRegistered => NothingRegistered'
  BY DEF NothingRegistered
<1> QED BY <1>1, <1>3, <1>4, <1>5, <1>6, <1>7, <1>8, <1>9, <1>10

(* The end of the directory: registration begins with the first name of the *)
(* first setting of the first service.                                      *)
LEMMA LoadEndGood ==
  ASSUME IInv, LoadEnd
  PROVE  IInv'
<1>1. /\ UNCHANGED <<conf, dir, list, poll, obsrv>> /\ pc = "load" /\ pc' = "setup"
      /\ at' = [svc |-> 1, kind |-> 1, name |-> 1]
      /\ NothingRegistered /\ RepoTypeOK /\ Loaded
  BY DEF LoadEnd, IInv
<1>2. at' \in [svc : Nat, kind : Nat, name : Nat]
  BY <1>1
<1>3. /\ RepoTypeOK' /\ Loaded' /\ EndsAgree' /\ NoDangling' /\ Acyclic'
      /\ NothingRegistered'
  BY <1>1, <1>2, SameGraphs
<1>4. ASSUME at.svc' \in DOMAIN list'
      PROVE  Len(CurrentNames)' \in Nat
  <2>1. list[1] \in DOMAIN conf
    BY <1>1, <1>4, ListedProperties
  <2>2. conf[list[1]].on[KindList[1]] \in Seq(Names)
    BY <1>1, <2>1, ListedProperties, KindsAreListed
  <2>3. CurrentNames' = conf[list[1]].on[KindList[1]]
    BY <1>1 DEF CurrentNames, CurrentSvc, CurrentKind
  <2> QED BY <2>2, <2>3
<1>5. PositionOK'
  BY <1>1, <1>4, KindsAreListed DEF PositionOK
<1>6. ASSUME NEW i \in DOMAIN list, NEW k \in DOMAIN KindList
      PROVE  RegisteredOK(i, k)'
  <2>1. list[i] \in Files /\ KindList[k] \in Kinds /\ i \in Nat \ {0} /\ k \in Nat \ {0}
    BY <1>1, ListedProperties, KindsAreListed
  <2>2. poll'[KindList[k]][list[i]] = <<>>
    BY <1>3, <2>1 DEF NothingRegistered
  <2>3. Sources(KindList[k], list[i])' = {}
    BY <1>1, <2>2 DEF Sources
  <2>4. DoneNr(i, k)' = 0
    BY <1>1, <2>1 DEF DoneNr
  <2> QED BY <1>1, <2>2, <2>3, <2>4 DEF RegisteredOK
<1> QED BY <1>1, <1>3, <1>5, <1>6 DEF IInv

LEMMA LeaveGood ==
  ASSUME IInv, LoadFail \/ Unload \/ ClearEnd
  PROVE  IInv'
<1>1. /\ UNCHANGED <<conf, dir, list, at, poll, obsrv>> /\ pc' \in {"clear", "end"}
      /\ at' \in [svc : Nat, kind : Nat, name : Nat]
  BY DEF LoadFail, Unload, ClearEnd, IInv, RepoTypeOK
<1>2. RepoTypeOK' /\ Loaded' /\ EndsAgree' /\ NoDangling' /\ Acyclic'
  BY <1>1, SameGraphs
<1> QED BY <1>1, <1>2 DEF IInv

(* What the loops have left behind stays done.                              *)
LEMMA PositionMoves ==
  ASSUME IInv, pc \in {"setup", "run"}, UNCHANGED <<conf, dir, list, poll, obsrv>>,
         pc' \in {"setup", "run"}, at' \in [svc : Nat, kind : Nat, name : Nat],
         NEW i \in DOMAIN list, NEW k \in DOMAIN KindList,
         DoneNr(i, k)' = DoneNr(i, k)
  PROVE  RegisteredOK(i, k)'
<1>1. RepoTypeOK /\ Loaded /\ RegisteredOK(i, k)
  BY DEF IInv
<1>2. list[i] \in Files /\ KindList[k] \in Kinds
  BY <1>1, ListedProperties, KindsAreListed
<1>3. /\ \A kind \in Kinds, s \in Files :
           Sources(kind, s)' = Sources(kind, s) /\ Upstream(kind, s)' = Upstream(kind, s)
      /\ \A name : SearchByName(name)' = SearchByName(name)
  BY SameGraphs
<1> DEFINE names == conf[list[i]].on[KindList[k]]
<1>4. \A j \in 1 .. DoneNr(i, k) : \A src \in SearchByName(names[j]) : src \in Files
  BY <1>1, SearchProperties
<1> QED BY <1>1, <1>2, <1>3, <1>4 DEF RegisteredOK

LEMMA SetupNextGood ==
  ASSUME IInv, SetupNext
  PROVE  IInv'
<1>1. /\ UNCHANGED <<conf, pc, dir, list, poll, obsrv>> /\ pc = "setup"
      /\ at.svc \in DOMAIN list /\ at.name \notin DOMAIN CurrentNames
      /\ RepoTypeOK /\ Loaded /\ PositionOK
      /\ at \in [svc : Nat, kind : Nat, name : Nat]
  BY DEF SetupNext, IInv, RepoTypeOK
<1>2. /\ CurrentNames \in Seq(Names)
      /\ Len(CurrentNames) = PollNr(KindList[at.kind], list[at.svc])
      /\ Len(CurrentNames) \in Nat
      /\ DOMAIN CurrentNames = 1 .. Len(CurrentNames)
  <2>1. CurrentSvc \in DOMAIN conf /\ CurrentKind \in Kinds
    BY <1>1, ListedProperties, KindsAreListed DEF CurrentSvc, CurrentKind, PositionOK
  <2>2. CurrentNames \in Seq(Names)
    BY <1>1, <2>1, ListedProperties DEF CurrentNames
  <2>3. Len(CurrentNames) = PollNr(KindList[at.kind], list[at.svc])
    BY DEF PollNr, CurrentNames, CurrentSvc, CurrentKind
  <2> DEFINE names == CurrentNames
  <2> HIDE DEF names
  <2>4. names \in Seq(Names) => Len(names) \in Nat /\ DOMAIN names = 1 .. Len(names)
    OBVIOUS
  <2> USE DEF names
  <2> QED BY <2>2, <2>3, <2>4
<1>3. at.name - 1 = Len(CurrentNames)
  BY <1>1, <1>2 DEF PositionOK
<1>4. /\ at' \in [svc : Nat, kind : Nat, name : Nat]
      /\ \/ /\ at.kind < Len(KindList)
            /\ at'.svc = at.svc /\ at'.kind = at.kind + 1 /\ at'.name = 1
         \/ /\ at.kind = Len(KindList)
            /\ at'.svc = at.svc + 1 /\ at'.kind = 1 /\ at'.name = 1
  <2>1. CASE at.kind < Len(KindList) /\ at' = [svc |-> at.svc, kind |-> at.kind + 1, name |-> 1]
    BY <1>1, <2>1
  <2>2. CASE at.kind = Len(KindList) /\ at' = [svc |-> at.svc + 1, kind |-> 1, name |-> 1]
    BY <1>1, <2>2
  <2> QED BY <2>1, <2>2 DEF SetupNext
<1>5. /\ RepoTypeOK' /\ Loaded' /\ EndsAgree' /\ NoDangling' /\ Acyclic'
  BY <1>1, <1>4, SameGraphs DEF RepoTypeOK
<1>6. PositionOK'
  <2>1. at'.svc >= 1 /\ at'.name = 1 /\ at'.kind \in DOMAIN KindList
    BY <1>1, <1>4, KindsAreListed DEF PositionOK
  <2>2. ASSUME at'.svc \in DOMAIN list'
        PROVE  Len(CurrentNames)' \in Nat
    <3>1. list[at'.svc] \in DOMAIN conf /\ KindList[at'.kind] \in Kinds
      BY <1>1, <2>1, <2>2, ListedProperties, KindsAreListed
    <3>2. conf[list[at'.svc]].on[KindList[at'.kind]] \in Seq(Names)
      BY <1>1, <3>1, ListedProperties
    <3>3. conf'[list'[at'.svc]].on[KindList[at'.kind]] \in Seq(Names)
      BY <1>1, <3>2
    <3>4. Len(conf'[list'[at'.svc]].on[KindList[at'.kind]]) \in Nat
      BY <3>3, LenProperties, Zenon
    <3> QED BY <3>4 DEF CurrentNames, CurrentSvc, CurrentKind
  <2> QED BY <2>1, <2>2 DEF PositionOK
<1>7. ASSUME NEW i \in DOMAIN list, NEW k \in DOMAIN KindList
      PROVE  RegisteredOK(i, k)'
  <2>1. /\ i \in Nat \ {0} /\ k \in 1 .. Len(KindList) /\ Len(KindList) \in Nat
        /\ at.svc \in Nat /\ at.kind \in 1 .. Len(KindList) /\ at.name \in Nat
    BY <1>1, ListedProperties, KindsAreListed DEF PositionOK
  <2>2. PollNr(KindList[k], list[i])' = PollNr(KindList[k], list[i])
    BY <1>1 DEF PollNr
  <2>3. CASE i = at.svc /\ k = at.kind
    <3>1. DoneNr(i, k) = at.name - 1
      BY <2>1, <2>3 DEF DoneNr
    <3>2. DoneNr(i, k)' = PollNr(KindList[k], list[i])
      BY <1>1, <1>4, <2>1, <2>2, <2>3 DEF DoneNr
    <3>3. DoneNr(i, k)' = DoneNr(i, k)
      BY <1>2, <1>3, <2>3, <3>1, <3>2
    <3> QED BY <1>1, <1>4, <3>3, PositionMoves
  <2>4. CASE ~(i = at.svc /\ k = at.kind)
    <3>1. DoneNr(i, k)' = DoneNr(i, k)
      BY <1>1, <1>4, <2>1, <2>2, <2>4 DEF DoneNr
    <3> QED BY <1>1, <1>4, <3>1, PositionMoves
  <2> QED BY <2>3, <2>4
<1> QED BY <1>1, <1>5, <1>6, <1>7 DEF IInv

LEMMA SetupEndGood ==
  ASSUME IInv, SetupEnd
  PROVE  IInv'
<1>1. /\ UNCHANGED <<conf, dir, list, at, poll, obsrv>> /\ pc = "setup" /\ pc' = "run"
      /\ at.svc \notin DOMAIN list
      /\ RepoTypeOK /\ Loaded /\ PositionOK
      /\ at' \in [svc : Nat, kind : Nat, name : Nat]
  BY DEF SetupEnd, IInv, RepoTypeOK
<1>2. /\ RepoTypeOK' /\ Loaded' /\ EndsAgree' /\ NoDangling' /\ Acyclic'
  BY <1>1, SameGraphs
<1>3. at.svc > Len(list)
  BY <1>1, ListedProperties DEF PositionOK, RepoTypeOK
<1>4. \A i \in DOMAIN list, k \in DOMAIN KindList : RegisteredOK(i, k)'
  <2>1. \A i \in DOMAIN list, k \in DOMAIN KindList : DoneNr(i, k)' = DoneNr(i, k)
    BY <1>1 DEF DoneNr, PollNr
  <2> QED BY <1>1, <2>1, PositionMoves
<1> QED BY <1>1, <1>2, <1>3, <1>4 DEF IInv

-----------------------------------------------------------------------------
(* Registration.                                                            *)

(* The name that is handled, its service and its setting.                   *)
LEMMA CurrentProperties ==
  ASSUME IInv, Setup
  PROVE  /\ RepoTypeOK /\ Loaded /\ EndsAgree /\ NoDangling /\ Acyclic /\ PositionOK
         /\ at \in [svc : Nat, kind : Nat, name : Nat]
         /\ pc = "setup" /\ UNCHANGED <<conf, pc, dir, list>>
         /\ at.svc \in DOMAIN list /\ at.kind \in DOMAIN KindList
         /\ at'.svc = at.svc /\ at'.kind = at.kind /\ at'.name = at.name + 1
         /\ at' \in [svc : Nat, kind : Nat, name : Nat]
         /\ CurrentSvc \in Files /\ CurrentSvc \in DOMAIN conf /\ CurrentSvc \in ToSet(list)
         /\ CurrentKind \in Kinds
         /\ CurrentNames \in Seq(Names)
         /\ at.name \in 1 .. Len(CurrentNames)
         /\ Len(CurrentNames) = PollNr(CurrentKind, CurrentSvc)
         /\ Len(CurrentNames) \in Nat
<1>1. /\ RepoTypeOK /\ Loaded /\ EndsAgree /\ NoDangling /\ Acyclic /\ PositionOK
      /\ at \in [svc : Nat, kind : Nat, name : Nat]
      /\ pc = "setup" /\ UNCHANGED <<conf, pc, dir, list>>
      /\ at.svc \in DOMAIN list /\ at.kind \in DOMAIN KindList
      /\ at' = [at EXCEPT !.name = @ + 1]
      /\ at.name \in DOMAIN CurrentNames
  BY DEF Setup, IInv, RepoTypeOK, PositionOK
<1>2. /\ at'.svc = at.svc /\ at'.kind = at.kind /\ at'.name = at.name + 1
      /\ at' \in [svc : Nat, kind : Nat, name : Nat]
  BY <1>1
<1>3. /\ CurrentSvc \in Files /\ CurrentSvc \in DOMAIN conf /\ CurrentSvc \in ToSet(list)
      /\ CurrentKind \in Kinds
  BY <1>1, ListedProperties, KindsAreListed DEF CurrentSvc, CurrentKind
<1>4. CurrentNames \in Seq(Names)
  BY <1>1, <1>3, ListedProperties DEF CurrentNames
<1>5. Len(CurrentNames) \in Nat /\ at.name \in 1 .. Len(CurrentNames)
  BY <1>1, <1>4
<1>6. Len(CurrentNames) = PollNr(CurrentKind, CurrentSvc)
  BY DEF PollNr, CurrentNames
<1> QED BY <1>1, <1>2, <1>3, <1>4, <1>5, <1>6

(* The steps of the loop of names.                                          *)
LEMMA DoneOneMore ==
  ASSUME IInv, Setup, NEW i \in DOMAIN list, NEW k \in DOMAIN KindList
  PROVE  /\ i = at.svc /\ k = at.kind =>
              DoneNr(i, k) = at.name - 1 /\ DoneNr(i, k)' = at.name
         /\ ~(i = at.svc /\ k = at.kind) => DoneNr(i, k)' = DoneNr(i, k)
<1>0. i \in Nat /\ k \in Nat
  <2>1. Loaded /\ RepoTypeOK
    BY DEF IInv
  <2> QED BY <2>1, ListedProperties, KindsAreListed
<1>1. /\ at.svc \in Nat /\ at.kind \in Nat /\ at.name \in Nat /\ i \in Nat /\ k \in Nat
      /\ at'.svc = at.svc /\ at'.kind = at.kind /\ at'.name = at.name + 1
      /\ UNCHANGED <<conf, list>>
  BY <1>0, CurrentProperties
<1>2. PollNr(KindList[k], list[i])' = PollNr(KindList[k], list[i])
  BY <1>1 DEF PollNr
<1>3. CASE i = at.svc /\ k = at.kind
  BY <1>1, <1>3 DEF DoneNr
<1>4. CASE i < at.svc \/ (i = at.svc /\ k < at.kind)
  BY <1>1, <1>2, <1>4 DEF DoneNr
<1>5. CASE ~(i < at.svc \/ (i = at.svc /\ k < at.kind)) /\ ~(i = at.svc /\ k = at.kind)
  <2>1. DoneNr(i, k) = 0
    BY <1>5 DEF DoneNr
  <2>2. DoneNr(i, k)' = 0
    BY <1>1, <1>5 DEF DoneNr
  <2> QED BY <1>5, <2>1, <2>2
<1> QED BY <1>3, <1>4, <1>5

(* Registering o with s adds one edge of one kind, at both ends.            *)
LEMMA RegisterAddsEdge ==
  ASSUME RepoTypeOK, NEW kind \in Kinds, NEW s \in Files, NEW o \in Files,
         Register(kind, s, o)
  PROVE  /\ poll' \in [Kinds -> [Files -> Seq(Files \cup {NoSvc})]]
         /\ obsrv' \in [Kinds -> [Files -> Seq(Files)]]
         /\ \A c \in Kinds, t \in Files :
              /\ Sources(c, t)' = IF c = kind /\ t = o THEN Sources(c, t) \cup {s} ELSE Sources(c, t)
              /\ Observers(c, t)' = IF c = kind /\ t = s THEN Observers(c, t) \cup {o} ELSE Observers(c, t)
              /\ Len(poll[c][t]) \in Nat
              /\ Len(poll'[c][t]) = IF c = kind /\ t = o THEN Len(poll[c][t]) + 1 ELSE Len(poll[c][t])
              /\ /\ IsInjective(obsrv[c][t])
                 /\ o \notin Observers(kind, s)
                 => IsInjective(obsrv[c][t])'
<1>1. /\ poll \in [Kinds -> [Files -> Seq(Files \cup {NoSvc})]]
      /\ obsrv \in [Kinds -> [Files -> Seq(Files)]]
      /\ poll'  = [poll EXCEPT ![kind][o] = Append(@, s)]
      /\ obsrv' = [obsrv EXCEPT ![kind][s] = Append(@, o)]
      /\ s # NoSvc
  BY RepoAssumption DEF RepoTypeOK, Register
<1> DEFINE p == poll[kind][o]
           q == obsrv[kind][s]
<1>2. p \in Seq(Files \cup {NoSvc}) /\ q \in Seq(Files)
  BY <1>1
<1>3. /\ Append(p, s) \in Seq(Files \cup {NoSvc})
      /\ Len(Append(p, s)) = Len(p) + 1
      /\ ToSet(Append(p, s)) = ToSet(p) \cup {s}
  <2> HIDE DEF p
  <2> QED BY <1>2, AppendElements
<1>4. /\ Append(q, o) \in Seq(Files)
      /\ ToSet(Append(q, o)) = ToSet(q) \cup {o}
      /\ IsInjective(q) /\ o \notin ToSet(q) => IsInjective(Append(q, o))
  <2> HIDE DEF q
  <2> QED BY <1>2, AppendElements
<1> DEFINE p2 == Append(p, s)
           q2 == Append(q, o)
<1>5. \A c \in Kinds, t \in Files :
        /\ poll'[c][t] = IF c = kind /\ t = o THEN p2 ELSE poll[c][t]
        /\ obsrv'[c][t] = IF c = kind /\ t = s THEN q2 ELSE obsrv[c][t]
  BY <1>1
<1>6. /\ poll' \in [Kinds -> [Files -> Seq(Files \cup {NoSvc})]]
      /\ obsrv' \in [Kinds -> [Files -> Seq(Files)]]
  BY <1>1, <1>3, <1>4
<1>7. \A c \in Kinds, t \in Files :
        /\ Sources(c, t) = ToSet(poll[c][t]) \ {NoSvc}
        /\ Sources(c, t)' = ToSet(poll'[c][t]) \ {NoSvc}
        /\ Observers(c, t) = ToSet(obsrv[c][t])
        /\ Observers(c, t)' = ToSet(obsrv'[c][t])
  BY DEF Sources, Observers, ToSet
<1>8. \A c \in Kinds, t \in Files : Len(poll[c][t]) \in Nat
  <2> SUFFICES ASSUME NEW c \in Kinds, NEW t \in Files PROVE Len(poll[c][t]) \in Nat
    OBVIOUS
  <2>1. poll[c][t] \in Seq(Files \cup {NoSvc})
    BY <1>1
  <2> QED BY <2>1
<1>9. \A c \in Kinds, t \in Files : IsInjective(obsrv[c][t])' = IsInjective(obsrv'[c][t])
  BY DEF IsInjective
<1> HIDE DEF p, q, p2, q2
<1> SUFFICES ASSUME NEW c \in Kinds, NEW t \in Files
             PROVE  /\ Sources(c, t)' = IF c = kind /\ t = o THEN Sources(c, t) \cup {s} ELSE Sources(c, t)
                    /\ Observers(c, t)' = IF c = kind /\ t = s THEN Observers(c, t) \cup {o} ELSE Observers(c, t)
                    /\ Len(poll'[c][t]) = IF c = kind /\ t = o THEN Len(poll[c][t]) + 1 ELSE Len(poll[c][t])
                    /\ /\ IsInjective(obsrv[c][t])
                       /\ o \notin Observers(kind, s)
                       => IsInjective(obsrv[c][t])'
  BY <1>6, <1>8, SMTT(30)
<1>10. Sources(c, t)' = IF c = kind /\ t = o THEN Sources(c, t) \cup {s} ELSE Sources(c, t)
  <2>1. CASE c = kind /\ t = o
    <3>1. poll'[c][t] = p2 /\ poll[c][t] = p /\ s # NoSvc
      BY <1>1, <1>5, <2>1 DEF p
    <3>2. ToSet(p2) = ToSet(p) \cup {s}
      BY <1>3 DEF p2
    <3> QED BY <1>7, <2>1, <3>1, <3>2
  <2>2. CASE ~(c = kind /\ t = o)
    <3>1. poll'[c][t] = poll[c][t]
      BY <1>5, <2>2
    <3>2. /\ Sources(c, t) = ToSet(poll[c][t]) \ {NoSvc}
          /\ Sources(c, t)' = ToSet(poll'[c][t]) \ {NoSvc}
      BY <1>7
    <3> QED BY <2>2, <3>1, <3>2
  <2> QED BY <2>1, <2>2
<1>11. Observers(c, t)' = IF c = kind /\ t = s THEN Observers(c, t) \cup {o} ELSE Observers(c, t)
  BY <1>4, <1>5, <1>7 DEF q, q2
<1>12. Len(poll'[c][t]) = IF c = kind /\ t = o THEN Len(poll[c][t]) + 1 ELSE Len(poll[c][t])
  BY <1>3, <1>5 DEF p, p2
<1>13. ASSUME IsInjective(obsrv[c][t]), o \notin Observers(kind, s)
       PROVE  IsInjective(obsrv[c][t])'
  <2>1. IsInjective(obsrv'[c][t])
    BY <1>4, <1>5, <1>7, <1>13 DEF q, q2
  <2> QED BY <2>1, <1>9
<1> QED BY <1>10, <1>11, <1>12, <1>13

LEMMA SetupGood ==
  ASSUME IInv, Setup
  PROVE  IInv'
<1>0. PICK o \in Files, kind \in Kinds, names \in Seq(Names) :
        o = CurrentSvc /\ kind = CurrentKind /\ names = CurrentNames
  BY CurrentProperties
<1> DEFINE found == SearchByName(names[at.name])
<1>1. /\ RepoTypeOK /\ Loaded /\ EndsAgree /\ NoDangling /\ Acyclic /\ PositionOK
      /\ pc = "setup" /\ UNCHANGED <<conf, pc, dir, list>>
      /\ at.svc \in DOMAIN list /\ at.kind \in DOMAIN KindList
      /\ at'.svc = at.svc /\ at'.kind = at.kind /\ at'.name = at.name + 1
      /\ at' \in [svc : Nat, kind : Nat, name : Nat]
      /\ o \in DOMAIN conf /\ o \in ToSet(list)
      /\ at.name \in 1 .. Len(names)
      /\ Len(names) = PollNr(kind, o)
      /\ Len(names) \in Nat
  BY <1>0, CurrentProperties
<1>2. \A i \in DOMAIN list, k \in DOMAIN KindList : RegisteredOK(i, k)
  BY <1>1 DEF IInv
<1>3. PollType
  BY <1>1 DEF RepoTypeOK, PollType
<1>4. /\ o = list[at.svc] /\ kind = KindList[at.kind] /\ names = conf[o].on[kind]
  BY <1>0 DEF CurrentSvc, CurrentKind, CurrentNames
<1>5. \A src \in found : /\ src \in Files /\ src \in ToSet(list) /\ conf[src].name = names[at.name]
                         /\ \A other \in found : other = src
  BY <1>1, SearchProperties
<1>6. \A n : SearchByName(n)' = SearchByName(n)
  BY <1>1 DEF SearchByName
<1>7. PositionOK'
  <2>1. CurrentNames' = names
    BY <1>0, <1>1 DEF CurrentNames, CurrentSvc, CurrentKind
  <2>2. at.name' <= Len(names) + 1 /\ at.name' >= 1
    BY <1>1
  <2> QED BY <1>1, <2>1, <2>2 DEF PositionOK
<1>8. Loaded'
  BY <1>1 DEF Loaded, IsInjective, ToSet
<1> HIDE DEF found
<1>9. ASSUME UNCHANGED <<poll, obsrv>>,
             \A src \in found : HasNotifier(kind, src, o)
      PROVE  IInv'
  <2>1. /\ RepoTypeOK' /\ EndsAgree' /\ NoDangling' /\ Acyclic'
        /\ \A c \in Kinds, s \in Files :
              Sources(c, s)' = Sources(c, s) /\ Upstream(c, s)' = Upstream(c, s)
    <3>1. UNCHANGED <<conf, dir, list, poll, obsrv>> /\ pc' \in {"load", "setup", "run", "clear", "end"}
      BY <1>1, <1>9
    <3> QED BY <1>1, <3>1, SameGraphs
  <2>2. ASSUME NEW i \in DOMAIN list, NEW k \in DOMAIN KindList
        PROVE  RegisteredOK(i, k)'
    <3>1. CASE ~(i = at.svc /\ k = at.kind)
      <4>1. DoneNr(i, k)' = DoneNr(i, k)
        BY <3>1, DoneOneMore
      <4>2. /\ UNCHANGED <<conf, dir, list, poll, obsrv>> /\ pc' \in {"setup", "run"}
        BY <1>1, <1>9
      <4> QED BY <1>1, <4>1, <4>2, PositionMoves
    <3>2. CASE i = at.svc /\ k = at.kind
      <4>1. DoneNr(i, k) = at.name - 1 /\ DoneNr(i, k)' = at.name
        BY <3>2, DoneOneMore
      <4>2. list[i] = o /\ KindList[k] = kind
        BY <1>4, <3>2
      <4>3. RegisteredOK(i, k)
        BY <1>2
      <4>4. poll[kind][o] \in Seq(Files \cup {NoSvc})
        BY <1>1 DEF RepoTypeOK
      <4>5. Len(poll'[kind][o]) <= at.name
        BY <1>1, <1>9, <4>1, <4>2, <4>3, <4>4 DEF RegisteredOK
      <4>6. \A src \in Sources(kind, o) : \E j \in 1 .. at.name : conf[src].name = names[j]
        BY <1>1, <1>4, <4>1, <4>2, <4>3 DEF RegisteredOK
      <4>7. ASSUME NEW j \in 1 .. at.name, NEW src \in SearchByName(names[j])
            PROVE  src \in Sources(kind, o) \/ src = o \/ o \in Upstream(kind, src)
        <5>1. CASE j = at.name
          <6>1. src \in found /\ src \in Files
            BY <1>5, <4>7, <5>1 DEF found
          <6> QED BY <1>1, <1>3, <1>9, <6>1, NotifierFound DEF Acyclic
        <5>2. CASE j # at.name
          <6>1. j \in 1 .. at.name - 1
            BY <1>1, <5>2
          <6> QED BY <1>4, <4>1, <4>2, <4>3, <6>1 DEF RegisteredOK
        <5> QED BY <5>1, <5>2
      <4>8. \A j \in 1 .. at.name : \A src \in SearchByName(names[j]) : src \in Files
        BY <1>1, SearchProperties
      <4>9. \A j \in 1 .. at.name : \A src \in SearchByName(names[j]) :
              src \in Sources(kind, o)' \/ src = o \/ o \in Upstream(kind, src)'
        BY <1>1, <2>1, <4>7, <4>8
      <4>10. Sources(kind, o)' = Sources(kind, o)
        BY <1>1, <2>1
      <4> QED BY <1>1, <1>4, <1>6, <4>1, <4>2, <4>5, <4>6, <4>9, <4>10 DEF RegisteredOK
    <3> QED BY <3>1, <3>2
  <2> QED BY <1>1, <1>7, <1>8, <2>1, <2>2 DEF IInv
<1>10. ASSUME NEW src \in found, ~HasNotifier(kind, src, o), Register(kind, src, o)
       PROVE  IInv'
  <2>1. src \in Files /\ src \in ToSet(list) /\ conf[src].name = names[at.name] /\ \A other \in found : other = src
    BY <1>5
  <2>2. src # o /\ o \notin Upstream(kind, src)
    BY <1>1, <1>3, <1>10, <2>1, NotifierFound DEF Acyclic
  <2>3. src \notin Sources(kind, o)
    <3> SUFFICES ASSUME src \in Sources(kind, o) PROVE FALSE
      OBVIOUS
    <3>1. RegisteredOK(at.svc, at.kind) /\ DoneNr(at.svc, at.kind) = at.name - 1
      BY <1>1, <1>2, DoneOneMore
    <3>2. PICK j \in 1 .. at.name - 1 : conf[src].name = names[j]
      BY <1>4, <3>1 DEF RegisteredOK
    <3>3. j \in DOMAIN names /\ at.name \in DOMAIN names /\ j # at.name
      BY <1>1
    <3>4. names[j] = names[at.name]
        BY <2>1, <3>2
    <3> QED BY <1>1, <1>4, <3>3, <3>4, ListedProperties
  <2>4. o \notin Observers(kind, src)
    BY <1>1, <2>1, <2>3 DEF EndsAgree
  <2>5. /\ poll' \in [Kinds -> [Files -> Seq(Files \cup {NoSvc})]]
        /\ obsrv' \in [Kinds -> [Files -> Seq(Files)]]
        /\ \A c \in Kinds, t \in Files :
             /\ Sources(c, t)' = IF c = kind /\ t = o THEN Sources(c, t) \cup {src} ELSE Sources(c, t)
             /\ Observers(c, t)' = IF c = kind /\ t = src THEN Observers(c, t) \cup {o} ELSE Observers(c, t)
             /\ Len(poll[c][t]) \in Nat
             /\ Len(poll'[c][t]) = IF c = kind /\ t = o THEN Len(poll[c][t]) + 1 ELSE Len(poll[c][t])
             /\ /\ IsInjective(obsrv[c][t])
                /\ o \notin Observers(kind, src)
                => IsInjective(obsrv[c][t])'
    BY <1>1, <1>10, <2>1, RegisterAddsEdge
  <2>6. RepoTypeOK'
    BY <1>1, <2>5 DEF RepoTypeOK
  <2>7. Len(poll[kind][o]) <= at.name - 1
    <3>1. RegisteredOK(at.svc, at.kind) /\ DoneNr(at.svc, at.kind) = at.name - 1
      BY <1>1, <1>2, DoneOneMore
    <3> QED BY <1>4, <3>1 DEF RegisteredOK
  <2>8. EndsAgree'
    <3>1. ASSUME NEW c \in Kinds, NEW s \in Files, NEW t \in Files
          PROVE  /\ s \in Sources(c, t)' <=> t \in Observers(c, s)'
                 /\ IsInjective(obsrv[c][s])'
      <4>1. /\ s \in Sources(c, t) <=> t \in Observers(c, s)
            /\ IsInjective(obsrv[c][s])
        BY <1>1 DEF EndsAgree
      <4>2. IsInjective(obsrv[c][s])'
        BY <2>4, <2>5, <4>1
      <4> QED BY <2>5, <4>1, <4>2
    <3>2. ASSUME NEW c \in Kinds, NEW s \in Files, s \in DOMAIN conf
          PROVE  Len(poll'[c][s]) <= PollNr(c, s)
      <4>1. Len(poll[c][s]) <= PollNr(c, s) /\ PollNr(c, s) \in Nat
        BY <1>1, <3>2, ListedProperties DEF EndsAgree
      <4>2. CASE c = kind /\ s = o
        BY <1>1, <2>5, <2>7, <4>1, <4>2
      <4>3. CASE ~(c = kind /\ s = o)
        BY <2>5, <4>1, <4>3
      <4> QED BY <4>2, <4>3
    <3>3. \A c \in Kinds, s \in Files : PollNr(c, s)' = PollNr(c, s)
      BY <1>1 DEF PollNr
    <3> QED BY <1>1, <3>1, <3>2, <3>3 DEF EndsAgree
  <2>9. NoDangling'
    <3>1. ASSUME NEW c \in Kinds, NEW s \in Files,
                 Sources(c, s)' \cup Observers(c, s)' # {}
          PROVE  {s} \cup Sources(c, s)' \cup Observers(c, s)' \subseteq ToSet(list)
      <4>1. Sources(c, s) \cup Observers(c, s) # {} =>
              {s} \cup Sources(c, s) \cup Observers(c, s) \subseteq ToSet(list)
        BY <1>1 DEF NoDangling
      <4>2. /\ Sources(c, s)' = Sources(c, s) \/ (s = o /\ Sources(c, s)' = Sources(c, s) \cup {src})
            /\ Observers(c, s)' = Observers(c, s) \/ (s = src /\ Observers(c, s)' = Observers(c, s) \cup {o})
        BY <2>5
      <4> QED BY <1>1, <2>1, <3>1, <4>1, <4>2
    <3>2. ToSet(list)' = ToSet(list)
      BY <1>1 DEF ToSet
    <3> QED BY <3>1, <3>2 DEF NoDangling
  <2>10. ASSUME NEW c \in Kinds
         PROVE  \E g, h \in Graphs : /\ g = Graph(c) /\ h = Graph(c)'
                                     /\ \A t \in Files : h[t] = IF c = kind /\ t = o THEN g[t] \cup {src} ELSE g[t]
    <3>1. Graph(c) \in Graphs /\ \A t \in Files : Graph(c)[t] = Sources(c, t)
      BY <1>3, GraphType
    <3>2. \A t \in Files : Sources(c, t) \subseteq Files
      BY <3>1 DEF Graphs
    <3>3. \A t \in Files : Sources(c, t)' = IF c = kind /\ t = o THEN Sources(c, t) \cup {src} ELSE Sources(c, t)
      BY <2>5
    <3>4. Graph(c)' = [t \in Files |-> Sources(c, t)']
      BY DEF Graph
    <3>5. Graph(c)' = [t \in Files |-> IF c = kind /\ t = o THEN Sources(c, t) \cup {src} ELSE Sources(c, t)]
      BY <3>3, <3>4
    <3>6. Graph(c)' \in Graphs
      BY <2>1, <3>2, <3>5 DEF Graphs
    <3>7. \A t \in Files : Graph(c)'[t] = IF c = kind /\ t = o THEN Graph(c)[t] \cup {src} ELSE Graph(c)[t]
      BY <3>1, <3>5
    <3> QED BY <3>1, <3>6, <3>7
  <2>11. Acyclic'
    <3> SUFFICES ASSUME NEW c \in Kinds PROVE WellFounded(Graph(c)')
      BY DEF Acyclic, WellFounded
    <3>1. PICK g \in Graphs, h \in Graphs :
             /\ g = Graph(c) /\ h = Graph(c)'
             /\ \A t \in Files : h[t] = IF c = kind /\ t = o THEN g[t] \cup {src} ELSE g[t]
      BY <2>10
    <3>2. WellFounded(g)
      BY <1>1, <3>1 DEF Acyclic
    <3>3. CASE c = kind
      <4>1. o \notin UpstreamIn(g, src)
        BY <2>2, <3>1, <3>3 DEF Upstream
      <4>2. \A t \in Files : h[t] = IF t = o THEN g[o] \cup {src} ELSE g[t]
        BY <3>1, <3>3
      <4>3. src \in Files /\ src # o
        BY <2>1, <2>2
      <4>4. WellFounded(h)
        <5>1. h = [g EXCEPT ![o] = g[o] \cup {src}]
          BY <1>1, <4>2 DEF Graphs
        <5>2. WellFounded([g EXCEPT ![o] = g[o] \cup {src}])
          BY <1>1, <3>2, <4>1, <4>3, AddSource
        <5> QED BY <5>1, <5>2
      <4> QED BY <3>1, <4>4
    <3>4. CASE c # kind
      <4>1. \A t \in Files : h[t] \subseteq g[t]
        BY <3>1, <3>4
      <4>2. WellFounded(h)
        BY <3>2, <4>1, FewerSources
      <4> QED BY <3>1, <4>2
    <3> QED BY <3>3, <3>4
  <2>12. \A c \in Kinds, s \in Files : Upstream(c, s) \subseteq Upstream(c, s)'
    <3> SUFFICES ASSUME NEW c \in Kinds, NEW s \in Files
                 PROVE  Upstream(c, s) \subseteq Upstream(c, s)'
      OBVIOUS
    <3>1. PICK g \in Graphs, h \in Graphs :
             /\ g = Graph(c) /\ h = Graph(c)'
             /\ \A t \in Files : h[t] = IF c = kind /\ t = o THEN g[t] \cup {src} ELSE g[t]
      BY <2>10
    <3>2. \A t \in Files : g[t] \subseteq h[t]
      BY <3>1
    <3>3. UpstreamIn(g, s) \subseteq UpstreamIn(h, s)
      BY <3>2, UpstreamMonotone
    <3>4. Upstream(c, s)' = UpstreamIn(h, s) /\ Upstream(c, s) = UpstreamIn(g, s)
      BY <3>1 DEF Upstream, UpstreamIn
    <3> QED BY <3>3, <3>4
  <2>13. ASSUME NEW i \in DOMAIN list, NEW k \in DOMAIN KindList
         PROVE  RegisteredOK(i, k)'
    <3>pair. PICK c \in Kinds, t \in Files : c = KindList[k] /\ t = list[i]
      BY <1>1, ListedProperties, KindsAreListed
    <3>0. PICK ns : c = KindList[k] /\ t = list[i] /\ ns = conf[t].on[c]
      BY <3>pair
    <3>1. /\ Len(poll[c][t]) <= DoneNr(i, k)
          /\ \A s \in Sources(c, t) : \E j \in 1 .. DoneNr(i, k) : conf[s].name = ns[j]
          /\ \A j \in 1 .. DoneNr(i, k) : \A s \in SearchByName(ns[j]) :
               s \in Sources(c, t) \/ s = t \/ t \in Upstream(c, s)
      BY <1>2, <3>0 DEF RegisteredOK
    <3>2. \A j \in 1 .. DoneNr(i, k) : \A s \in SearchByName(ns[j]) :
            s \in Files /\ (s \in Sources(c, t) \/ s = t \/ t \in Upstream(c, s))
      BY <1>1, <3>1, SearchProperties
    <3>3. \A j \in 1 .. DoneNr(i, k) : \A s \in SearchByName(ns[j]) :
            s \in Sources(c, t)' \/ s = t \/ t \in Upstream(c, s)'
      BY <2>5, <2>12, <3>1, <3>2
    <3>4. CASE ~(i = at.svc /\ k = at.kind)
      <4>1. DoneNr(i, k)' = DoneNr(i, k)
        BY <3>4, DoneOneMore
      <4>2. ~(c = kind /\ t = o)
        BY <1>1, <1>4, <3>0, <3>4, ListedProperties, KindsAreListed
      <4>3. Sources(c, t)' = Sources(c, t) /\ Len(poll'[c][t]) = Len(poll[c][t])
        BY <2>5, <4>2
      <4>4. /\ Len(poll'[c][t]) <= DoneNr(i, k)
            /\ \A s \in Sources(c, t) : \E j \in 1 .. DoneNr(i, k) : conf[s].name = ns[j]
        BY <3>1, <4>3
      <4> QED BY <1>1, <1>6, <3>0, <3>3, <4>1, <4>3, <4>4 DEF RegisteredOK
    <3>5. CASE i = at.svc /\ k = at.kind
      <4>1. DoneNr(i, k) = at.name - 1 /\ DoneNr(i, k)' = at.name
        BY <3>5, DoneOneMore
      <4>2. c = kind /\ t = o /\ ns = names
        BY <1>4, <3>0, <3>5
      <4>3. Sources(c, t)' = Sources(c, t) \cup {src}
        BY <2>5, <4>2
      <4>4. Len(poll'[c][t]) <= at.name
        <5>1. Len(poll'[kind][o]) = Len(poll[kind][o]) + 1 /\ Len(poll[kind][o]) \in Nat
          BY <1>1, <2>5
        <5> QED BY <1>1, <2>7, <4>2, <5>1
      <4>5. \A s \in Sources(c, t)' : \E j \in 1 .. at.name : conf[s].name = ns[j]
        <5>1. \A s \in Sources(c, t) : \E j \in 1 .. at.name - 1 : conf[s].name = ns[j]
          BY <3>1, <4>1
        <5>2. conf[src].name = ns[at.name] /\ at.name \in 1 .. at.name
          BY <1>1, <2>1, <4>2
        <5>3. \A j \in 1 .. at.name - 1 : j \in 1 .. at.name
          BY <1>1
        <5> QED BY <4>3, <5>1, <5>2, <5>3
      <4>6. \A j \in 1 .. at.name : \A s \in SearchByName(ns[j]) :
              s \in Sources(c, t)' \/ s = t \/ t \in Upstream(c, s)'
        <5> SUFFICES ASSUME NEW j \in 1 .. at.name, NEW s \in SearchByName(ns[j])
                     PROVE  s \in Sources(c, t)' \/ s = t \/ t \in Upstream(c, s)'
          OBVIOUS
        <5>1. CASE j = at.name
          <6>1. s = src
            BY <2>1, <4>2, <5>1 DEF found
          <6> QED BY <4>3, <6>1
        <5>2. CASE j # at.name
          <6>1. j \in 1 .. DoneNr(i, k)
            BY <1>1, <4>1, <5>2
          <6> QED BY <3>3, <6>1
        <5> QED BY <5>1, <5>2
      <4> QED BY <1>1, <1>6, <3>0, <4>1, <4>4, <4>5, <4>6 DEF RegisteredOK
    <3> QED BY <3>4, <3>5
  <2> QED BY <1>1, <1>7, <1>8, <2>6, <2>8, <2>9, <2>11, <2>13 DEF IInv
<1>11. \/ \E src \in found :
            \/ ~HasNotifier(kind, src, o) /\ Register(kind, src, o)
            \/ HasNotifier(kind, src, o) /\ UNCHANGED <<poll, obsrv>>
       \/ found = {} /\ UNCHANGED <<poll, obsrv>>
  BY <1>0 DEF Setup, found
<1>12. ASSUME NEW src \in found, HasNotifier(kind, src, o), UNCHANGED <<poll, obsrv>>
       PROVE  IInv'
  BY <1>5, <1>9, <1>12
<1>13. ASSUME found = {}, UNCHANGED <<poll, obsrv>>
       PROVE  IInv'
  BY <1>9, <1>13
<1> QED BY <1>10, <1>11, <1>12, <1>13

-----------------------------------------------------------------------------
(* Clearing.                                                                *)

(* svc_destroy() takes the first service out of the graphs, and only that.  *)
LEMMA ClearRemovesVertex ==
  ASSUME IInv, ClearSvc
  PROVE  \E s \in Files :
           /\ s = Head(list) /\ list # <<>> /\ list' = Tail(list)
           /\ pc = "clear" /\ UNCHANGED <<conf, pc, dir, at>>
           /\ poll' \in [Kinds -> [Files -> Seq(Files \cup {NoSvc})]]
           /\ obsrv' \in [Kinds -> [Files -> Seq(Files)]]
           /\ \A c \in Kinds, t \in Files :
                /\ Sources(c, t)' = IF t = s THEN {} ELSE Sources(c, t) \ {s}
                /\ Observers(c, t)' = IF t = s THEN {} ELSE Observers(c, t) \ {s}
                /\ Len(poll'[c][t]) <= Len(poll[c][t])
                /\ IsInjective(obsrv[c][t])'
<1>1. /\ RepoTypeOK /\ Loaded /\ EndsAgree
      /\ list \in Seq(Files)
      /\ poll \in [Kinds -> [Files -> Seq(Files \cup {NoSvc})]]
      /\ obsrv \in [Kinds -> [Files -> Seq(Files)]]
  BY DEF IInv, RepoTypeOK
<1>2. PICK s \in Files :
        /\ s = Head(list) /\ list # <<>> /\ list' = Tail(list)
        /\ pc = "clear" /\ UNCHANGED <<conf, pc, dir, at>>
        /\ poll' = [kind \in Kinds |-> [o \in Files |->
                     IF o = s THEN <<>>
                     ELSE IF o \in Observers(kind, s) THEN LoseSource(s, kind, o)
                     ELSE poll[kind][o]]]
        /\ obsrv' = [kind \in Kinds |-> [o \in Files |->
                     IF o = s THEN <<>>
                     ELSE IF o \in Sources(kind, s) THEN RemoveFirst(obsrv[kind][o], s)
                     ELSE obsrv[kind][o]]]
  <2>1. Head(list) \in Files
    BY <1>1 DEF ClearSvc
  <2> QED BY <2>1 DEF ClearSvc
<1>3. s # NoSvc
  BY <1>2, RepoAssumption
<1>4. \A c \in Kinds, t \in Files :
        /\ Sources(c, t) = ToSet(poll[c][t]) \ {NoSvc}
        /\ Sources(c, t)' = ToSet(poll'[c][t]) \ {NoSvc}
        /\ Observers(c, t) = ToSet(obsrv[c][t])
        /\ Observers(c, t)' = ToSet(obsrv'[c][t])
        /\ IsInjective(obsrv[c][t])' = IsInjective(obsrv'[c][t])
  BY DEF Sources, Observers, ToSet, IsInjective
<1>5. ToSet(<<>>) = {} /\ IsInjective(<<>>) /\ \A S : <<>> \in Seq(S)
  BY DEF ToSet, IsInjective
<1>6. ASSUME NEW c \in Kinds, NEW t \in Files
      PROVE  /\ poll'[c][t] \in Seq(Files \cup {NoSvc})
             /\ Sources(c, t)' = IF t = s THEN {} ELSE Sources(c, t) \ {s}
             /\ Len(poll'[c][t]) <= Len(poll[c][t])
  <2>1. PICK p \in Seq(Files \cup {NoSvc}) : p = poll[c][t]
    BY <1>1
  <2>2. Len(p) \in Nat /\ DOMAIN p = 1 .. Len(p)
    OBVIOUS
  <2>3. CASE t = s
    <3>1. poll'[c][t] = <<>>
      BY <1>2, <2>3
    <3> QED BY <1>4, <1>5, <2>1, <2>2, <2>3, <3>1
  <2>4. CASE t # s /\ t \in Observers(c, s)
    <3> DEFINE q == [i \in DOMAIN p |-> IF p[i] = s THEN NoSvc ELSE p[i]]
    <3>1. poll'[c][t] = q
      BY <1>2, <2>1, <2>4 DEF LoseSource
    <3>2. q \in [1 .. Len(p) -> Files \cup {NoSvc}]
      BY <2>2
    <3>3. q \in Seq(Files \cup {NoSvc}) /\ Len(q) = Len(p) /\ DOMAIN q = DOMAIN p
      BY <2>2, <3>2
    <3>4. ToSet(q) \ {NoSvc} = (ToSet(p) \ {NoSvc}) \ {s}
      <4>1. \A i \in DOMAIN p : q[i] = IF p[i] = s THEN NoSvc ELSE p[i]
        OBVIOUS
      <4> HIDE DEF q
      <4>2. ASSUME NEW x \in ToSet(q), x # NoSvc
            PROVE  x \in ToSet(p) /\ x # s
        BY <3>3, <4>1, <4>2 DEF ToSet
      <4>3. ASSUME NEW x \in ToSet(p), x # s
            PROVE  x \in ToSet(q)
        BY <3>3, <4>1, <4>3 DEF ToSet
      <4> QED BY <1>3, <4>2, <4>3
    <3> HIDE DEF q
    <3> QED BY <1>4, <2>1, <2>2, <2>4, <3>1, <3>3, <3>4
  <2>5. CASE t # s /\ t \notin Observers(c, s)
    <3>1. poll'[c][t] = p
      BY <1>2, <2>1, <2>5
    <3>2. s \notin Sources(c, t)
      BY <1>1, <2>5 DEF EndsAgree
    <3> QED BY <1>4, <2>1, <2>2, <2>5, <3>1, <3>2
  <2> QED BY <2>3, <2>4, <2>5
<1>7. ASSUME NEW c \in Kinds, NEW t \in Files
      PROVE  /\ obsrv'[c][t] \in Seq(Files)
             /\ Observers(c, t)' = IF t = s THEN {} ELSE Observers(c, t) \ {s}
             /\ IsInjective(obsrv'[c][t])
  <2>1. PICK p \in Seq(Files) : p = obsrv[c][t] /\ IsInjective(p)
    BY <1>1 DEF EndsAgree
  <2>2. CASE t = s
    <3>1. obsrv'[c][t] = <<>>
      BY <1>2, <2>2
    <3> QED BY <1>4, <1>5, <2>2, <3>1
  <2>3. CASE t # s /\ t \in Sources(c, s)
    <3>1. obsrv'[c][t] = RemoveFirst(p, s)
      BY <1>2, <2>1, <2>3
    <3>2. s \in ToSet(p)
      BY <1>1, <1>4, <2>1, <2>3 DEF EndsAgree
    <3>3. /\ RemoveFirst(p, s) \in Seq(Files)
          /\ IsInjective(RemoveFirst(p, s))
          /\ ToSet(RemoveFirst(p, s)) = ToSet(p) \ {s}
      BY <2>1, <3>2, RemoveFirstElements
    <3> QED BY <1>4, <2>1, <2>3, <3>1, <3>3
  <2>4. CASE t # s /\ t \notin Sources(c, s)
    <3>1. obsrv'[c][t] = p
      BY <1>2, <2>1, <2>4
    <3>2. s \notin Observers(c, t)
      BY <1>1, <2>4 DEF EndsAgree
    <3> QED BY <1>4, <2>1, <2>4, <3>1, <3>2
  <2> QED BY <2>2, <2>3, <2>4
<1>8. /\ poll' \in [Kinds -> [Files -> Seq(Files \cup {NoSvc})]]
      /\ obsrv' \in [Kinds -> [Files -> Seq(Files)]]
  <2>1. /\ poll' = [c \in Kinds |-> [t \in Files |-> poll'[c][t]]]
        /\ obsrv' = [c \in Kinds |-> [t \in Files |-> obsrv'[c][t]]]
    BY <1>2
  <2> QED BY <1>6, <1>7, <2>1
<1>9. \A c \in Kinds, t \in Files : IsInjective(obsrv[c][t])'
  BY <1>4, <1>7
<1> QED BY <1>2, <1>6, <1>7, <1>8, <1>9

LEMMA ClearSvcGood ==
  ASSUME IInv, ClearSvc
  PROVE  IInv'
<1>1. PICK s \in Files :
        /\ s = Head(list) /\ list # <<>> /\ list' = Tail(list)
        /\ pc = "clear" /\ UNCHANGED <<conf, pc, dir, at>>
        /\ poll' \in [Kinds -> [Files -> Seq(Files \cup {NoSvc})]]
        /\ obsrv' \in [Kinds -> [Files -> Seq(Files)]]
        /\ \A c \in Kinds, t \in Files :
             /\ Sources(c, t)' = IF t = s THEN {} ELSE Sources(c, t) \ {s}
             /\ Observers(c, t)' = IF t = s THEN {} ELSE Observers(c, t) \ {s}
             /\ Len(poll'[c][t]) <= Len(poll[c][t])
             /\ IsInjective(obsrv[c][t])'
  BY ClearRemovesVertex
<1>2. /\ RepoTypeOK /\ Loaded /\ EndsAgree /\ NoDangling /\ Acyclic
      /\ list \in Seq(Files) /\ IsInjective(list)
      /\ poll \in [Kinds -> [Files -> Seq(Files \cup {NoSvc})]]
  BY DEF IInv, RepoTypeOK, Loaded
<1>3. /\ list' \in Seq(Files) /\ IsInjective(list)' /\ ToSet(list)' = ToSet(list) \ {s}
  <2>1. /\ Tail(list) \in Seq(Files)
        /\ IsInjective(Tail(list))
        /\ ToSet(Tail(list)) = ToSet(list) \ {Head(list)}
    BY <1>1, <1>2, TailElements
  <2>2. IsInjective(list)' = IsInjective(list') /\ ToSet(list)' = ToSet(list')
    BY DEF IsInjective, ToSet
  <2>3. list' = Tail(list) /\ s = Head(list)
    BY <1>1
  <2>4. IsInjective(list') /\ ToSet(list') = ToSet(list) \ {s}
    BY <2>1, <2>3
  <2> QED BY <2>1, <2>2, <2>3, <2>4
<1>4. RepoTypeOK'
  BY <1>1, <1>2, <1>3 DEF RepoTypeOK
<1>5. Loaded'
  BY <1>1, <1>2, <1>3 DEF Loaded
<1>6. EndsAgree'
  <2>1. ASSUME NEW c \in Kinds, NEW t \in Files, t \in DOMAIN conf
        PROVE  Len(poll'[c][t]) <= PollNr(c, t)'
    <3>1. Len(poll[c][t]) <= PollNr(c, t) /\ PollNr(c, t) \in Nat
      BY <1>2, <2>1, ListedProperties DEF EndsAgree
    <3>2. PollNr(c, t)' = PollNr(c, t)
      BY <1>1 DEF PollNr
    <3>3. poll[c][t] \in Seq(Files \cup {NoSvc}) /\ poll'[c][t] \in Seq(Files \cup {NoSvc})
      BY <1>1, <1>2
    <3>4. Len(poll[c][t]) \in Nat /\ Len(poll'[c][t]) \in Nat
      BY <3>3, LenProperties, Zenon
    <3>5. Len(poll'[c][t]) <= Len(poll[c][t])
      BY <1>1
    <3> QED BY <3>1, <3>2, <3>4, <3>5
  <2>2. ASSUME NEW c \in Kinds, NEW t \in Files, NEW o \in Files
        PROVE  t \in Sources(c, o)' <=> o \in Observers(c, t)'
    <3>1. t \in Sources(c, o) <=> o \in Observers(c, t)
      BY <1>2 DEF EndsAgree
    <3>2. /\ Sources(c, o)' = IF o = s THEN {} ELSE Sources(c, o) \ {s}
          /\ Observers(c, t)' = IF t = s THEN {} ELSE Observers(c, t) \ {s}
      BY <1>1
    <3> QED BY <3>1, <3>2
  <2> QED BY <1>1, <2>1, <2>2 DEF EndsAgree
<1>7. NoDangling'
  <2>1. ASSUME NEW c \in Kinds, NEW t \in Files,
               Sources(c, t)' \cup Observers(c, t)' # {}
        PROVE  {t} \cup Sources(c, t)' \cup Observers(c, t)' \subseteq ToSet(list) \ {s}
    <3>1. Sources(c, t) \cup Observers(c, t) # {} =>
            {t} \cup Sources(c, t) \cup Observers(c, t) \subseteq ToSet(list)
      BY <1>2 DEF NoDangling
    <3>2. /\ t # s
          /\ Sources(c, t)' = Sources(c, t) \ {s}
          /\ Observers(c, t)' = Observers(c, t) \ {s}
      BY <1>1, <2>1
    <3> QED BY <2>1, <3>1, <3>2
  <2> QED BY <1>3, <2>1 DEF NoDangling
<1>8. Acyclic'
  <2> SUFFICES ASSUME NEW c \in Kinds PROVE WellFounded(Graph(c)')
    BY DEF Acyclic, WellFounded
  <2>1. Graph(c) \in Graphs /\ \A t \in Files : Graph(c)[t] = Sources(c, t)
    BY <1>2, GraphType DEF PollType
  <2>2. Graph(c)' = [t \in Files |-> Sources(c, t)']
    BY DEF Graph
  <2>3. \A t \in Files : Sources(c, t)' \subseteq Sources(c, t)
    BY <1>1
  <2>4. PICK g \in Graphs, h \in Graphs : g = Graph(c) /\ h = Graph(c)' /\ \A t \in Files : h[t] \subseteq g[t]
    <3>1. Graph(c)' \in Graphs
      BY <2>1, <2>2, <2>3 DEF Graphs
    <3>2. \A t \in Files : Graph(c)'[t] \subseteq Graph(c)[t]
      BY <2>1, <2>2, <2>3
    <3> QED BY <2>1, <3>1, <3>2
  <2>5. WellFounded(g)
    BY <1>2, <2>4 DEF Acyclic
  <2>6. WellFounded(h)
    BY <2>4, <2>5, FewerSources
  <2> QED BY <2>4, <2>6
<1> QED BY <1>1, <1>4, <1>5, <1>6, <1>7, <1>8 DEF IInv

-----------------------------------------------------------------------------
(* The invariant holds.                                                     *)

LEMMA NextGood == IInv /\ [RepoNext]_vars => IInv'
<1> SUFFICES ASSUME IInv, [RepoNext]_vars PROVE IInv'
  OBVIOUS
<1>1. CASE LoadSvc
  BY <1>1, LoadSvcGood
<1>2. CASE LoadEnd
  BY <1>2, LoadEndGood
<1>3. CASE LoadFail \/ Unload \/ ClearEnd
  BY <1>3, LeaveGood
<1>4. CASE Setup
  BY <1>4, SetupGood
<1>5. CASE SetupNext
  BY <1>5, SetupNextGood
<1>6. CASE SetupEnd
  BY <1>6, SetupEndGood
<1>7. CASE ClearSvc
  BY <1>7, ClearSvcGood
<1>8. CASE UNCHANGED vars
  <2>1. UNCHANGED <<conf, pc, dir, list, at, poll, obsrv>>
    BY <1>8 DEF vars
  <2>2. UNCHANGED <<conf, dir, list, poll, obsrv>> /\ RepoTypeOK
        /\ pc' \in {"load", "setup", "run", "clear", "end"} /\ at' \in [svc : Nat, kind : Nat, name : Nat]
    BY <2>1 DEF IInv, RepoTypeOK
  <2>3. /\ RepoTypeOK' /\ Loaded' /\ EndsAgree' /\ NoDangling' /\ Acyclic'
        /\ NothingRegistered => NothingRegistered'
    BY <2>2, SameGraphs
  <2>4. PositionOK => PositionOK'
    BY <2>1 DEF PositionOK, CurrentNames, CurrentSvc, CurrentKind
  <2>5. \A i, k : DoneNr(i, k)' = DoneNr(i, k)
    BY <2>1 DEF DoneNr, PollNr
  <2>6. ASSUME pc \in {"setup", "run"}, NEW i \in DOMAIN list, NEW k \in DOMAIN KindList
        PROVE  RegisteredOK(i, k)'
    <3>1. pc' \in {"setup", "run"}
      BY <2>1, <2>6
    <3> QED BY <2>2, <2>5, <2>6, <3>1, PositionMoves
  <2> QED BY <2>1, <2>3, <2>4, <2>6 DEF IInv
<1> QED BY <1>1, <1>2, <1>3, <1>4, <1>5, <1>6, <1>7, <1>8 DEF RepoNext

(* The inductive invariant.                                                 *)
LEMMA Invariant == RepoSpec => []IInv
BY InitGood, NextGood, PTL DEF RepoSpec

(* Type correctness of what the directory, the loops of the registration    *)
(* and the struct notif lists hold.                                         *)
THEOREM RepoTypeCorrect == RepoSpec => []RepoTypeOK
<1>1. IInv => RepoTypeOK
  BY DEF IInv
<1> QED BY <1>1, Invariant, PTL

(* For any files, names and settings, notif_register_poll_sink() and the    *)
(* two unregister functions keep the polled sources and the observer lists  *)
(* the same relation, and no notif_poll gets more members than it has room. *)
THEOREM EndsMeet == RepoSpec => []EndsAgree
<1>1. IInv => EndsAgree
  BY DEF IInv
<1> QED BY <1>1, Invariant, PTL

(* While tinit_repo_clear() destroys the services one by one, no service    *)
(* left, and no service freed, has a source or an observer that is freed.   *)
THEOREM NothingDangles == RepoSpec => []NoDangling
<1>1. IInv => NoDangling
  BY DEF IInv
<1> QED BY <1>1, Invariant, PTL

(* What the registration has done when all its loops are over.              *)
LEMMA AllNamesDone ==
  ASSUME IInv, pc = "run", NEW kind \in Kinds, NEW o \in ToSet(list)
  PROVE  /\ DOMAIN conf[o].on[kind] = 1 .. PollNr(kind, o)
         /\ \E x \in DOMAIN list, k \in DOMAIN KindList :
              /\ o = list[x] /\ kind = KindList[k]
              /\ RegisteredOK(x, k) /\ DoneNr(x, k) = PollNr(kind, o)
<1>1. RepoTypeOK /\ Loaded /\ at.svc > Len(list) /\ at.svc \in Nat
  BY DEF IInv, RepoTypeOK
<1>2. PICK x \in DOMAIN list : o = list[x]
  BY DEF ToSet
<1>3. PICK k \in DOMAIN KindList : kind = KindList[k]
  BY KindsAreListed
<1>4. x < at.svc /\ o \in DOMAIN conf
  <2>1. x \in 1 .. Len(list) /\ Len(list) \in Nat
    BY <1>1, ListedProperties
  <2> QED BY <1>1, <1>2, <2>1, ListedProperties
<1>5. DoneNr(x, k) = PollNr(kind, o)
  BY <1>2, <1>3, <1>4 DEF DoneNr
<1>6. RegisteredOK(x, k)
  BY DEF IInv
<1>7. conf[o].on[kind] \in Seq(Names)
  BY <1>1, <1>4, ListedProperties
<1> QED BY <1>2, <1>3, <1>5, <1>6, <1>7 DEF PollNr

(* For any number of services and any settings: no service is upstream of   *)
(* itself, at any moment of the registration, so that the recursion of      *)
(* svc_has_starton_notifier() ends; and every dependency that names a       *)
(* service is registered unless it closes a loop.                           *)
THEOREM LoopsAreRefused == RepoSpec => []LoopsRefused
<1>1. ASSUME IInv PROVE LoopsRefused
  <2>1. ASSUME NEW kind \in Kinds, NEW s \in Files
        PROVE  s \notin Upstream(kind, s)
    <3>1. Graph(kind) \in Graphs
      BY <1>1, GraphType DEF IInv, RepoTypeOK, PollType
    <3>2. WellFounded(Graph(kind))
      BY <1>1 DEF IInv, Acyclic
    <3> QED BY <3>1, <3>2, NothingUpstreamOfItself DEF Upstream
  <2>2. ASSUME pc = "run", NEW kind \in Kinds, NEW o \in ToSet(list),
               NEW i \in DOMAIN conf[o].on[kind],
               NEW src \in SearchByName(conf[o].on[kind][i])
        PROVE  src \in Sources(kind, o) \/ src = o \/ o \in Upstream(kind, src)
    <3>1. i \in 1 .. PollNr(kind, o)
      BY <1>1, <2>2, AllNamesDone
    <3>2. PICK x \in DOMAIN list, k \in DOMAIN KindList :
             /\ o = list[x] /\ kind = KindList[k]
             /\ RegisteredOK(x, k) /\ DoneNr(x, k) = PollNr(kind, o)
      BY <1>1, <2>2, AllNamesDone
    <3> QED BY <3>1, <3>2 DEF RegisteredOK
  <2> QED BY <2>1, <2>2 DEF LoopsRefused
<1> QED BY <1>1, Invariant, PTL

(* What Svc and Tinit assume of a graph of dependencies (GraphAssumption):  *)
(* its sources and observers are services of the repository, seen from both *)
(* ends, and no service is its own source.                                  *)
ServiceGraph(Services, on, observers) ==
  /\ on \in [Services -> SUBSET Services]
  /\ observers \in [Services -> Seq(Services)]
  /\ \A s, o \in Services : s \in on[o] <=> o \in ToSet(observers[s])
  /\ \A s \in Services : s \notin on[s]

(* When tinit runs, its repository is such a graph for starton and for      *)
(* stopon: the assumption the theorems on Svc rest on is what repo.c        *)
(* establishes, from any configuration.                                     *)
THEOREM GraphsForServices ==
  RepoSpec =>
    [](pc = "run" =>
         \A kind \in Kinds :
           ServiceGraph(ToSet(list), [s \in ToSet(list) |-> Sources(kind, s)],
                        [s \in ToSet(list) |-> obsrv[kind][s]]))
<1>1. ASSUME IInv, NEW kind \in Kinds
      PROVE  ServiceGraph(ToSet(list), [s \in ToSet(list) |-> Sources(kind, s)],
                          [s \in ToSet(list) |-> obsrv[kind][s]])
  <2> DEFINE S == ToSet(list)
  <2>1. S \subseteq Files
    BY <1>1 DEF IInv, Loaded
  <2>2. \A s \in S : Sources(kind, s) \subseteq S /\ Observers(kind, s) \subseteq S
    BY <1>1, <2>1 DEF IInv, NoDangling
  <2>3. \A s \in S : Observers(kind, s) = ToSet(obsrv[kind][s])
    BY DEF Observers, ToSet
  <2>4. ASSUME NEW s \in S
        PROVE  obsrv[kind][s] \in Seq(S)
    <3>1. PICK q \in Seq(Files) : q = obsrv[kind][s]
      BY <1>1, <2>1 DEF IInv, RepoTypeOK
    <3>2. \A i \in 1 .. Len(q) : q[i] \in S
      BY <2>2, <3>1 DEF Observers
    <3> HIDE DEF S
    <3>3. q \in Seq(S)
      BY <3>2
    <3> QED BY <3>1, <3>3
  <2>5. ASSUME NEW s \in S
        PROVE  s \notin Sources(kind, s)
    <3>1. Graph(kind) \in Graphs /\ Graph(kind)[s] = Sources(kind, s)
      BY <1>1, <2>1, GraphType DEF IInv, RepoTypeOK, PollType
    <3>2. s \notin UpstreamIn(Graph(kind), s)
      BY <1>1, <2>1, <3>1, NothingUpstreamOfItself DEF IInv, Acyclic
    <3> QED BY <2>1, <3>1, <3>2, UpstreamClosed
  <2>6. \A s, o \in S : s \in Sources(kind, o) <=> o \in Observers(kind, s)
    BY <1>1, <2>1 DEF IInv, EndsAgree
  <2> HIDE DEF S
  <2>7. ServiceGraph(S, [s \in S |-> Sources(kind, s)], [s \in S |-> obsrv[kind][s]])
    BY <2>2, <2>3, <2>4, <2>5, <2>6 DEF ServiceGraph
  <2> QED BY <2>7 DEF S
<1>2. IInv => \A kind \in Kinds :
                 ServiceGraph(ToSet(list), [s \in ToSet(list) |-> Sources(kind, s)],
                              [s \in ToSet(list) |-> obsrv[kind][s]])
  BY <1>1
<1> QED BY <1>2, Invariant, PTL
=============================================================================
