---------------------------- MODULE StatusProofs ----------------------------
(***************************************************************************)
(* A client that asks for the status of services reads exactly what the    *)
(* server has: for any services, any repository, any lengths of paths and  *)
(* any size of messages that meet the assumptions of Svc and Status.       *)
(*                                                                         *)
(* The loops of srv.c and lib.c are recursive functions.  A recursive      *)
(* function is a CHOOSE: it obeys its equation only if a function that     *)
(* obeys it exists.  For the loops that sum up or collect, Iteration gives *)
(* one; for the messages of the server (ReplyTo) and the iterator of the   *)
(* client (IterAfter) a closed form is written down, shown to obey the     *)
(* equation, and shown by InductTo to be the only one that does.           *)
(***************************************************************************)
EXTENDS Status, TinitProofs, WellFoundedInduction

-----------------------------------------------------------------------------
(* Loops that run to n.                                                     *)
Less == {ss \in Nat \X Nat : ss[1] < ss[2]}

(* A set of numbers that is not empty has a least one.                      *)
LEMMA LeastNat ==
  ASSUME NEW T \in SUBSET Nat, T # {}
  PROVE  \E n \in T : \A m \in T : n <= m
<1>1. IsWellFoundedOn(Less, Nat)
  BY NatLessThanWellFounded DEF OpToRel, Less
<1>2. PICK n \in T : \A m \in T : <<m, n>> \notin Less
  BY <1>1, WFMin, Zenon
<1>3. ASSUME NEW m \in T PROVE n <= m
  <2>1. m \in Nat /\ n \in Nat /\ <<m, n>> \notin Less
    BY <1>2
  <2> QED BY <2>1 DEF Less
<1> QED BY <1>3

(* Induction up to n: nothing is the least number that is not in T.         *)
LEMMA InductTo ==
  ASSUME NEW n \in Nat, NEW T, 0 \in T, \A i \in 1 .. n : i - 1 \in T => i \in T
  PROVE  \A i \in 0 .. n : i \in T
<1> SUFFICES ASSUME NEW k \in 0 .. n, k \notin T PROVE FALSE
  OBVIOUS
<1> DEFINE C == (0 .. n) \ T
<1>1. C \in SUBSET Nat /\ C # {}
  OBVIOUS
<1>2. PICK i \in C : \A m \in C : i <= m
  BY <1>1, LeastNat
<1>3. i \in 1 .. n
  BY <1>2
<1>4. i - 1 \in T
  <2> SUFFICES ASSUME i - 1 \notin T PROVE FALSE
    OBVIOUS
  <2>1. i - 1 \in C
    BY <1>3
  <2> QED BY <1>2, <1>3, <2>1
<1> QED BY <1>2, <1>3, <1>4

(* The values of a loop that starts with x and takes the step G[i] at i.     *)
Iterates(n, X, x, G) ==
  {f \in [0 .. n -> X] : f[0] = x /\ \A i \in 1 .. n : f[i] = G[i][f[i - 1]]}

(* There is such a loop: what has run to k - 1 can be carried on to k.       *)
LEMMA Iteration ==
  ASSUME NEW n \in Nat, NEW X, NEW x \in X, NEW G \in [1 .. n -> [X -> X]]
  PROVE  Iterates(n, X, x, G) # {}
<1> DEFINE Ok(f, k) == /\ f \in [0 .. k -> X]
                       /\ f[0] = x
                       /\ \A i \in 1 .. k : f[i] = G[i][f[i - 1]]
           T == {k \in 0 .. n : \E f : Ok(f, k)}
<1>1. 0 \in T
  <2>1. Ok([i \in 0 .. 0 |-> x], 0)
    OBVIOUS
  <2> HIDE DEF Ok
  <2> QED BY <2>1
<1>2. ASSUME NEW k \in 1 .. n, k - 1 \in T PROVE k \in T
  <2>1. PICK f : Ok(f, k - 1)
    BY <1>2
  <2> DEFINE g == [i \in 0 .. k |-> IF i = k THEN G[k][f[k - 1]] ELSE f[i]]
  <2>2. f[k - 1] \in X /\ G[k] \in [X -> X]
    BY <2>1
  <2>3. g \in [0 .. k -> X]
    BY <2>1, <2>2
  <2>4. g[0] = x
    BY <2>1
  <2>5. ASSUME NEW i \in 1 .. k PROVE g[i] = G[i][g[i - 1]]
    BY <2>1
  <2>6. Ok(g, k)
    BY <2>3, <2>4, <2>5
  <2> HIDE DEF Ok, g
  <2> QED BY <2>6
<1>3. n \in T
  <2> HIDE DEF T
  <2>1. \A i \in 1 .. n : i - 1 \in T => i \in T
    BY <1>2
  <2>2. \A i \in 0 .. n : i \in T
    BY ONLY n \in Nat, <1>1, <2>1, InductTo
  <2> QED BY <2>2
<1>4. PICK f : Ok(f, n)
  BY <1>3
<1> QED BY <1>4 DEF Iterates

-----------------------------------------------------------------------------
(* Where the entries are.                                                   *)

(* The alignment moves up by less than an entry's, and ignores what is     *)
(* already aligned.                                                         *)
LEMMA RoundUpperFacts ==
  ASSUME NEW m \in Nat
  PROVE  /\ RoundUpper(m, DataSize) \in Nat
         /\ m <= RoundUpper(m, DataSize) /\ RoundUpper(m, DataSize) <= m + DataSize - 1
         /\ RoundUpper(m, DataSize) % DataSize = 0
         /\ \A b \in Nat : b % DataSize = 0 =>
              RoundUpper(b + m, DataSize) = b + RoundUpper(m, DataSize)
BY DEF RoundUpper, DataSize

(* All listed services that match are asked for, and no others.             *)
LEMMA MatchingServices ==
  ASSUME NEW matched
  PROVE  /\ Matching(matched) \in Seq(Services)
         /\ ElementsOf(Matching(matched)) = matched \cap ElementsOf(Listed)
<1> DEFINE n == Len(Listed)
           G == [i \in 1 .. n |-> [found \in Seq(Services) |->
                   IF Listed[i] \in matched THEN Append(found, Listed[i]) ELSE found]]
           R(f) == f = [i \in 0 .. n |->
                     IF i = 0 THEN <<>>
                     ELSE IF Listed[i] \in matched THEN Append(f[i - 1], Listed[i])
                     ELSE f[i - 1]]
           Found == CHOOSE f : R(f)
<1>1. n \in Nat /\ \A i \in 1 .. n : Listed[i] \in Services
  BY StatusAssumption
<1>2. G \in [1 .. n -> [Seq(Services) -> Seq(Services)]]
  BY <1>1
<1>3. PICK f \in Iterates(n, Seq(Services), <<>>, G) : TRUE
  <2>1. <<>> \in Seq(Services)
    OBVIOUS
  <2> HIDE DEF G, n
  <2> QED BY <1>1, <1>2, <2>1, Iteration
<1>4. R(f)
  <2>1. ASSUME NEW i \in 1 .. n
        PROVE  f[i] = IF Listed[i] \in matched THEN Append(f[i - 1], Listed[i]) ELSE f[i - 1]
    <3>1. f[i - 1] \in Seq(Services) /\ f[i] = G[i][f[i - 1]]
      <4> HIDE DEF n, G
      <4> QED BY <1>1, <1>3 DEF Iterates
    <3>2. G[i] = [found \in Seq(Services) |->
                   IF Listed[i] \in matched THEN Append(found, Listed[i]) ELSE found]
      OBVIOUS
    <3> HIDE DEF n, G
    <3>3. G[i][f[i - 1]] = IF Listed[i] \in matched THEN Append(f[i - 1], Listed[i])
                           ELSE f[i - 1]
      BY ONLY <3>1, <3>2
    <3> QED BY <3>1, <3>3
  <2>2. f = [i \in 0 .. n |-> f[i]]
    BY <1>3 DEF Iterates
  <2>3. ASSUME NEW i \in 0 .. n
        PROVE  f[i] = IF i = 0 THEN <<>>
                      ELSE IF Listed[i] \in matched THEN Append(f[i - 1], Listed[i])
                      ELSE f[i - 1]
    <3> HIDE DEF n, G
    <3>1. CASE i = 0
      BY <1>3, <3>1 DEF Iterates
    <3>2. CASE i \in 1 .. n
      <4> i # 0
        BY <1>1, <3>2
      <4> QED BY <2>1, <3>2
    <3> QED BY ONLY <1>1, <3>1, <3>2, i \in 0 .. n
  <2> HIDE DEF n
  <2> QED BY <2>2, <2>3
<1>5. R(Found)
  <2> HIDE DEF R
  <2> QED BY <1>4
<1> DEFINE First(i) == {Listed[j] : j \in 1 .. i}
           T == {i \in 0 .. n : /\ Found[i] \in Seq(Services)
                                /\ ElementsOf(Found[i]) = matched \cap First(i)}
<1>6. \A i \in 0 .. n : Found[i] =
        IF i = 0 THEN <<>>
        ELSE IF Listed[i] \in matched THEN Append(Found[i - 1], Listed[i])
        ELSE Found[i - 1]
  <2> HIDE DEF Found
  <2> QED BY <1>5
<1>7. Matching(matched) = Found[n]
  BY DEF Matching
<1> HIDE DEF Found, n
<1>8. 0 \in T
  <2>1. 0 \in 0 .. n
    BY ONLY <1>1
  <2>2. Found[0] = <<>>
    BY ONLY <2>1, <1>6
  <2>3. <<>> \in Seq(Services) /\ ElementsOf(<<>>) = {}
    BY DEF ElementsOf
  <2>4. First(0) = {}
    OBVIOUS
  <2> HIDE DEF First
  <2> QED BY <2>1, <2>2, <2>3, <2>4
<1>9. ASSUME NEW i \in 1 .. n, i - 1 \in T PROVE i \in T
  <2>1. i \in 0 .. n /\ i # 0
    BY ONLY <1>1
  <2>2. /\ Found[i - 1] \in Seq(Services)
        /\ ElementsOf(Found[i - 1]) = matched \cap First(i - 1)
    BY <1>9
  <2>3. Found[i] = IF Listed[i] \in matched THEN Append(Found[i - 1], Listed[i])
                   ELSE Found[i - 1]
    BY ONLY <2>1, <1>6
  <2>4. First(i) = First(i - 1) \cup {Listed[i]}
    <3>1. 1 .. i = (1 .. i - 1) \cup {i}
      BY <1>1
    <3> QED BY <3>1
  <2>5. PICK found \in Seq(Services) : found = Found[i - 1]
    BY <2>2
  <2>6. Listed[i] \in Services
    BY <1>1
  <2>7. /\ Append(found, Listed[i]) \in Seq(Services)
        /\ ElementsOf(Append(found, Listed[i])) = ElementsOf(found) \cup {Listed[i]}
    <3> DEFINE s == Append(found, Listed[i])
               m == Len(found)
    <3>1. /\ s \in Seq(Services) /\ m \in Nat
          /\ DOMAIN found = 1 .. m /\ DOMAIN s = 1 .. m + 1
          /\ s[m + 1] = Listed[i] /\ \A j \in 1 .. m : s[j] = found[j]
      BY <2>6
    <3> HIDE DEF s, m
    <3>2. ASSUME NEW x
          PROVE  x \in ElementsOf(s) <=> x \in ElementsOf(found) \/ x = Listed[i]
      <4>1. ASSUME NEW j \in 1 .. m + 1 PROVE j = m + 1 \/ j \in 1 .. m
        BY <3>1
      <4>2. m + 1 \in 1 .. m + 1 /\ 1 .. m \subseteq 1 .. m + 1
        BY <3>1
      <4> QED BY ONLY <3>1, <4>1, <4>2 DEF ElementsOf
    <3> QED BY <3>1, <3>2 DEF s
  <2> HIDE DEF First
  <2>8. CASE Listed[i] \in matched
    <3>1. Found[i] = Append(found, Listed[i])
      BY ONLY <2>3, <2>5, <2>8
    <3>2. matched \cap First(i) = (matched \cap First(i - 1)) \cup {Listed[i]}
      BY ONLY <2>4, <2>8
    <3> QED BY ONLY <2>1, <2>2, <2>5, <2>7, <3>1, <3>2
  <2>9. CASE Listed[i] \notin matched
    <3>1. Found[i] = found
      BY ONLY <2>3, <2>5, <2>9
    <3>2. matched \cap First(i) = matched \cap First(i - 1)
      BY ONLY <2>4, <2>9
    <3> QED BY ONLY <2>1, <2>2, <2>5, <3>1, <3>2
  <2> QED BY ONLY <2>8, <2>9
<1>10. \A i \in 0 .. n : i \in T
  <2> HIDE DEF T
  <2>1. \A i \in 1 .. n : i - 1 \in T => i \in T
    BY <1>9
  <2> QED BY ONLY <1>1, <1>8, <2>1, InductTo
<1>11. First(n) = ElementsOf(Listed)
  BY StatusAssumption DEF ElementsOf, n
<1>12. n \in T
  <2> HIDE DEF T
  <2> QED BY <1>1, <1>10
<1> HIDE DEF First
<1> QED BY <1>7, <1>11, <1>12

(* Sizes obeys its equation.                                                *)
LEMMA SizesSum ==
  ASSUME NEW a \in Seq(Services)
  PROVE  /\ Sizes(a)[0] = ReplySize
         /\ \A i \in 1 .. Len(a) : Sizes(a)[i] = Sizes(a)[i - 1] + DataSize + PathLen[a[i]] + 1
         /\ \A i \in 0 .. Len(a) : Sizes(a)[i] \in Nat
<1> DEFINE n == Len(a)
           l(i) == PathLen[a[i]]
           G == [i \in 1 .. n |-> [size \in Nat |-> size + DataSize + l(i) + 1]]
           R(f) == f = [i \in 0 .. n |->
                     IF i = 0 THEN ReplySize ELSE f[i - 1] + DataSize + l(i) + 1]
           Size == CHOOSE f : R(f)
<1>1. n \in Nat /\ \A i \in 1 .. n : l(i) \in Nat
  BY StatusAssumption
<1>2. G \in [1 .. n -> [Nat -> Nat]] /\ ReplySize \in Nat
  <2> HIDE DEF n, l
  <2> QED BY <1>1 DEF DataSize, ReplySize
<1>3. PICK f \in Iterates(n, Nat, ReplySize, G) : TRUE
  <2> HIDE DEF G, n
  <2> QED BY <1>1, <1>2, Iteration
<1>4. R(f)
  <2>1. f \in [0 .. n -> Nat] /\ f[0] = ReplySize /\ \A i \in 1 .. n : f[i] = G[i][f[i - 1]]
    <3> HIDE DEF G, n
    <3> QED BY <1>3 DEF Iterates
  <2> HIDE DEF n, l
  <2>2. ASSUME NEW i \in 1 .. n PROVE f[i] = f[i - 1] + DataSize + l(i) + 1
    <3>1. G[i] = [size \in Nat |-> size + DataSize + l(i) + 1]
      OBVIOUS
    <3> HIDE DEF G
    <3>2. f[i] = G[i][f[i - 1]] /\ f[i - 1] \in Nat
      BY <1>1, <2>1
    <3> QED BY <3>1, <3>2
  <2> QED BY <1>1, <2>1, <2>2
<1>5. R(Size)
  <2> HIDE DEF R
  <2> QED BY <1>4
<1>6. Sizes(a) = Size
  BY DEF Sizes
<1>7. /\ Size[0] = ReplySize
      /\ \A i \in 1 .. n : Size[i] = Size[i - 1] + DataSize + l(i) + 1
  <2> HIDE DEF Size, n, l
  <2> QED BY <1>1, <1>5
<1> HIDE DEF Size
<1> DEFINE T == {i \in 0 .. n : Size[i] \in Nat}
<1>8. \A i \in 0 .. n : i \in T
  <2> HIDE DEF n, l
  <2>1. 0 \in T
    BY <1>1, <1>2, <1>7
  <2>2. ASSUME NEW i \in 1 .. n, i - 1 \in T PROVE i \in T
    <3>1. Size[i - 1] \in Nat /\ i \in 0 .. n /\ l(i) \in Nat
      BY <1>1, <2>2
    <3>2. Size[i] = Size[i - 1] + DataSize + l(i) + 1
      BY <1>7
    <3>3. \A m, d \in Nat : m + DataSize + d + 1 \in Nat
      BY ONLY DEF DataSize
    <3>4. Size[i - 1] + DataSize + l(i) + 1 \in Nat
      BY ONLY <3>1, <3>3
    <3> QED BY <3>1, <3>2, <3>4
  <2> HIDE DEF T
  <2>3. \A i \in 1 .. n : i - 1 \in T => i \in T
    BY <2>2
  <2> QED BY ONLY <1>1, <2>1, <2>3, InductTo
<1> QED BY <1>6, <1>7, <1>8

(* Where the next entry goes once a message has size bytes.                 *)
Aligned(size) == RoundUpper(size, DataSize)

(* The length of the message that holds the first entries of a, however     *)
(* long a message may be, and the offset of the entry of a[i] in it.        *)
Bytes(a) ==
  CHOOSE f \in [0 .. Len(a) -> Nat] :
    /\ f[0] = ReplySize
    /\ \A i \in 1 .. Len(a) : f[i] = Aligned(f[i - 1]) + DataSize + PathLen[a[i]] + 1

Offset(a, i) == Aligned(Bytes(a)[i - 1])

(* Bytes obeys its equation.                                                *)
LEMMA BytesSum ==
  ASSUME NEW a \in Seq(Services)
  PROVE  /\ Bytes(a) \in [0 .. Len(a) -> Nat]
         /\ Bytes(a)[0] = ReplySize
         /\ \A i \in 1 .. Len(a) : Bytes(a)[i] = Offset(a, i) + DataSize + PathLen[a[i]] + 1
<1> DEFINE n == Len(a)
           l(i) == PathLen[a[i]]
           G == [i \in 1 .. n |-> [size \in Nat |-> Aligned(size) + DataSize + l(i) + 1]]
<1>1. n \in Nat /\ \A i \in 1 .. n : l(i) \in Nat
  BY StatusAssumption
<1>2. G \in [1 .. n -> [Nat -> Nat]] /\ ReplySize \in Nat
  <2>1. \A size \in Nat : Aligned(size) \in Nat
    BY RoundUpperFacts DEF Aligned
  <2> HIDE DEF n, l
  <2>2. ASSUME NEW i \in 1 .. n
        PROVE  [size \in Nat |-> Aligned(size) + DataSize + l(i) + 1] \in [Nat -> Nat]
    <3>1. l(i) \in Nat
      BY <1>1
    <3>2. \A size \in Nat : Aligned(size) + DataSize + l(i) + 1 \in Nat
      <4>1. \A m, d \in Nat : m + DataSize + d + 1 \in Nat
        BY ONLY DEF DataSize
      <4> QED BY ONLY <2>1, <3>1, <4>1
    <3> QED BY ONLY <3>2
  <2> QED BY <2>2 DEF ReplySize
<1>3. PICK f \in Iterates(n, Nat, ReplySize, G) : TRUE
  <2> HIDE DEF G, n
  <2> QED BY <1>1, <1>2, Iteration
<1>4. f \in [0 .. n -> Nat] /\ f[0] = ReplySize /\ \A i \in 1 .. n : f[i] = G[i][f[i - 1]]
  <2> HIDE DEF G, n
  <2> QED BY <1>3 DEF Iterates
<1>5. ASSUME NEW i \in 1 .. n PROVE f[i] = Aligned(f[i - 1]) + DataSize + l(i) + 1
  <2> HIDE DEF n, l
  <2>1. G[i] = [size \in Nat |-> Aligned(size) + DataSize + l(i) + 1]
    OBVIOUS
  <2> HIDE DEF G
  <2>2. f[i] = G[i][f[i - 1]] /\ f[i - 1] \in Nat
    BY <1>1, <1>4
  <2> QED BY <2>1, <2>2
<1> QED BY <1>4, <1>5 DEF Bytes, Offset

(* An entry begins at most DataSize - 1 bytes behind the one before it, on  *)
(* an alignment boundary, and ends with the message.                        *)
LEMMA OffsetFacts ==
  ASSUME NEW a \in Seq(Services), NEW i \in 1 .. Len(a)
  PROVE  /\ Bytes(a)[i - 1] \in Nat /\ Bytes(a)[i] \in Nat
         /\ Offset(a, i) \in Nat /\ PathLen[a[i]] \in Nat
         /\ Offset(a, i) % DataSize = 0
         /\ Bytes(a)[i - 1] <= Offset(a, i)
         /\ Offset(a, i) <= Bytes(a)[i - 1] + DataSize - 1
         /\ Bytes(a)[i] = Offset(a, i) + DataSize + PathLen[a[i]] + 1
         /\ Bytes(a)[i] = Offset(a, i) + (DataSize + PathLen[a[i]] + 1)
         /\ Offset(a, i) < Bytes(a)[i]
         /\ Bytes(a)[i - 1] + DataSize <= Bytes(a)[i]
         /\ Bytes(a)[i - 1] <= Bytes(a)[i]
<1>1. Bytes(a)[i - 1] \in Nat /\ Bytes(a)[i] \in Nat
  BY BytesSum
<1>2. PathLen[a[i]] \in Nat
  BY StatusAssumption
<1>3. Bytes(a)[i] = Offset(a, i) + DataSize + PathLen[a[i]] + 1
  BY BytesSum
<1>4. /\ Offset(a, i) \in Nat
      /\ Offset(a, i) % DataSize = 0
      /\ Bytes(a)[i - 1] <= Offset(a, i)
      /\ Offset(a, i) <= Bytes(a)[i - 1] + DataSize - 1
  BY <1>1, RoundUpperFacts DEF Offset, Aligned
<1>5. PICK b \in Nat, at \in Nat, e \in Nat, len \in Nat :
        b = Bytes(a)[i - 1] /\ at = Offset(a, i) /\ e = Bytes(a)[i] /\ len = PathLen[a[i]]
  BY <1>1, <1>2, <1>4
<1>6. e = at + DataSize + len + 1 /\ b <= at
  BY <1>3, <1>4, <1>5
<1>7. /\ e = at + (DataSize + len + 1)
      /\ at < e /\ b + DataSize <= e /\ b <= e
  BY ONLY <1>6, b \in Nat, at \in Nat, e \in Nat, len \in Nat DEF DataSize
<1> QED BY <1>1, <1>2, <1>3, <1>4, <1>5, <1>7

(* The first entry follows the head of the reply: where lib.c looks for it. *)
LEMMA FirstOffset ==
  ASSUME NEW a
  PROVE  Bytes(a)[0] = ReplySize => Offset(a, 1) = ReplySize
BY DEF Offset, Aligned, RoundUpper, ReplySize, DataSize

(* tinit_step_status(), which rounds up the length of an entry, arrives      *)
(* where the server, which rounds up the length of the message, put the     *)
(* next one.                                                                *)
LEMMA NextOffset ==
  ASSUME NEW a \in Seq(Services), NEW i \in 1 .. Len(a)
  PROVE  Aligned(Bytes(a)[i]) = Offset(a, i) + RoundUpper(DataSize + PathLen[a[i]] + 1, DataSize)
<1> DEFINE b == Offset(a, i)
           m == DataSize + PathLen[a[i]] + 1
<1>1. b \in Nat /\ b % DataSize = 0 /\ PathLen[a[i]] \in Nat
  BY OffsetFacts
<1>2. m \in Nat
  BY <1>1 DEF DataSize
<1>3. Bytes(a)[i] = b + m
  BY OffsetFacts
<1> HIDE DEF b, m
<1>4. RoundUpper(b + m, DataSize) = b + RoundUpper(m, DataSize)
  BY <1>1, <1>2, RoundUpperFacts
<1> QED BY <1>3, <1>4 DEF Aligned, b, m

(* A message only grows.                                                    *)
LEMMA BytesGrow ==
  ASSUME NEW a \in Seq(Services), NEW k \in 0 .. Len(a)
  PROVE  \A j \in 0 .. k : Bytes(a)[j] <= Bytes(a)[k]
<1> DEFINE T == {i \in 0 .. Len(a) : \A j \in 0 .. i : Bytes(a)[j] <= Bytes(a)[i]}
<1>1. 0 \in T
  BY BytesSum
<1>2. ASSUME NEW i \in 1 .. Len(a), i - 1 \in T PROVE i \in T
  <2>1. Bytes(a)[i - 1] \in Nat /\ Bytes(a)[i] \in Nat /\ Bytes(a)[i - 1] <= Bytes(a)[i]
    BY OffsetFacts
  <2>2. ASSUME NEW j \in 0 .. i PROVE Bytes(a)[j] <= Bytes(a)[i]
    <3>1. Bytes(a)[j] \in Nat
      BY BytesSum
    <3>2. CASE j = i
      BY <2>1, <3>2
    <3>3. CASE j \in 0 .. i - 1
      <4>1. Bytes(a)[j] <= Bytes(a)[i - 1]
        BY <1>2, <3>3
      <4> QED BY ONLY <2>1, <3>1, <4>1
    <3> QED BY <3>2, <3>3
  <2> QED BY <2>2
<1>3. Len(a) \in Nat
  OBVIOUS
<1>4. k \in T
  <2> HIDE DEF T
  <2>1. \A i \in 1 .. Len(a) : i - 1 \in T => i \in T
    BY <1>2
  <2>2. \A i \in 0 .. Len(a) : i \in T
    BY ONLY <1>1, <1>3, <2>1, InductTo
  <2> QED BY <2>2
<1> QED BY <1>4

(* No two entries are at the same place.                                    *)
LEMMA OffsetsApart ==
  ASSUME NEW a \in Seq(Services), NEW i \in 1 .. Len(a), NEW j \in 1 .. Len(a), j < i
  PROVE  Offset(a, j) < Offset(a, i)
<1>1. /\ Offset(a, j) < Bytes(a)[j] /\ Bytes(a)[i - 1] <= Offset(a, i)
      /\ Offset(a, j) \in Nat /\ Offset(a, i) \in Nat
      /\ Bytes(a)[j] \in Nat /\ Bytes(a)[i - 1] \in Nat
  BY OffsetFacts
<1>2. Bytes(a)[j] <= Bytes(a)[i - 1]
  <2>1. i - 1 \in 0 .. Len(a) /\ j \in 0 .. i - 1
    OBVIOUS
  <2> QED BY <2>1, BytesGrow
<1> QED BY ONLY <1>1, <1>2

(* MaxSteps allows for all the entries.                                     *)
LEMMA RoomForEntries ==
  ASSUME NEW a \in Seq(Services), NEW k \in 1 .. Len(a)
  PROVE  /\ Bytes(a)[k] \div DataSize \in Nat
         /\ k <= Bytes(a)[k] \div DataSize
<1> DEFINE T == {i \in 0 .. Len(a) : (i + 1) * DataSize <= Bytes(a)[i]}
<1>1. 0 \in T
  BY BytesSum DEF ReplySize, DataSize
<1>2. ASSUME NEW i \in 1 .. Len(a), i - 1 \in T PROVE i \in T
  <2>1. /\ Bytes(a)[i - 1] \in Nat /\ Bytes(a)[i] \in Nat
        /\ Bytes(a)[i - 1] + DataSize <= Bytes(a)[i]
    BY OffsetFacts
  <2>2. i * DataSize <= Bytes(a)[i - 1]
    BY <1>2
  <2> QED BY <2>1, <2>2 DEF DataSize
<1>3. k \in T
  <2> HIDE DEF T
  <2>1. \A i \in 1 .. Len(a) : i - 1 \in T => i \in T
    BY <1>2
  <2>2. Len(a) \in Nat
    OBVIOUS
  <2>3. \A i \in 0 .. Len(a) : i \in T
    BY ONLY <1>1, <2>1, <2>2, InductTo
  <2> QED BY <2>3
<1>4. Bytes(a)[k] \in Nat /\ (k + 1) * DataSize <= Bytes(a)[k]
  BY <1>3, BytesSum
<1> QED BY <1>4 DEF DataSize

(* Aligned, the entries take at most DataSize - 1 bytes more each, but for  *)
(* the first.                                                               *)
LEMMA AlignmentCosts ==
  ASSUME NEW a \in Seq(Services), NEW k \in 1 .. Len(a)
  PROVE  Bytes(a)[k] <= Sizes(a)[k] + (DataSize - 1) * (k - 1)
<1> DEFINE B == Bytes(a)
           S == Sizes(a)
           T == {i \in 0 .. Len(a) : i > 0 => B[i] <= S[i] + (DataSize - 1) * (i - 1)}
<1>1. 0 \in T
  BY Len(a) \in Nat
<1>2. ASSUME NEW i \in 1 .. Len(a), i - 1 \in T PROVE i \in T
  <2>1. PICK b \in Nat, at \in Nat, e \in Nat, len \in Nat, s \in Nat :
          /\ b = B[i - 1] /\ at = Offset(a, i) /\ e = B[i] /\ len = PathLen[a[i]]
          /\ s = S[i - 1]
    <3>1. B[i - 1] \in Nat /\ Offset(a, i) \in Nat /\ B[i] \in Nat /\ PathLen[a[i]] \in Nat
      BY OffsetFacts
    <3>2. S[i - 1] \in Nat
      BY SizesSum
    <3> HIDE DEF B, S
    <3> QED BY <3>1, <3>2
  <2>2. e = at + DataSize + len + 1 /\ at <= b + DataSize - 1
    BY <2>1, OffsetFacts
  <2>3. S[i] = s + DataSize + len + 1
    BY <2>1, SizesSum
  <2>4. i = 1 => at = ReplySize /\ s = ReplySize
    BY <2>1, BytesSum, SizesSum, FirstOffset
  <2>5. i - 1 > 0 => b <= s + (DataSize - 1) * ((i - 1) - 1)
    BY <1>2, <2>1
  <2>6. e <= (s + DataSize + len + 1) + (DataSize - 1) * (i - 1)
    <3>1. i \in Nat /\ i >= 1
      OBVIOUS
    <3>2. CASE i = 1
      BY ONLY <2>2, <2>4, <3>2, b \in Nat, at \in Nat, e \in Nat, len \in Nat, s \in Nat
         DEF DataSize, ReplySize
    <3>3. CASE i > 1
      <4>1. b <= s + 7 * ((i - 1) - 1)
        BY <2>5, <3>1, <3>3 DEF DataSize
      <4>2. e <= (s + 8 + len + 1) + 7 * (i - 1)
        BY ONLY <2>2, <3>1, <4>1, b \in Nat, at \in Nat, e \in Nat, len \in Nat, s \in Nat
           DEF DataSize
      <4> QED BY <4>2 DEF DataSize
    <3> QED BY <3>1, <3>2, <3>3
  <2> QED BY <2>1, <2>3, <2>6
<1>3. k \in T
  <2> HIDE DEF T
  <2>1. \A i \in 1 .. Len(a) : i - 1 \in T => i \in T
    BY <1>2
  <2>2. Len(a) \in Nat
    OBVIOUS
  <2>3. \A i \in 0 .. Len(a) : i \in T
    BY ONLY <1>1, <2>1, <2>2, InductTo
  <2> QED BY <2>3
<1> QED BY <1>3

-----------------------------------------------------------------------------
(* What the server answers.                                                 *)

(* The place in a of the entry at o; what the first i entries of a leave in *)
(* the message; the message; and the reply, or the error, that the request  *)
(* comes to after i of the services.                                        *)
Placed(a, o) == CHOOSE j \in 1 .. Len(a) : Offset(a, j) = o

Data(a, i) == [o \in {Offset(a, j) : j \in 1 .. i} |-> Entry(a[Placed(a, o)])]

Full(a, i) == [ret |-> "0", bytes |-> Bytes(a)[i], data |-> Data(a, i)]

ReplyTo(max, a, i) ==
  IF i = 0 THEN EmptyReply
  ELSE IF Bytes(a)[i] > max THEN ErrorReply("ENOSPC")
  ELSE Full(a, i)

(* A place holds one entry.                                                 *)
LEMMA PlacedIs ==
  ASSUME NEW a \in Seq(Services), NEW i \in 1 .. Len(a)
  PROVE  Placed(a, Offset(a, i)) = i
<1> DEFINE p == Placed(a, Offset(a, i))
<1>1. p \in 1 .. Len(a) /\ Offset(a, p) = Offset(a, i)
  BY DEF Placed
<1> HIDE DEF p
<1>2. ~(p < i) /\ ~(i < p)
  <2>1. Offset(a, i) \in Nat
    BY OffsetFacts
  <2>2. ASSUME p < i PROVE FALSE
    <3>1. Offset(a, p) < Offset(a, i)
      BY <1>1, <2>2, OffsetsApart
    <3> QED BY <1>1, <2>1, <3>1
  <2>3. ASSUME i < p PROVE FALSE
    <3>1. Offset(a, i) < Offset(a, p)
      BY <1>1, <2>3, OffsetsApart
    <3> QED BY <1>1, <2>1, <3>1
  <2> QED BY <2>2, <2>3
<1>3. p = i
  BY <1>1, <1>2
<1> QED BY <1>3 DEF p

(* No entry is overwritten by a later one.                                  *)
LEMMA DataAt ==
  ASSUME NEW a \in Seq(Services), NEW n \in 1 .. Len(a), NEW i \in 1 .. n
  PROVE  Offset(a, i) \in DOMAIN Data(a, n) /\ Data(a, n)[Offset(a, i)] = Entry(a[i])
<1>1. i \in 1 .. Len(a)
  OBVIOUS
<1>2. Placed(a, Offset(a, i)) = i
  BY <1>1, PlacedIs
<1> QED BY <1>2 DEF Data

(* An entry more.                                                           *)
LEMMA DataGrows ==
  ASSUME NEW a \in Seq(Services), NEW n \in 1 .. Len(a), NEW data,
         data = IF n = 1 THEN <<>> ELSE Data(a, n - 1)
  PROVE  Written(data, Offset(a, n), Entry(a[n])) = Data(a, n)
<1> DEFINE D(m) == {Offset(a, j) : j \in 1 .. m}
<1>1. DOMAIN data = D(n - 1)
  <2>1. CASE n = 1
    <3>1. data = <<>>
      BY <2>1
    <3>2. DOMAIN data = {}
      BY <3>1
    <3>3. D(n - 1) = {}
      BY <2>1
    <3> QED BY <3>2, <3>3
  <2>2. CASE n # 1
    BY <2>2 DEF Data
  <2> QED BY <2>1, <2>2
<1>2. D(n) = D(n - 1) \cup {Offset(a, n)}
  <2>1. 1 .. n = (1 .. n - 1) \cup {n}
    OBVIOUS
  <2> QED BY <2>1
<1>3. ASSUME NEW o \in D(n)
      PROVE  (IF o = Offset(a, n) THEN Entry(a[n]) ELSE data[o]) = Entry(a[Placed(a, o)])
  <2>1. CASE o = Offset(a, n)
    BY <2>1, PlacedIs
  <2>2. CASE o # Offset(a, n)
    <3>1. o \in D(n - 1)
      BY <1>2, <1>3, <2>2
    <3>2. n # 1
      BY <3>1
    <3>3. data[o] = Entry(a[Placed(a, o)])
      BY <3>1, <3>2 DEF Data
    <3> QED BY <2>2, <3>3
  <2> QED BY <2>1, <2>2
<1>4. Data(a, n) = [o \in D(n) |-> Entry(a[Placed(a, o)])]
  BY DEF Data
<1> HIDE DEF D
<1> QED BY <1>1, <1>2, <1>3, <1>4 DEF Written

(* The reply after i - 1 services becomes the reply after i: one that has   *)
(* failed stays so, and would not fit later either.                         *)
LEMMA ReplyStep ==
  ASSUME NEW max \in Nat, NEW a \in Seq(Services), NEW i \in 1 .. Len(a)
  PROVE  tinit_srv_append_status_reply(max, ReplyTo(max, a, i - 1), a[i]) = ReplyTo(max, a, i)
<1> DEFINE msg == ReplyTo(max, a, i - 1)
<1>1. /\ Bytes(a)[i - 1] \in Nat /\ Bytes(a)[i] \in Nat
      /\ Bytes(a)[i - 1] <= Bytes(a)[i]
      /\ Bytes(a)[i] = Offset(a, i) + DataSize + PathLen[a[i]] + 1
  BY OffsetFacts
<1>2. CASE i - 1 # 0 /\ Bytes(a)[i - 1] > max
  <2>1. msg = ErrorReply("ENOSPC") /\ msg.ret # "0"
    BY <1>2 DEF ReplyTo, ErrorReply
  <2>2. ReplyTo(max, a, i) = ErrorReply("ENOSPC")
    BY <1>1, <1>2 DEF ReplyTo
  <2> HIDE DEF msg
  <2> QED BY <2>1, <2>2 DEF tinit_srv_append_status_reply, msg
<1>3. CASE i - 1 = 0 \/ ~(Bytes(a)[i - 1] > max)
  <2>1. /\ msg.ret = "0" /\ msg.bytes = Bytes(a)[i - 1]
        /\ msg.data = IF i = 1 THEN <<>> ELSE Data(a, i - 1)
    BY <1>3, BytesSum DEF ReplyTo, EmptyReply, Full
  <2>2. RoundUpper(msg.bytes, DataSize) = Offset(a, i)
    BY <2>1 DEF Offset, Aligned
  <2> HIDE DEF msg
  <2>3. Written(msg.data, Offset(a, i), Entry(a[i])) = Data(a, i)
    BY <2>1, DataGrows
  <2>4. tinit_srv_append_status_reply(max, msg, a[i]) =
          IF Bytes(a)[i] > max THEN ErrorReply("ENOSPC")
          ELSE [ret |-> "0", bytes |-> Bytes(a)[i], data |-> Data(a, i)]
    BY <1>1, <2>1, <2>2, <2>3 DEF tinit_srv_append_status_reply
  <2>5. i # 0
    OBVIOUS
  <2> QED BY <2>4, <2>5 DEF ReplyTo, Full, msg
<1> QED BY <1>2, <1>3

(* The reply is the closed form.                                            *)
LEMMA RepliesAre ==
  ASSUME NEW max \in Nat, NEW a \in Seq(Services)
  PROVE  Replies(max, a)[Len(a)] = ReplyTo(max, a, Len(a))
<1> DEFINE n == Len(a)
           f == [i \in 0 .. n |-> ReplyTo(max, a, i)]
           R(g) == g = [i \in 0 .. n |->
                     IF i = 0 THEN EmptyReply
                     ELSE tinit_srv_append_status_reply(max, g[i - 1], a[i])]
           Reply == CHOOSE g : R(g)
           T == {i \in 0 .. n : Reply[i] = ReplyTo(max, a, i)}
<1>1. n \in Nat
  OBVIOUS
<1>2. R(f)
  <2>1. ASSUME NEW i \in 0 .. n
        PROVE  f[i] = IF i = 0 THEN EmptyReply
                      ELSE tinit_srv_append_status_reply(max, f[i - 1], a[i])
    <3>1. CASE i = 0
      BY <3>1 DEF ReplyTo
    <3>2. CASE i # 0
      <4>1. i \in 1 .. n /\ i - 1 \in 0 .. n
        BY <3>2
      <4>2. f[i] = ReplyTo(max, a, i) /\ f[i - 1] = ReplyTo(max, a, i - 1)
        BY <4>1
      <4> HIDE DEF f
      <4> QED BY <3>2, <4>1, <4>2, ReplyStep
    <3> QED BY <3>1, <3>2
  <2> QED BY <2>1
<1>3. R(Reply)
  <2> HIDE DEF R, f
  <2> QED BY <1>2
<1>4. \A i \in 0 .. n : Reply[i] =
        IF i = 0 THEN EmptyReply ELSE tinit_srv_append_status_reply(max, Reply[i - 1], a[i])
  <2> HIDE DEF Reply
  <2> QED BY <1>3
<1>5. Replies(max, a) = Reply
  BY DEF Replies
<1> HIDE DEF Reply
<1>6. 0 \in T
  BY <1>1, <1>4 DEF ReplyTo
<1>7. ASSUME NEW i \in 1 .. n, i - 1 \in T PROVE i \in T
  <2>1. Reply[i] = tinit_srv_append_status_reply(max, Reply[i - 1], a[i])
    BY <1>4
  <2>2. Reply[i - 1] = ReplyTo(max, a, i - 1)
    BY <1>7
  <2>3. Reply[i] = ReplyTo(max, a, i)
    BY <2>1, <2>2, ReplyStep
  <2> QED BY <2>3
<1>8. n \in T
  <2> HIDE DEF T
  <2>1. \A i \in 1 .. n : i - 1 \in T => i \in T
    BY <1>7
  <2>2. \A i \in 0 .. n : i \in T
    BY ONLY <1>1, <1>6, <2>1, InductTo
  <2> QED BY <1>1, <2>2
<1> QED BY <1>5, <1>8

-----------------------------------------------------------------------------
(* What the client reads.                                                   *)

(* What the user of the iterator has seen, and the iterator after k steps.  *)
Seen(a, k) == [i \in 1 .. k |-> View(a[i])]

IterAfter(a, k) ==
  IF k < Len(a) THEN Iter("0", Offset(a, k + 1), PathLen[a[k + 1]], Seen(a, k + 1))
  ELSE Iter("ENOENT", Offset(a, Len(a)), PathLen[a[Len(a)]], Seen(a, Len(a)))

(* tinit_parse_status_data() finds the two states of an entry in agreement: *)
(* HandlerMatchesState is what it relies on.                                *)
LEMMA EntriesAgree ==
  ASSUME TypeOK, HandlerMatchesState, NEW s \in Services
  PROVE  /\ Entry(s).run_state \in IF Entry(s).adm_state THEN {"STARTING", "READY"}
                                   ELSE {"STOPPED", "STOPPING"}
         /\ Entry(s).pid # Hidden
         /\ [Entry(s) EXCEPT !.pid = IF Entry(s).run_state = "READY" THEN @ ELSE Hidden] = View(s)
<1>1. /\ svc[s].state \in States /\ svc[s].on \in BOOLEAN
      /\ svc[s].child \in Pids \cup {NoPid}
  BY DEF TypeOK, SvcRecord
<1>2. svc[s].on <=> svc[s].state \in {"STARTING", "READY"}
  BY DEF HandlerMatchesState
<1>3. Hidden \notin Pids \cup {NoPid}
  BY StatusAssumption
<1>4. svc[s].on = (svc[s].state \in {"STARTING", "READY"})
  BY <1>1, <1>2
<1>5. Entry(s).run_state \in IF Entry(s).adm_state THEN {"STARTING", "READY"}
                             ELSE {"STOPPED", "STOPPING"}
  BY <1>1, <1>2 DEF Entry, States
<1>6. Entry(s).pid # Hidden
  BY <1>1, <1>3 DEF Entry
<1>7. [Entry(s) EXCEPT !.pid = IF Entry(s).run_state = "READY" THEN @ ELSE Hidden] = View(s)
  BY <1>4 DEF Entry, View
<1> QED BY <1>5, <1>6, <1>7

(* Every entry is inside the message, as the client checks, and is accepted.*)
LEMMA EntryParsed ==
  ASSUME TypeOK, HandlerMatchesState,
         NEW a \in Seq(Services), NEW i \in 1 .. Len(a)
  PROVE  tinit_parse_status_data(Full(a, Len(a)), Offset(a, i)) =
           [ret |-> "0", len |-> PathLen[a[i]], status |-> View(a[i])]
<1> DEFINE msg == Full(a, Len(a))
           at  == Offset(a, i)
<1>1. at \in DOMAIN msg.data /\ msg.data[at] = Entry(a[i])
  BY DataAt DEF Full
<1>2. msg.bytes = Bytes(a)[Len(a)]
  BY DEF Full
<1>3. at \in Nat /\ msg.bytes \in Nat /\ PathLen[a[i]] \in Nat
  BY <1>2, OffsetFacts, BytesSum
<1>4. at + 8 + PathLen[a[i]] + 1 <= msg.bytes
  <2>1. Bytes(a)[i] = at + 8 + PathLen[a[i]] + 1 /\ Bytes(a)[i] \in Nat
    BY OffsetFacts DEF DataSize
  <2>2. Bytes(a)[i] <= Bytes(a)[Len(a)]
    BY BytesGrow
  <2> QED BY <1>2, <2>1, <2>2
<1>5. PathLen[a[i]] < NameMax
  BY StatusAssumption
<1>6. Entry(a[i]).path = a[i]
  BY DEF Entry
<1> HIDE DEF msg, at
<1>7. ~(at + PathOffset >= msg.bytes) /\ ~(PathLen[a[i]] >= msg.bytes - (at + PathOffset))
      /\ ~(PathLen[a[i]] >= NameMax)
  <2>1. PICK m \in Nat, o \in Nat, len \in Nat :
          m = msg.bytes /\ o = at /\ len = PathLen[a[i]]
    BY <1>3
  <2>2. o + 8 + len + 1 <= m
    BY <1>4, <2>1
  <2>3. ~(o + PathOffset >= m) /\ ~(len >= m - (o + PathOffset))
    BY <2>2 DEF PathOffset
  <2>4. NameMax \in Nat
    BY StatusAssumption
  <2>5. ~(len >= NameMax)
    BY <1>5, <2>1, <2>4
  <2> QED BY <2>1, <2>3, <2>5
<1> DEFINE e == Entry(a[i])
<1>8. /\ e.run_state \in IF e.adm_state THEN {"STARTING", "READY"} ELSE {"STOPPED", "STOPPING"}
      /\ e.pid # Hidden
      /\ [e EXCEPT !.pid = IF e.run_state = "READY" THEN @ ELSE Hidden] = View(a[i])
  BY EntriesAgree
<1>9. msg.data[at] = e /\ e.path = a[i]
  BY <1>1, <1>6
<1> HIDE DEF e
<1> QED BY <1>1, <1>7, <1>8, <1>9 DEF tinit_parse_status_data, msg, at

(* Behind the last entry the client finds the end.                          *)
LEMMA EndParsed ==
  ASSUME NEW a \in Seq(Services), a # <<>>
  PROVE  tinit_parse_status_data(Full(a, Len(a)), Aligned(Bytes(a)[Len(a)])) = Refused("ENOENT")
<1>1. Bytes(a)[Len(a)] \in Nat
  BY BytesSum
<1>2. /\ Aligned(Bytes(a)[Len(a)]) \in Nat
      /\ Bytes(a)[Len(a)] <= Aligned(Bytes(a)[Len(a)])
  BY <1>1, RoundUpperFacts DEF Aligned
<1>3. Aligned(Bytes(a)[Len(a)]) + PathOffset >= Full(a, Len(a)).bytes
  BY <1>1, <1>2 DEF PathOffset, Full
<1> QED BY <1>3 DEF tinit_parse_status_data

(* The client finds the first entry.                                        *)
LEMMA FirstLoaded ==
  ASSUME TypeOK, HandlerMatchesState, NEW a \in Seq(Services), a # <<>>
  PROVE  tinit_load_status(Full(a, Len(a))) = IterAfter(a, 0)
<1>1. 1 \in 1 .. Len(a)
  OBVIOUS
<1>2. Offset(a, 1) = ReplySize
  BY BytesSum, FirstOffset
<1>3. tinit_parse_status_data(Full(a, Len(a)), ReplySize) =
        [ret |-> "0", len |-> PathLen[a[1]], status |-> View(a[1])]
  BY <1>1, <1>2, EntryParsed
<1>4. Full(a, Len(a)).ret = "0"
  BY DEF Full
<1>5. tinit_load_status(Full(a, Len(a))) = Iter("0", ReplySize, PathLen[a[1]], <<View(a[1])>>)
  BY <1>3, <1>4 DEF tinit_load_status
<1>6. Seen(a, 1) = <<View(a[1])>>
  BY DEF Seen
<1>7. IterAfter(a, 0) = Iter("0", Offset(a, 1), PathLen[a[1]], Seen(a, 1))
  BY <1>1 DEF IterAfter
<1> QED BY <1>2, <1>5, <1>6, <1>7

(* A step goes on to the next entry, or ends the iteration behind the last  *)
(* one; after that nothing moves.                                           *)
LEMMA StepIs ==
  ASSUME TypeOK, HandlerMatchesState, NEW a \in Seq(Services), a # <<>>,
         NEW k \in Nat
  PROVE  tinit_step_status(Full(a, Len(a)), IterAfter(a, k)) = IterAfter(a, k + 1)
<1> DEFINE n == Len(a)
           msg == Full(a, n)
           iter == IterAfter(a, k)
           nxt == iter.at + RoundUpper(DataSize + iter.len + 1, DataSize)
<1>1. n \in Nat /\ n > 0
  OBVIOUS
<1>2. CASE k >= n
  <2>1. iter = IterAfter(a, k + 1) /\ iter.ret # "0"
    BY <1>1, <1>2 DEF IterAfter, Iter
  <2> HIDE DEF iter
  <2> QED BY <2>1 DEF tinit_step_status, iter
<1>3. CASE k < n
  <2>1. /\ iter.ret = "0" /\ iter.at = Offset(a, k + 1) /\ iter.len = PathLen[a[k + 1]]
        /\ iter.seen = Seen(a, k + 1)
    BY <1>3 DEF IterAfter, Iter
  <2>2. k + 1 \in 1 .. n
    BY <1>3
  <2>3. nxt = Aligned(Bytes(a)[k + 1])
    BY <2>1, <2>2, NextOffset
  <2>4. CASE k + 1 < n
    <3>1. nxt = Offset(a, k + 2) /\ k + 2 \in 1 .. n
      BY <1>1, <2>3, <2>4 DEF Offset
    <3>2. tinit_parse_status_data(msg, nxt) =
            [ret |-> "0", len |-> PathLen[a[k + 2]], status |-> View(a[k + 2])]
      BY <3>1, EntryParsed
    <3>3. Append(Seen(a, k + 1), View(a[k + 2])) = Seen(a, k + 2)
      BY DEF Seen
    <3>4. IterAfter(a, k + 1) = Iter("0", Offset(a, k + 2), PathLen[a[k + 2]], Seen(a, k + 2))
      BY <2>4 DEF IterAfter
    <3>5. tinit_step_status(msg, iter) =
            Iter("0", nxt, PathLen[a[k + 2]], Append(iter.seen, View(a[k + 2])))
      <4> HIDE DEF msg, iter
      <4> QED BY <2>1, <3>2 DEF tinit_step_status
    <3> QED BY <2>1, <3>1, <3>3, <3>4, <3>5
  <2>5. CASE k + 1 = n
    <3>1. tinit_parse_status_data(msg, nxt) = Refused("ENOENT")
      BY <2>3, <2>5, EndParsed
    <3>2. tinit_step_status(msg, iter) = [iter EXCEPT !.ret = "ENOENT"]
      <4> HIDE DEF msg, iter
      <4> QED BY <2>1, <3>1 DEF tinit_step_status, Refused
    <3>3. iter = Iter("0", Offset(a, n), PathLen[a[n]], Seen(a, n))
      BY <1>3, <2>5 DEF IterAfter
    <3>4. IterAfter(a, k + 1) = Iter("ENOENT", Offset(a, n), PathLen[a[n]], Seen(a, n))
      BY <2>5 DEF IterAfter
    <3>5. [Iter("0", Offset(a, n), PathLen[a[n]], Seen(a, n)) EXCEPT !.ret = "ENOENT"] =
            Iter("ENOENT", Offset(a, n), PathLen[a[n]], Seen(a, n))
      BY DEF Iter
    <3> HIDE DEF iter
    <3> QED BY <3>2, <3>3, <3>4, <3>5 DEF iter
  <2> QED BY <1>1, <1>3, <2>4, <2>5
<1> QED BY <1>1, <1>2, <1>3

(* The iteration is the closed form, and ends with all entries seen.        *)
LEMMA StepsAre ==
  ASSUME TypeOK, HandlerMatchesState, NEW a \in Seq(Services), a # <<>>
  PROVE  Steps(Full(a, Len(a)))[MaxSteps(Full(a, Len(a)))] = IterAfter(a, Len(a))
<1> DEFINE msg == Full(a, Len(a))
           n == MaxSteps(msg)
           f == [k \in 0 .. n |-> IterAfter(a, k)]
           R(g) == g = [k \in 0 .. n |->
                     IF k = 0 THEN tinit_load_status(msg)
                     ELSE tinit_step_status(msg, g[k - 1])]
           Walk == CHOOSE g : R(g)
           T == {k \in 0 .. n : Walk[k] = IterAfter(a, k)}
<1>1. n \in Nat /\ Len(a) <= n /\ Len(a) \in Nat
  <2>1. Len(a) \in 1 .. Len(a)
    OBVIOUS
  <2>2. n = Bytes(a)[Len(a)] \div DataSize
    BY DEF MaxSteps, Full
  <2> HIDE DEF n
  <2> QED BY <2>1, <2>2, RoomForEntries
<1>2. tinit_load_status(msg) = IterAfter(a, 0)
  BY FirstLoaded
<1>3. \A k \in 1 .. n : tinit_step_status(msg, IterAfter(a, k - 1)) = IterAfter(a, k)
  <2> SUFFICES ASSUME NEW k \in 1 .. n
               PROVE  tinit_step_status(msg, IterAfter(a, k - 1)) = IterAfter(a, k)
    OBVIOUS
  <2>1. k - 1 \in Nat /\ (k - 1) + 1 = k
    BY <1>1
  <2> QED BY <2>1, StepIs
<1>4. Steps(msg) = Walk
  BY DEF Steps
<1> HIDE DEF msg, n
<1>5. R(f)
  <2>1. ASSUME NEW k \in 0 .. n
        PROVE  f[k] = IF k = 0 THEN tinit_load_status(msg) ELSE tinit_step_status(msg, f[k - 1])
    <3>1. CASE k = 0
      BY <1>1, <1>2, <3>1
    <3>2. CASE k # 0
      <4>1. k \in 1 .. n /\ k - 1 \in 0 .. n
        BY <1>1, <3>2
      <4>2. f[k] = IterAfter(a, k) /\ f[k - 1] = IterAfter(a, k - 1)
        BY <4>1
      <4> HIDE DEF f
      <4> QED BY <1>3, <3>2, <4>1, <4>2
    <3> QED BY <3>1, <3>2
  <2> QED BY <2>1
<1>6. R(Walk)
  <2> HIDE DEF R, f
  <2> QED BY <1>5
<1>7. \A k \in 0 .. n : Walk[k] =
        IF k = 0 THEN tinit_load_status(msg) ELSE tinit_step_status(msg, Walk[k - 1])
  <2> HIDE DEF Walk
  <2> QED BY <1>6
<1> HIDE DEF Walk
<1>8. 0 \in T
  BY <1>1, <1>2, <1>7
<1>9. ASSUME NEW k \in 1 .. n, k - 1 \in T PROVE k \in T
  <2>1. Walk[k] = tinit_step_status(msg, Walk[k - 1])
    BY <1>1, <1>7
  <2>2. Walk[k - 1] = IterAfter(a, k - 1)
    BY <1>9
  <2>3. Walk[k] = IterAfter(a, k)
    BY <1>3, <2>1, <2>2
  <2> QED BY <1>1, <2>3
<1>10. Walk[n] = IterAfter(a, n)
  <2> HIDE DEF T
  <2>1. \A k \in 1 .. n : k - 1 \in T => k \in T
    BY <1>9
  <2>2. \A k \in 0 .. n : k \in T
    BY ONLY <1>1, <1>8, <2>1, InductTo
  <2>3. n \in T
    BY <1>1, <2>2
  <2> QED BY <2>3 DEF T
<1>11. IterAfter(a, n) = IterAfter(a, Len(a))
  BY <1>1 DEF IterAfter
<1> QED BY <1>4, <1>10, <1>11 DEF n, msg

(* An error of the server reaches the user as it is.                        *)
LEMMA ErrorsRead ==
  ASSUME NEW errno, errno # "0"
  PROVE  LET msg == ErrorReply(errno)
             got == Steps(msg)[MaxSteps(msg)]
         IN  got.ret = errno /\ got.seen = <<>>
<1> DEFINE msg == ErrorReply(errno)
           R(g) == g = [k \in 0 .. 0 |->
                     IF k = 0 THEN tinit_load_status(msg)
                     ELSE tinit_step_status(msg, g[k - 1])]
           Walk == CHOOSE g : R(g)
<1>1. MaxSteps(msg) = 0
  BY DEF MaxSteps, ErrorReply, HeadSize, DataSize
<1>2. Steps(msg) = Walk
  BY <1>1 DEF Steps
<1>3. tinit_load_status(msg) = Iter(errno, 0, 0, <<>>)
  BY DEF tinit_load_status, ErrorReply
<1> HIDE DEF msg
<1>4. R([k \in 0 .. 0 |-> tinit_load_status(msg)])
  OBVIOUS
<1>5. R(Walk)
  <2> HIDE DEF R
  <2> QED BY <1>4
<1>6. Walk[0] = tinit_load_status(msg)
  <2> HIDE DEF Walk
  <2> QED BY <1>5
<1> HIDE DEF Walk
<1>7. Steps(msg)[MaxSteps(msg)] = Iter(errno, 0, 0, <<>>)
  BY <1>1, <1>2, <1>3, <1>6
<1> QED BY <1>7 DEF Iter, msg

-----------------------------------------------------------------------------
(* StatusFaithful follows from two invariants of Svc.                       *)
LEMMA FaithfulIn ==
  ASSUME TypeOK, HandlerMatchesState
  PROVE  StatusFaithful
<1> SUFFICES ASSUME NEW max \in MsgSizes, NEW matched \in SUBSET Services
             PROVE  LET asked == Matching(matched)
                        msg   == tinit_srv_request_status(max, matched)
                        got   == Steps(msg)[MaxSteps(msg)]
                    IN  \/ /\ got.ret = "ENOENT"
                           /\ got.seen = [i \in DOMAIN asked |-> View(asked[i])]
                        \/ /\ got.ret = "ENOSPC" /\ got.seen = <<>>
                           /\ Sizes(asked)[Len(asked)] + (DataSize - 1) * (Len(asked) - 1) > max
  BY DEF StatusFaithful
<1> DEFINE asked == Matching(matched)
           msg   == tinit_srv_request_status(max, matched)
           got   == Steps(msg)[MaxSteps(msg)]
           n     == Len(asked)
<1>1. asked \in Seq(Services) /\ max \in Nat
  BY MatchingServices, StatusAssumption
<1> HIDE DEF asked
<1>2. CASE asked = <<>>
  <2>1. msg = ErrorReply("ENOENT")
    BY <1>2 DEF tinit_srv_request_status, asked
  <2> HIDE DEF msg
  <2>2. got.ret = "ENOENT" /\ got.seen = <<>>
    BY <2>1, ErrorsRead
  <2>3. [i \in DOMAIN asked |-> View(asked[i])] = <<>>
    BY <1>2
  <2> HIDE DEF got
  <2> QED BY <2>2, <2>3 DEF asked, got, msg
<1>3. CASE asked # <<>>
  <2>1. n \in 1 .. n
    BY <1>1, <1>3
  <2>2. msg = ReplyTo(max, asked, n)
    BY <1>1, <1>3, RepliesAre DEF tinit_srv_request_status, asked
  <2>3. CASE Bytes(asked)[n] > max
    <3>1. msg = ErrorReply("ENOSPC")
      BY <2>1, <2>2, <2>3 DEF ReplyTo
    <3> HIDE DEF msg
    <3>2. got.ret = "ENOSPC" /\ got.seen = <<>>
      BY <3>1, ErrorsRead
    <3>3. Bytes(asked)[n] <= Sizes(asked)[n] + (DataSize - 1) * (n - 1)
      BY <1>1, <2>1, AlignmentCosts
    <3>4. PICK b \in Nat, s \in Nat : b = Bytes(asked)[n] /\ s = Sizes(asked)[n]
      BY <1>1, <2>1, BytesSum, SizesSum
    <3>5. s + (DataSize - 1) * (n - 1) > max
      <4>1. b <= s + (DataSize - 1) * (n - 1) /\ b > max /\ n \in Nat
        BY <2>1, <2>3, <3>3, <3>4
      <4> HIDE DEF n
      <4> QED BY ONLY <1>1, <4>1, b \in Nat, s \in Nat DEF DataSize
    <3> HIDE DEF got
    <3> QED BY <3>2, <3>4, <3>5 DEF asked, got, msg
  <2>4. CASE ~(Bytes(asked)[n] > max)
    <3>1. msg = Full(asked, n)
      BY <2>1, <2>2, <2>4 DEF ReplyTo
    <3> HIDE DEF msg
    <3>2. got = IterAfter(asked, n)
      BY <1>1, <1>3, <3>1, StepsAre
    <3>3. got.ret = "ENOENT" /\ got.seen = Seen(asked, n)
      BY <1>1, <3>2 DEF IterAfter, Iter
    <3>4. Seen(asked, n) = [i \in DOMAIN asked |-> View(asked[i])]
      BY <1>1 DEF Seen
    <3> HIDE DEF got
    <3> QED BY <3>3, <3>4 DEF asked, got, msg
  <2> QED BY <2>3, <2>4
<1> QED BY <1>2, <1>3

(* In every reachable state, whatever services a client asks for and however *)
(* long a message may be, it reads those services as they are, or is told    *)
(* that they do not fit.                                                     *)
THEOREM StatusIsFaithful == SvcSpec => []StatusFaithful
<1>1. TypeOK /\ HandlerMatchesState => StatusFaithful
  BY FaithfulIn
<1> QED BY <1>1, TypeCorrect, HandlersMatchState, PTL

(* In the program too, from the boot to the end of the shutdown: the loop   *)
(* leads the services only through states that Svc can get into.            *)
THEOREM RunningStatusIsFaithful ==
  ASSUME BootsOnce
  PROVE  TinitSpec => []StatusFaithful
BY TinitImplementsSvc, StatusIsFaithful, PTL
=============================================================================
