----------------------------- MODULE ConfProofs -----------------------------
(***************************************************************************)
(* The memory of a struct conf_svc, for any names and any bounds: what is  *)
(* allocated belongs to what the structure says it owns, and whoever gives *)
(* up releases just that, a sequence that was refused once too often.      *)
(***************************************************************************)
EXTENDS Conf, TLAPS

(* What conf_fini() would release, but for stdin and stdout.                *)
Owned(c) == c.ptr \cup {f \in Seqs : c.nr[f] > 0}

(* The heap has the owners' blocks, and no other but those of the loading.  *)
HasBlocks(h, c) == \A f \in Owned(c) : Block(f) \in h

OnlyBlocks(h, c) ==
  \A b \in h : /\ b[1] \in Owned(c) \cup {"conf", "lib"}
               /\ b[1] \in Strings \cup {"conf", "lib", "path"} => b = Block(b[1])

Complete(h, c) ==
  /\ \A f \in Arrays \cap c.ptr : <<f, 0, 1>> \in h
  /\ \A f \in Seqs, k \in 1 .. MaxNr :
       k <= c.nr[f] <=> <<f, k, 0>> \in h /\ <<f, k, 1>> \in h

HeapOK(h, c) ==
  HasBlocks(h, c) /\ OnlyBlocks(h, c) /\ Complete(h, c) /\ Block("conf") \in h

(* A name has been read if there is one; a list that is not there is empty. *)
NamesOK(c) ==
  /\ "name" \in c.ptr => c.name \in Names
  /\ \A f \in NameArrs \ c.ptr : c.list[f] = <<>>

RootOK ==
  pc = "root" =>
    /\ mem.twice = {} /\ HeapOK(mem.heap, conf) /\ Block("lib") \in mem.heap
    /\ Owned(conf) \subseteq seen /\ "path" \notin conf.ptr /\ NamesOK(conf)

LoadedOK ==
  pc = "loaded" =>
    /\ mem.twice = {} /\ HeapOK(mem.heap, conf)
    /\ \A b \in mem.heap : b[1] # "lib"

StartOK ==
  pc = "start" => mem = [heap |-> {}, twice |-> {}] /\ conf = NoConf /\ seen = {}

NotFailed == pc # "failed" => failed = "none"

IInv ==
  /\ ConfTypeOK /\ StartOK /\ RootOK /\ LoadedOK /\ NotFailed
  /\ ReleasedTwice /\ LeftBehind /\ LoadedIsUsable

-----------------------------------------------------------------------------
(* Blocks and memory.                                                       *)

LEMMA BlockIs ==
  \A f : Block(f) = <<f, 0, 0>> /\ Block(f)[1] = f /\ (f \in Owners => Block(f) \in Blocks)
BY ConfBounds DEF Block, Blocks

LEMMA StrarrIs ==
  ASSUME NEW f, NEW c, NEW n \in Nat
  PROVE  /\ \A b : b \in Strarr(f, c, n) <=> \E e \in 0 .. n : b = <<f, c, e>>
         /\ \A b \in Strarr(f, c, n) : b[1] = f /\ b[2] = c
         /\ <<f, c, 0>> \in Strarr(f, c, n)
         /\ n > 0 => <<f, c, 1>> \in Strarr(f, c, n)
BY DEF Strarr

LEMMA StrarrTyped ==
  ASSUME NEW f \in Owners, NEW c \in 0 .. MaxNr, NEW n \in 0 .. MaxNr
  PROVE  Strarr(f, c, n) \subseteq Blocks
BY ConfBounds DEF Strarr, Blocks

LEMMA MemoryOps ==
  ASSUME NEW m \in Memory, NEW bs \in SUBSET Blocks
  PROVE  /\ malloc(m, bs) \in Memory /\ free(m, bs) \in Memory
         /\ malloc(m, bs).heap = m.heap \cup bs /\ malloc(m, bs).twice = m.twice
         /\ free(m, bs).heap = m.heap \ bs
         /\ free(m, bs).twice = m.twice \cup (bs \ m.heap)
BY DEF Memory, malloc, free

(* An array whose loading fails leaves no trace.                            *)
LEMMA StrarrFailureIsClean ==
  ASSUME NEW m \in Memory, NEW f \in Owners, NEW c \in 0 .. MaxNr,
         \A b \in m.heap : ~(b[1] = f /\ b[2] = c)
  PROVE  StrarrFailures(m, f, c) = {m}
<1> SUFFICES ASSUME NEW e \in 0 .. MaxNr - 1
             PROVE  strarr_destroy(malloc(m, Strarr(f, c, e)), f, c) = m
  BY DEF StrarrFailures
<1> DEFINE a == malloc(m, Strarr(f, c, e))
           bs == {<<f, c, 0>>} \cup {b \in a.heap : b[1] = f /\ b[2] = c}
<1>1. e \in Nat /\ e \in 0 .. MaxNr
  BY ConfBounds
<1>2. /\ a \in Memory /\ a.heap = m.heap \cup Strarr(f, c, e) /\ a.twice = m.twice
  BY <1>1, StrarrTyped, MemoryOps
<1> DEFINE sa == Strarr(f, c, e)
<1>3. (\A b \in sa : b[1] = f /\ b[2] = c) /\ <<f, c, 0>> \in sa
  BY <1>1, StrarrIs
<1>4. a.heap = m.heap \cup sa
  BY <1>2
<1> HIDE DEF sa, a
<1>5. \A b \in sa : b \notin m.heap
  BY <1>3
<1>6. bs = sa
  BY <1>3, <1>4, <1>5
<1>7. strarr_destroy(a, f, c) = [heap |-> a.heap \ bs, twice |-> a.twice \cup (bs \ a.heap)]
  BY DEF strarr_destroy, free
<1> HIDE DEF bs
<1>8. a.heap \ bs = m.heap
  BY <1>4, <1>5, <1>6
<1>9. a.twice \cup (bs \ a.heap) = m.twice
  BY <1>2, <1>4, <1>6
<1>10. m = [heap |-> m.heap, twice |-> m.twice]
  BY DEF Memory
<1> QED
  BY <1>7, <1>8, <1>9, <1>10 DEF a

(* The blocks of a sequence.                                                *)
LEMMA SeqBlocksAre ==
  ASSUME NEW f \in Owners, NEW len \in Counts(1)
  PROVE  /\ SeqBlocks(f, len) \subseteq Blocks
         /\ \A b \in SeqBlocks(f, len) : b[1] = f /\ b[2] \in {0} \cup DOMAIN len
         /\ Block(f) \in SeqBlocks(f, len)
         /\ \A i \in DOMAIN len : /\ <<f, i, 0>> \in SeqBlocks(f, len)
                                  /\ <<f, i, 1>> \in SeqBlocks(f, len)
<1> DEFINE sb == SeqBlocks(f, len)
<1>1. PICK k \in 0 .. MaxNr : len \in [1 .. k -> 1 .. MaxNr]
  BY DEF Counts
<1>2. ASSUME NEW i \in DOMAIN len
      PROVE  /\ Strarr(f, i, len[i]) \subseteq Blocks
             /\ \A b \in Strarr(f, i, len[i]) : b[1] = f /\ b[2] = i
             /\ <<f, i, 0>> \in Strarr(f, i, len[i]) /\ <<f, i, 1>> \in Strarr(f, i, len[i])
  <2>1. len[i] \in Nat /\ len[i] > 0 /\ len[i] \in 0 .. MaxNr /\ i \in 0 .. MaxNr
    BY <1>1, ConfBounds
  <2> QED
    BY <2>1, StrarrIs, StrarrTyped
<1>3. Block(f)[1] = f /\ Block(f)[2] = 0 /\ Block(f) \in Blocks
  BY BlockIs
<1>4. \A b : b \in sb <=> b = Block(f) \/ \E i \in DOMAIN len : b \in Strarr(f, i, len[i])
  BY DEF SeqBlocks
<1> HIDE DEF sb
<1>5. sb \subseteq Blocks
  BY <1>2, <1>3, <1>4
<1>6. ASSUME NEW b \in sb
      PROVE  b[1] = f /\ b[2] \in {0} \cup DOMAIN len
  <2>1. CASE b = Block(f)
    BY <1>3, <2>1
  <2>2. CASE b # Block(f)
    <3>1. PICK i \in DOMAIN len : b \in Strarr(f, i, len[i])
      BY <1>4, <2>2
    <3> QED
      BY <1>2, <3>1
  <2> QED
    BY <2>1, <2>2
<1>7. \A i \in DOMAIN len : <<f, i, 0>> \in sb /\ <<f, i, 1>> \in sb
  BY <1>2, <1>4
<1> QED
  BY <1>4, <1>5, <1>6, <1>7 DEF sb

(* A second release frees cmds again and nothing that is not the sequence's. *)
LEMMA StaleIs ==
  ASSUME NEW f \in Owners, NEW len \in Counts(1), NEW bs \in Stale(f, len)
  PROVE  bs \subseteq SeqBlocks(f, len) /\ Block(f) \in bs
<1>1. PICK e \in Counts(0) : bs = SeqBlocks(f, e) \cap SeqBlocks(f, len)
  BY DEF Stale
<1>2. Block(f) \in SeqBlocks(f, e) /\ Block(f) \in SeqBlocks(f, len)
  BY DEF SeqBlocks
<1> QED
  BY <1>1, <1>2

(* A sequence that is there is gone after its release, and one that has     *)
(* gone before is freed twice.                                              *)
LEMMA SeqReleaseIs ==
  ASSUME NEW m \in Memory, NEW f \in Seqs, NEW c \in ConfRecord,
         NEW r \in conf_seq_release(m, f, c),
         Block(f) \in m.heap \/ \A b \in m.heap : b[1] # f
  PROVE  /\ r \in Memory /\ r.heap \subseteq m.heap
         /\ \A b \in m.heap : b[1] # f => b \in r.heap
         /\ c.nr[f] = 0 => r = m
         /\ c.nr[f] > 0 => \A b \in r.heap : b[1] # f
         /\ Block(f) \in m.heap => r.twice = m.twice
         /\ (c.nr[f] > 0 /\ Block(f) \notin m.heap) =>
              /\ m.twice \cup {Block(f)} \subseteq r.twice
              /\ r.twice \subseteq m.twice \cup SeqBlocks(f, c.cmds[f])
<1>1. f \in Owners /\ c.nr[f] \in Nat /\ c.cmds[f] \in Counts(1)
  BY ConfBounds DEF Owners, Settings, ConfRecord
<1>2. CASE c.nr[f] = 0
  <2>1. r = m /\ ~(c.nr[f] > 0)
    BY <1>1, <1>2 DEF conf_seq_release
  <2> QED
    BY <2>1
<1>3. CASE c.nr[f] > 0 /\ Block(f) \in m.heap
  <2> DEFINE bs == BlocksOf({f}, m)
  <2>1. bs \subseteq m.heap /\ bs \subseteq Blocks /\ \A b \in m.heap : b \in bs <=> b[1] = f
    BY DEF BlocksOf, Memory
  <2>2. r = free(m, bs)
    BY <1>1, <1>3 DEF conf_seq_release
  <2> HIDE DEF bs
  <2>3. r \in Memory /\ r.heap = m.heap \ bs /\ r.twice = m.twice \cup (bs \ m.heap)
    BY <2>1, <2>2, MemoryOps
  <2> QED
    BY <1>3, <2>1, <2>3
<1>4. CASE c.nr[f] > 0 /\ Block(f) \notin m.heap
  <2>1. PICK bs \in Stale(f, c.cmds[f]) : r = free(m, bs)
    BY <1>1, <1>4 DEF conf_seq_release
  <2> DEFINE sb == SeqBlocks(f, c.cmds[f])
  <2>2. bs \subseteq sb /\ Block(f) \in bs
    BY <1>1, StaleIs
  <2>3. sb \subseteq Blocks /\ \A b \in sb : b[1] = f
    BY <1>1, SeqBlocksAre
  <2> HIDE DEF sb
  <2>4. r \in Memory /\ r.heap = m.heap \ bs /\ r.twice = m.twice \cup (bs \ m.heap)
    BY <2>1, <2>2, <2>3, MemoryOps
  <2>5. \A b \in bs : b \notin m.heap
    BY <1>4, <2>2, <2>3
  <2> QED
    BY <1>4, <2>2, <2>4, <2>5 DEF sb
<1> QED
  BY <1>1, <1>2, <1>3, <1>4

(* The sequences among the settings to release, but for those in the heap.  *)
Dangling(m, c) == {f \in Seqs : c.nr[f] > 0 /\ Block(f) \notin m.heap}

(* conf_fini() releases all but stdin and stdout, and again what dangles.   *)
LEMMA FiniReleases ==
  ASSUME NEW m \in Memory, NEW c \in ConfRecord, NEW r \in conf_fini(m, c),
         \A f \in Owned(c) \ Dangling(m, c) : Block(f) \in m.heap,
         \A f \in Dangling(m, c), b \in m.heap : b[1] # f,
         OnlyBlocks(m.heap, c), m.twice = {}
  PROVE  /\ r \in Memory
         /\ r.heap \subseteq m.heap
         /\ r.heap \subseteq {Block(f) : f \in Stdio \cup {"lib", "conf"}}
         /\ {Block(f) : f \in Dangling(m, c)} \subseteq r.twice
         /\ r.twice \subseteq UNION {SeqBlocks(f, c.cmds[f]) : f \in Dangling(m, c)}
         /\ \A f \in Stdio \cup {"lib", "conf"} : Block(f) \in m.heap => Block(f) \in r.heap
<1> DEFINE fs == c.ptr \ Stdio
           bs == {Block(f) : f \in fs} \cup BlocksOf(fs, m)
           k == free(m, bs)
<1>1. /\ fs \subseteq Owners /\ fs \subseteq Owned(c) \ Seqs
      /\ Owned(c) \subseteq fs \cup Stdio \cup {f \in Seqs : c.nr[f] > 0}
      /\ "conf" \notin fs /\ "lib" \notin fs
  BY DEF ConfRecord, Owned, Owners, Settings, Strings, Stdio, Arrays, NameArrs, Seqs
<1>2. \A f \in Seqs : f # "lib" /\ f # "conf" /\ c.nr[f] \in Nat
  BY ConfBounds DEF Seqs, ConfRecord
<1>3. "start" \in Seqs /\ "stop" \in Seqs /\ \A f \in Seqs : f = "start" \/ f = "stop"
  BY DEF Seqs
<1>4. PICK a \in conf_seq_release(k, "start", c) : r \in conf_seq_release(a, "stop", c)
  BY DEF conf_fini
<1>5. k \in Memory /\ k.heap = m.heap \ bs /\ k.twice = m.twice \cup (bs \ m.heap)
  <2>1. bs \subseteq Blocks
    BY <1>1, BlockIs DEF BlocksOf, Memory
  <2> HIDE DEF bs
  <2> QED
    BY <2>1, MemoryOps
<1>6. (\A b \in m.heap : b \in bs <=> b[1] \in fs) /\ bs \subseteq m.heap
  <2>1. \A f \in fs : Block(f) \in m.heap /\ Block(f)[1] = f
    BY <1>1, BlockIs DEF Dangling
  <2> QED
    BY <2>1 DEF BlocksOf
<1>7. \A f \in Seqs : Block(f)[1] = f /\ f \notin fs
  BY <1>1, BlockIs
<1> HIDE DEF fs, bs, k
<1>8. \A f \in Seqs : Block(f) \in k.heap <=> Block(f) \in m.heap
  BY <1>5, <1>6, <1>7
<1>9. k.twice = {} /\ k.heap \subseteq m.heap
  BY <1>5, <1>6
<1>10. \A f \in Seqs : Block(f) \in k.heap \/ c.nr[f] = 0 \/ \A b \in k.heap : b[1] # f
  BY <1>2, <1>8, <1>9 DEF Dangling
<1>11. \A f \in Seqs : c.nr[f] = 0 => \A b \in m.heap : b[1] # f
  BY <1>1, <1>2, <1>7 DEF OnlyBlocks, Owned, ConfRecord, Strings, Stdio, Arrays, NameArrs, Seqs
<1>12. /\ a \in Memory /\ a.heap \subseteq k.heap
       /\ \A b \in k.heap : b[1] # "start" => b \in a.heap
       /\ c.nr["start"] = 0 => a = k
       /\ c.nr["start"] > 0 => \A b \in a.heap : b[1] # "start"
       /\ Block("start") \in k.heap => a.twice = k.twice
       /\ (c.nr["start"] > 0 /\ Block("start") \notin k.heap) =>
            /\ k.twice \cup {Block("start")} \subseteq a.twice
            /\ a.twice \subseteq k.twice \cup SeqBlocks("start", c.cmds["start"])
  <2>1. Block("start") \in k.heap \/ \A b \in k.heap : b[1] # "start"
    BY <1>3, <1>9, <1>10, <1>11
  <2> QED
    BY <1>3, <1>4, <1>5, <2>1, SeqReleaseIs
<1>13. Block("stop") \in a.heap <=> Block("stop") \in k.heap
  BY <1>3, <1>7, <1>12
<1>14. /\ r \in Memory /\ r.heap \subseteq a.heap
       /\ \A b \in a.heap : b[1] # "stop" => b \in r.heap
       /\ c.nr["stop"] = 0 => r = a
       /\ c.nr["stop"] > 0 => \A b \in r.heap : b[1] # "stop"
       /\ Block("stop") \in a.heap => r.twice = a.twice
       /\ (c.nr["stop"] > 0 /\ Block("stop") \notin a.heap) =>
            /\ a.twice \cup {Block("stop")} \subseteq r.twice
            /\ r.twice \subseteq a.twice \cup SeqBlocks("stop", c.cmds["stop"])
  <2>1. Block("stop") \in a.heap \/ \A b \in a.heap : b[1] # "stop"
    BY <1>3, <1>9, <1>10, <1>11, <1>12, <1>13
  <2> QED
    BY <1>3, <1>4, <1>12, <2>1, SeqReleaseIs
<1>15. \A f \in Seqs : f \in Dangling(m, c) <=> c.nr[f] > 0 /\ Block(f) \notin k.heap
  BY <1>8 DEF Dangling
<1>16. \A b \in r.heap : b[1] \in Stdio \cup {"lib", "conf"}
  <2> SUFFICES ASSUME NEW b \in r.heap PROVE b[1] \in Stdio \cup {"lib", "conf"}
    OBVIOUS
  <2>1. b \in k.heap /\ b \in m.heap /\ b[1] \notin fs
    BY <1>5, <1>6, <1>12, <1>14
  <2>2. \A f \in Seqs : c.nr[f] > 0 => b[1] # f
    BY <1>3, <1>12, <1>14
  <2> QED
    BY <1>1, <2>1, <2>2 DEF OnlyBlocks
<1>17. r.heap \subseteq {Block(f) : f \in Stdio \cup {"lib", "conf"}}
  <2> SUFFICES ASSUME NEW b \in r.heap
               PROVE  b \in {Block(f) : f \in Stdio \cup {"lib", "conf"}}
    OBVIOUS
  <2>1. b \in m.heap /\ b[1] \in Strings \cup {"conf", "lib", "path"}
    BY <1>9, <1>12, <1>14, <1>16 DEF Strings
  <2>2. b = Block(b[1])
    BY <2>1 DEF OnlyBlocks
  <2> QED
    BY <1>16, <2>2
<1>18. {Block(f) : f \in Dangling(m, c)} \subseteq r.twice
  <2> SUFFICES ASSUME NEW f \in Dangling(m, c) PROVE Block(f) \in r.twice
    OBVIOUS
  <2>1. f \in Seqs /\ c.nr[f] > 0 /\ Block(f) \notin k.heap
    BY <1>15 DEF Dangling
  <2>2. CASE f = "start"
    <3>1. Block(f) \in a.twice
      BY <1>12, <2>1, <2>2
    <3>2. a.twice \subseteq r.twice
      BY <1>2, <1>3, <1>14
    <3> QED
      BY <3>1, <3>2
  <2>3. CASE f = "stop"
    BY <1>13, <1>14, <2>1, <2>3
  <2> QED
    BY <1>3, <2>1, <2>2, <2>3
<1>19. r.twice \subseteq UNION {SeqBlocks(f, c.cmds[f]) : f \in Dangling(m, c)}
  <2> DEFINE u == UNION {SeqBlocks(f, c.cmds[f]) : f \in Dangling(m, c)}
  <2>1. \A f \in Dangling(m, c) : SeqBlocks(f, c.cmds[f]) \subseteq u
    OBVIOUS
  <2> HIDE DEF u
  <2>2. a.twice \subseteq u
    BY <1>2, <1>3, <1>9, <1>12, <1>15, <2>1
  <2>3. r.twice \subseteq u
    BY <1>2, <1>3, <1>13, <1>14, <1>15, <2>1, <2>2
  <2> QED
    BY <2>3 DEF u
<1>20. ASSUME NEW f \in Stdio \cup {"lib", "conf"}, Block(f) \in m.heap
       PROVE  Block(f) \in r.heap
  <2>1. Block(f)[1] = f /\ f # "start" /\ f # "stop"
    BY BlockIs DEF Stdio
  <2>2. f \notin fs
    BY <1>1 DEF fs
  <2> QED
    BY <1>5, <1>6, <1>12, <1>14, <1>20, <2>1, <2>2
<1> QED
  BY <1>9, <1>12, <1>14, <1>17, <1>18, <1>19, <1>20

(* What remains of a heap after that, once conf and lib are gone too.       *)
LEMMA StdioRemains ==
  ASSUME NEW h, NEW k, NEW c \in ConfRecord, k \subseteq h, OnlyBlocks(h, c),
         \A f \in c.ptr \cap Stdio : Block(f) \in h,
         k \subseteq {Block(f) : f \in Stdio \cup {"lib", "conf"}},
         \A f \in Stdio : Block(f) \in h => Block(f) \in k
  PROVE  {b[1] : b \in k \ {Block("lib"), Block("conf")}} = c.ptr \cap Stdio
<1> DEFINE l == k \ {Block("lib"), Block("conf")}
<1>1. \A f : Block(f)[1] = f
  BY BlockIs
<1>2. "lib" \notin Stdio /\ "conf" \notin Stdio /\ Stdio \cap Seqs = {}
  BY DEF Stdio, Seqs
<1>3. ASSUME NEW b \in l
      PROVE  b[1] \in c.ptr \cap Stdio
  <2>1. PICK f \in Stdio : b = Block(f)
    OBVIOUS
  <2>2. b[1] = f /\ b \in h
    BY <1>1, <2>1
  <2> QED
    BY <1>2, <2>1, <2>2 DEF OnlyBlocks, Owned
<1>4. ASSUME NEW f \in c.ptr \cap Stdio
      PROVE  Block(f) \in l /\ f = Block(f)[1]
  <2>1. Block(f) \in k
    OBVIOUS
  <2>2. Block(f) # Block("lib") /\ Block(f) # Block("conf")
    BY <1>1, <1>2
  <2> QED
    BY <1>1, <2>1, <2>2
<1> HIDE DEF l
<1>5. {b[1] : b \in l} = c.ptr \cap Stdio
  BY <1>3, <1>4
<1> QED
  BY <1>5 DEF l

(* One of the blocks that everything begins with.                           *)
LEMMA FreeOne ==
  ASSUME NEW m \in Memory, NEW f \in Owners
  PROVE  /\ free(m, {Block(f)}) \in Memory
         /\ free(m, {Block(f)}).heap = m.heap \ {Block(f)}
         /\ free(m, {Block(f)}).twice = m.twice \cup ({Block(f)} \ m.heap)
BY BlockIs, MemoryOps

(* What conf_create_from_file() leaves when it returns NULL.                *)
LEMMA FailReleases ==
  ASSUME NEW m \in Memory, {Block("lib"), Block("conf")} \subseteq m.heap
  PROVE  /\ free(config_destroy(m), {Block("conf")}) \in Memory
         /\ free(config_destroy(m), {Block("conf")}).twice = m.twice
         /\ free(config_destroy(m), {Block("conf")}).heap =
              m.heap \ {Block("lib"), Block("conf")}
<1> DEFINE k == config_destroy(m)
           r == free(k, {Block("conf")})
<1>1. "lib" \in Owners /\ "conf" \in Owners /\ Block("lib") # Block("conf")
  BY BlockIs DEF Owners
<1>2. k \in Memory /\ k.heap = m.heap \ {Block("lib")} /\ k.twice = m.twice
  <2>1. /\ free(m, {Block("lib")}) \in Memory
        /\ free(m, {Block("lib")}).heap = m.heap \ {Block("lib")}
        /\ free(m, {Block("lib")}).twice = m.twice \cup ({Block("lib")} \ m.heap)
    BY <1>1, FreeOne
  <2> QED
    BY <2>1 DEF config_destroy
<1> HIDE DEF k
<1>3. r \in Memory /\ r.heap = k.heap \ {Block("conf")} /\ r.twice = k.twice
  <2>1. /\ r \in Memory /\ r.heap = k.heap \ {Block("conf")}
        /\ r.twice = k.twice \cup ({Block("conf")} \ k.heap)
    BY <1>1, <1>2, FreeOne
  <2> QED
    BY <1>1, <1>2, <2>1
<1> QED
  BY <1>2, <1>3 DEF k

-----------------------------------------------------------------------------
(* How a step ends.                                                         *)

(* What a loader may hand over: a structure and the blocks it owns.         *)
Consistent(m, c) ==
  /\ m \in Memory /\ c \in ConfRecord /\ m.twice = {}
  /\ HeapOK(m.heap, c) /\ Block("lib") \in m.heap
  /\ "path" \notin c.ptr /\ NamesOK(c)

(* Nothing is freed twice but by the failure of a sequence.                 *)
LEMMA NotTwice ==
  ASSUME failed' \notin Seqs, mem'.twice = {}
  PROVE  ReleasedTwice'
BY DEF ReleasedTwice, ReleasedSeqs

LEMMA KeepGood ==
  ASSUME IInv, pc = "root", NEW f \in Settings, NEW m, NEW c,
         Consistent(m, c), Owned(c) \subseteq seen \cup {f}, Keep(f, m, c)
  PROVE  IInv'
<1>1. /\ mem' = m /\ conf' = c /\ seen' = seen \cup {f} /\ failed' = failed /\ pc' = "root"
  BY DEF Keep
<1>2. ConfTypeOK' /\ NotFailed'
  BY <1>1 DEF IInv, ConfTypeOK, NotFailed, Consistent
<1>3. RootOK'
  BY <1>1 DEF RootOK, Consistent
<1>4. ReleasedTwice'
  BY <1>1, NotTwice DEF IInv, NotFailed, Consistent, Seqs
<1> QED
  BY <1>1, <1>2, <1>3, <1>4 DEF IInv, StartOK, LoadedOK, LeftBehind, LoadedIsUsable

(* Whatever has failed, be it with the blocks of a sequence gone already.   *)
LEMMA FailSettingGood ==
  ASSUME IInv, pc = "root", NEW f \in Settings, NEW m \in Memory, NEW c \in ConfRecord,
         Dangling(m, c) = {g \in Seqs : f = g /\ c.nr[g] > 0},
         \A g \in Owned(c) \ Dangling(m, c) : Block(g) \in m.heap,
         \A g \in Dangling(m, c), b \in m.heap : b[1] # g,
         OnlyBlocks(m.heap, c), m.twice = {}, {Block("lib"), Block("conf")} \subseteq m.heap,
         FailSetting(f, m, c)
  PROVE  IInv'
<1>1. PICK k \in conf_fini(m, c) : Fail(f, k, c)
  BY DEF FailSetting
<1> DEFINE X == Dangling(m, c)
           u == UNION {SeqBlocks(g, c.cmds[g]) : g \in X}
<1>2. /\ k \in Memory /\ k.heap \subseteq {Block(g) : g \in Stdio \cup {"lib", "conf"}}
      /\ {Block(g) : g \in X} \subseteq k.twice /\ k.twice \subseteq u
      /\ {Block("lib"), Block("conf")} \subseteq k.heap /\ k.heap \subseteq m.heap
      /\ \A g \in Stdio : Block(g) \in m.heap => Block(g) \in k.heap
  BY FiniReleases
<1>3. /\ mem' = free(config_destroy(k), {Block("conf")}) /\ conf' = c /\ failed' = f
      /\ pc' = "failed" /\ seen' = seen
  BY <1>1 DEF Fail
<1>4. /\ mem' \in Memory /\ mem'.twice = k.twice
      /\ mem'.heap = k.heap \ {Block("lib"), Block("conf")}
  BY <1>2, <1>3, FailReleases
<1>5. {b[1] : b \in mem'.heap} = c.ptr \cap Stdio
  <2>1. \A g \in c.ptr \cap Stdio : Block(g) \in m.heap
    BY DEF Owned, Dangling, Stdio, Seqs
  <2>2. {b[1] : b \in k.heap \ {Block("lib"), Block("conf")}} = c.ptr \cap Stdio
    BY <1>2, <2>1, StdioRemains
  <2> QED
    BY <1>4, <2>2
<1>6. ReleasedTwice'
  <2>1. ReleasedSeqs' = X
    BY <1>3 DEF ReleasedSeqs
  <2> HIDE DEF X
  <2> QED
    BY <1>2, <1>3, <1>4, <2>1 DEF ReleasedTwice
<1>7. ConfTypeOK'
  BY <1>3, <1>4 DEF IInv, ConfTypeOK, Owners
<1>8. f # "path"
  BY DEF Settings, Strings, Stdio, Arrays, NameArrs, Seqs
<1> QED
  BY <1>3, <1>5, <1>6, <1>7, <1>8 DEF IInv, StartOK, RootOK, LoadedOK, NotFailed, LeftBehind,
     LoadedIsUsable

(* The same when nothing has been touched.                                  *)
LEMMA FailUntouched ==
  ASSUME IInv, pc = "root", NEW f \in Settings, f \notin Seqs \/ f \notin seen,
         FailSetting(f, mem, conf)
  PROVE  IInv'
<1>1. /\ mem \in Memory /\ conf \in ConfRecord /\ HeapOK(mem.heap, conf) /\ mem.twice = {}
      /\ Block("lib") \in mem.heap /\ Owned(conf) \subseteq seen
  BY DEF IInv, ConfTypeOK, RootOK
<1>2. Dangling(mem, conf) = {} /\ {g \in Seqs : f = g /\ conf.nr[g] > 0} = {}
  BY <1>1 DEF Dangling, HeapOK, HasBlocks, Owned
<1>3. /\ \A g \in Owned(conf) : Block(g) \in mem.heap
      /\ OnlyBlocks(mem.heap, conf) /\ Block("conf") \in mem.heap
  BY <1>1 DEF HeapOK, HasBlocks
<1> QED
  BY <1>1, <1>2, <1>3, FailSettingGood

-----------------------------------------------------------------------------
(* The loaders.                                                             *)

(* Nothing is there for a setting that has not been read.                   *)
LEMMA NothingYet ==
  ASSUME IInv, pc = "root", NEW f \in Settings, f \notin seen
  PROVE  f \notin Owned(conf) /\ \A b \in mem.heap : b[1] # f
<1>1. f \notin Owned(conf)
  BY DEF IInv, RootOK
<1>2. f # "conf" /\ f # "lib"
  BY DEF Settings, Strings, Stdio, Arrays, NameArrs, Seqs
<1> QED
  BY <1>1, <1>2 DEF IInv, RootOK, HeapOK, OnlyBlocks

LEMMA LoadStringGood ==
  ASSUME IInv, NEW f \in Strings, LoadString(f)
  PROVE  IInv'
<1>1. pc = "root" /\ f \notin seen /\ f \in Settings /\ f \in Owners
  BY DEF LoadString, Reading, Settings, Owners
<1>2. CASE FailSetting(f, mem, conf)
  BY <1>1, <1>2, FailUntouched
<1>3. ASSUME NEW n \in IF f = "name" THEN Names ELSE {conf.name},
             Keep(f, malloc(mem, {Block(f)}), [conf EXCEPT !.ptr = @ \cup {f}, !.name = n])
      PROVE  IInv'
  <2> DEFINE m == malloc(mem, {Block(f)})
             c == [conf EXCEPT !.ptr = @ \cup {f}, !.name = n]
  <2>1. mem \in Memory /\ conf \in ConfRecord /\ mem.twice = {} /\ HeapOK(mem.heap, conf)
        /\ Block("lib") \in mem.heap /\ "path" \notin conf.ptr /\ NamesOK(conf)
        /\ Owned(conf) \subseteq seen
    BY <1>1 DEF IInv, ConfTypeOK, RootOK
  <2>2. m \in Memory /\ m.heap = mem.heap \cup {Block(f)} /\ m.twice = {}
    BY <1>1, <2>1, BlockIs, MemoryOps
  <2>3. c \in ConfRecord /\ c.ptr = conf.ptr \cup {f} /\ c.nr = conf.nr /\ c.name = n
        /\ c.list = conf.list
    BY <1>3, <2>1 DEF ConfRecord
  <2> HIDE DEF m, c
  <2>4. Owned(c) = Owned(conf) \cup {f}
    BY <2>3 DEF Owned
  <2>5. f \notin Arrays /\ f \notin Seqs /\ f # "path"
    BY DEF Strings, Stdio, Arrays, NameArrs, Seqs
  <2>6. HasBlocks(m.heap, c)
    BY <2>1, <2>2, <2>4 DEF HeapOK, HasBlocks
  <2>7. OnlyBlocks(m.heap, c)
    BY <2>1, <2>2, <2>4, BlockIs DEF HeapOK, OnlyBlocks
  <2>8. Complete(m.heap, c)
    <3>1. \A g \in Seqs, i \in 1 .. MaxNr, j \in 0 .. 1 : <<g, i, j>> # Block(f)
      BY <2>5, BlockIs
    <3>2. \A g \in Seqs, i \in 1 .. MaxNr :
            /\ <<g, i, 0>> \in m.heap <=> <<g, i, 0>> \in mem.heap
            /\ <<g, i, 1>> \in m.heap <=> <<g, i, 1>> \in mem.heap
      BY <2>2, <3>1
    <3> QED
      BY <2>1, <2>2, <2>3, <2>5, <3>2 DEF HeapOK, Complete
  <2>9. NamesOK(c)
    BY <1>3, <2>1, <2>3 DEF NamesOK
  <2>10. Consistent(m, c)
    BY <2>1, <2>2, <2>3, <2>5, <2>6, <2>7, <2>8, <2>9 DEF Consistent, HeapOK
  <2>11. Keep(f, m, c)
    BY <1>3 DEF m, c
  <2> QED
    BY <1>1, <2>1, <2>4, <2>10, <2>11, KeepGood
<1> QED
  BY <1>2, <1>3 DEF LoadString

LEMMA LoadArrayGood ==
  ASSUME IInv, NEW f \in Arrays, LoadArray(f)
  PROVE  IInv'
<1>1. pc = "root" /\ f \notin seen /\ f \in Settings /\ f \in Owners
  BY DEF LoadArray, Reading, Settings, Owners
<1>2. /\ mem \in Memory /\ conf \in ConfRecord /\ mem.twice = {} /\ HeapOK(mem.heap, conf)
      /\ Block("lib") \in mem.heap /\ "path" \notin conf.ptr /\ NamesOK(conf)
      /\ Owned(conf) \subseteq seen
  BY <1>1 DEF IInv, ConfTypeOK, RootOK
<1>3. ASSUME NEW m \in StrarrFailures(mem, f, 0), FailSetting(f, m, conf)
      PROVE  IInv'
  <2>1. m = mem
    BY <1>1, <1>2, NothingYet, StrarrFailureIsClean, ConfBounds
  <2> QED
    BY <1>1, <1>3, <2>1, FailUntouched
<1>4. ASSUME NEW n \in 1 .. MaxNr,
             NEW l \in IF f \in NameArrs THEN [1 .. n -> Names] ELSE {<<>>},
             Keep(f, malloc(mem, Strarr(f, 0, n)),
                  [conf EXCEPT !.ptr = @ \cup {f},
                               !.list = [g \in NameArrs |-> IF g = f THEN l ELSE @[g]]])
      PROVE  IInv'
  <2> DEFINE sa == Strarr(f, 0, n)
             m == malloc(mem, sa)
             c == [conf EXCEPT !.ptr = @ \cup {f},
                               !.list = [g \in NameArrs |-> IF g = f THEN l ELSE @[g]]]
  <2>1. n \in Nat /\ n > 0 /\ n \in 0 .. MaxNr /\ 0 \in 0 .. MaxNr
    BY ConfBounds
  <2>2. /\ \A b \in sa : b[1] = f
        /\ <<f, 0, 0>> \in sa /\ <<f, 0, 1>> \in sa /\ sa \subseteq Blocks
    BY <1>1, <2>1, StrarrIs, StrarrTyped
  <2> HIDE DEF sa
  <2>3. m \in Memory /\ m.heap = mem.heap \cup sa /\ m.twice = {}
    BY <1>2, <2>2, MemoryOps
  <2>4. /\ c.ptr = conf.ptr \cup {f} /\ c.nr = conf.nr /\ c.name = conf.name
        /\ c.list = [g \in NameArrs |-> IF g = f THEN l ELSE conf.list[g]]
    BY <1>2 DEF ConfRecord
  <2>5. c \in ConfRecord
    <3>1. f \in NameArrs => l \in Lists
      BY DEF Lists
    <3>2. c.list \in [NameArrs -> Lists \cup {<<>>}]
      BY <1>2, <2>4, <3>1 DEF ConfRecord
    <3> QED
      BY <1>2, <2>4, <3>2 DEF ConfRecord
  <2> HIDE DEF m, c
  <2>6. Owned(c) = Owned(conf) \cup {f}
    BY <2>4 DEF Owned
  <2>7. f \notin Strings /\ f \notin Seqs /\ f # "path" /\ f # "conf" /\ f # "lib" /\ f # "name"
    BY DEF Strings, Stdio, Arrays, NameArrs, Seqs
  <2>8. HasBlocks(m.heap, c)
    BY <1>2, <2>2, <2>3, <2>6, BlockIs DEF HeapOK, HasBlocks
  <2>9. OnlyBlocks(m.heap, c)
    BY <1>2, <2>2, <2>3, <2>6, <2>7 DEF HeapOK, OnlyBlocks
  <2>10. Complete(m.heap, c)
    <3>1. \A g \in Seqs, i \in 1 .. MaxNr : <<g, i, 0>> \notin sa /\ <<g, i, 1>> \notin sa
      BY <2>2, <2>7
    <3>2. \A g \in Seqs, i \in 1 .. MaxNr :
            /\ <<g, i, 0>> \in m.heap <=> <<g, i, 0>> \in mem.heap
            /\ <<g, i, 1>> \in m.heap <=> <<g, i, 1>> \in mem.heap
      BY <2>3, <3>1
    <3> QED
      BY <1>2, <2>2, <2>3, <2>4, <3>2 DEF HeapOK, Complete
  <2>11. NamesOK(c)
    BY <1>2, <2>4, <2>7 DEF NamesOK
  <2>12. Consistent(m, c)
    BY <1>2, <2>3, <2>4, <2>5, <2>7, <2>8, <2>9, <2>10, <2>11 DEF Consistent, HeapOK
  <2>13. Keep(f, m, c)
    BY <1>4 DEF m, c, sa
  <2> QED
    BY <1>1, <1>2, <2>6, <2>12, <2>13, KeepGood
<1> QED
  BY <1>3, <1>4 DEF LoadArray

LEMMA LoadSeqGood ==
  ASSUME IInv, NEW f \in Seqs, LoadSeq(f)
  PROVE  IInv'
<1>1. pc = "root" /\ f \notin seen /\ f \in Settings /\ f \in Owners
  BY DEF LoadSeq, Reading, Settings, Owners
<1>2. /\ mem \in Memory /\ conf \in ConfRecord /\ mem.twice = {} /\ HeapOK(mem.heap, conf)
      /\ Block("lib") \in mem.heap /\ "path" \notin conf.ptr /\ NamesOK(conf)
      /\ Owned(conf) \subseteq seen
  BY <1>1 DEF IInv, ConfTypeOK, RootOK
<1>3. f \notin Owned(conf) /\ \A b \in mem.heap : b[1] # f
  BY <1>1, NothingYet
<1>4. f \notin Strings /\ f # "path" /\ f # "conf" /\ f # "lib" /\ f \notin Arrays
  BY DEF Strings, Stdio, Arrays, NameArrs, Seqs
<1>5. CASE FailSetting(f, mem, conf)
  BY <1>1, <1>5, FailUntouched
<1>6. ASSUME NEW n \in 1 .. MaxNr, NEW k \in 0 .. n, NEW len \in [1 .. k -> 1 .. MaxNr],
             NEW m, m = malloc(mem, SeqBlocks(f, len)),
             NEW c, c = [conf EXCEPT !.nr = [@ EXCEPT ![f] = n],
                                     !.cmds = [@ EXCEPT ![f] = len]],
             \/ k = n /\ Keep(f, m, c)
             \/ k < n /\ \E r \in StrarrFailures(m, f, k + 1) :
                          \E w \in conf_seq_release(r, f, c) : FailSetting(f, w, c)
      PROVE  IInv'
  <2> DEFINE sb == SeqBlocks(f, len)
  <2>0. len \in Counts(1) /\ DOMAIN len = 1 .. k /\ k \in Nat
    BY ConfBounds DEF Counts
  <2>1. /\ \A b \in sb : b[1] = f /\ b[2] \in 0 .. k
        /\ Block(f) \in sb /\ sb \subseteq Blocks
        /\ \A i \in 1 .. k : <<f, i, 0>> \in sb /\ <<f, i, 1>> \in sb
    <3>1. /\ \A b \in sb : b[1] = f /\ b[2] \in {0} \cup DOMAIN len
          /\ Block(f) \in sb /\ sb \subseteq Blocks
          /\ \A i \in DOMAIN len : <<f, i, 0>> \in sb /\ <<f, i, 1>> \in sb
      BY <1>1, <2>0, SeqBlocksAre
    <3>2. {0} \cup DOMAIN len \subseteq 0 .. k
      BY <2>0
    <3> HIDE DEF sb
    <3> QED
      BY <2>0, <3>1, <3>2
  <2>2. m = malloc(mem, sb)
    BY <1>6
  <2> HIDE DEF sb
  <2>3. m \in Memory /\ m.heap = mem.heap \cup sb /\ m.twice = {}
    BY <1>2, <2>1, <2>2, MemoryOps
  <2>4. /\ c.ptr = conf.ptr /\ c.name = conf.name /\ c.list = conf.list
        /\ c.nr = [conf.nr EXCEPT ![f] = n] /\ c.cmds = [conf.cmds EXCEPT ![f] = len]
    BY <1>2, <1>6 DEF ConfRecord
  <2>5. c \in ConfRecord
    <3>1. n \in 0 .. MaxNr
      BY ConfBounds
    <3>2. c.nr \in [Seqs -> 0 .. MaxNr] /\ c.cmds \in [Seqs -> Counts(1)]
      BY <1>2, <2>0, <2>4, <3>1 DEF ConfRecord
    <3> QED
      BY <1>2, <1>6, <2>4, <3>2 DEF ConfRecord
  <2>6. Owned(c) = Owned(conf) \cup {f}
    <3>1. c.nr[f] = n /\ n > 0 /\ \A g \in Seqs \ {f} : c.nr[g] = conf.nr[g]
      BY <1>2, <2>4, ConfBounds DEF ConfRecord
    <3> QED
      BY <1>3, <2>4, <3>1 DEF Owned
  <2>7. OnlyBlocks(m.heap, c)
    BY <1>2, <1>4, <2>1, <2>3, <2>6 DEF HeapOK, OnlyBlocks
  <2>8. CASE k = n /\ Keep(f, m, c)
    <3>1. HasBlocks(m.heap, c)
      BY <1>2, <2>1, <2>3, <2>6 DEF HeapOK, HasBlocks
    <3>2. Complete(m.heap, c)
      <4>1. ASSUME NEW g \in Seqs \ {f}, NEW i \in 1 .. MaxNr
            PROVE  /\ <<g, i, 0>> \in m.heap <=> <<g, i, 0>> \in mem.heap
                   /\ <<g, i, 1>> \in m.heap <=> <<g, i, 1>> \in mem.heap
        BY <2>1, <2>3
      <4>2. ASSUME NEW i \in 1 .. MaxNr
            PROVE  i <= n <=> <<f, i, 0>> \in m.heap /\ <<f, i, 1>> \in m.heap
        <5>1. CASE i <= n
          BY <2>1, <2>3, <2>8, <5>1
        <5>2. CASE ~(i <= n)
          <6>1. <<f, i, 0>> \notin mem.heap /\ <<f, i, 0>>[1] = f /\ <<f, i, 0>>[2] = i
            BY <1>3
          <6>2. i \notin 0 .. k
            BY <2>8, <5>2
          <6> QED
            BY <2>1, <2>3, <5>2, <6>1, <6>2
        <5> QED
          BY <5>1, <5>2
      <4>3. c.nr[f] = n /\ \A g \in Seqs \ {f} : c.nr[g] = conf.nr[g]
        BY <1>2, <2>4 DEF ConfRecord
      <4>4. \A g \in Arrays \cap c.ptr : <<g, 0, 1>> \in m.heap
        BY <1>2, <2>3, <2>4 DEF HeapOK, Complete
      <4>5. \A g \in Seqs \ {f}, i \in 1 .. MaxNr :
              i <= c.nr[g] <=> <<g, i, 0>> \in m.heap /\ <<g, i, 1>> \in m.heap
        BY <1>2, <4>1, <4>3 DEF HeapOK, Complete
      <4> QED
        BY <4>2, <4>3, <4>4, <4>5 DEF Complete
    <3>3. NamesOK(c)
      BY <1>2, <2>4 DEF NamesOK
    <3>4. Consistent(m, c)
      BY <1>2, <2>3, <2>4, <2>5, <2>7, <3>1, <3>2, <3>3 DEF Consistent, HeapOK
    <3> QED
      BY <1>1, <1>2, <2>6, <2>8, <3>4, KeepGood
  <2>9. ASSUME k < n, NEW r \in StrarrFailures(m, f, k + 1),
               NEW w \in conf_seq_release(r, f, c), FailSetting(f, w, c)
        PROVE  IInv'
    <3>1. k + 1 \in 0 .. MaxNr /\ k + 1 \notin 0 .. k
      BY <2>9, ConfBounds
    <3>2. r = m
      BY <1>1, <1>3, <2>1, <2>3, <3>1, StrarrFailureIsClean
    <3>3. c.nr[f] = n /\ n > 0 /\ \A g \in Seqs \ {f} : c.nr[g] = conf.nr[g]
      BY <1>2, <2>4, ConfBounds DEF ConfRecord
    <3>4. Block(f) \in m.heap
      BY <2>1, <2>3
    <3>5. /\ w \in Memory /\ w.heap \subseteq m.heap /\ w.twice = {}
          /\ \A b \in m.heap : b[1] # f => b \in w.heap
          /\ \A b \in w.heap : b[1] # f
      BY <2>3, <2>5, <2>9, <3>2, <3>3, <3>4, SeqReleaseIs
    <3>6. \A g : Block(g)[1] = g
      BY BlockIs
    <3>7. \A g \in Owned(conf) \cup {"lib", "conf"} : Block(g) \in w.heap
      BY <1>2, <1>3, <1>4, <2>3, <3>5, <3>6 DEF HeapOK, HasBlocks
    <3>8. Dangling(w, c) = {f}
      BY <3>3, <3>5, <3>6, <3>7 DEF Dangling, Owned
    <3>9. {g \in Seqs : f = g /\ c.nr[g] > 0} = {f}
      BY <3>3
    <3>10. \A g \in Owned(c) \ Dangling(w, c) : Block(g) \in w.heap
      BY <2>6, <3>7, <3>8
    <3>11. OnlyBlocks(w.heap, c)
      BY <2>7, <3>5 DEF OnlyBlocks
    <3> QED
      BY <1>1, <2>5, <2>9, <3>5, <3>7, <3>8, <3>9, <3>10, <3>11, FailSettingGood
  <2> QED
    BY <1>6, <2>8, <2>9
<1> QED
  BY <1>5, <1>6 DEF LoadSeq

LEMMA LoadSignalGood ==
  ASSUME IInv, LoadSignal
  PROVE  IInv'
<1>1. pc = "root" /\ "signal" \in Settings /\ conf \in ConfRecord
  BY DEF LoadSignal, Reading, Settings, IInv, ConfTypeOK
<1>2. CASE FailSetting("signal", mem, conf)
  BY <1>1, <1>2, FailUntouched DEF Seqs
<1>3. CASE Keep("signal", mem, conf)
  <2>1. Consistent(mem, conf) /\ Owned(conf) \subseteq seen
    BY <1>1 DEF IInv, ConfTypeOK, RootOK, Consistent
  <2> QED
    BY <1>1, <1>3, <2>1, KeepGood
<1> QED
  BY <1>2, <1>3 DEF LoadSignal

-----------------------------------------------------------------------------
(* The other steps of conf.c.                                               *)

(* There is nothing to leave behind.                                        *)
LEMMA NoneLeft ==
  ASSUME mem'.heap = {}, conf'.ptr = {}, failed' # "path"
  PROVE  LeftBehind'
<1>1. {b[1] : b \in mem'.heap} = {}
  OBVIOUS
<1> QED
  BY <1>1 DEF LeftBehind

LEMMA OpenGood ==
  ASSUME IInv, Open
  PROVE  IInv'
<1> DEFINE bs == {Block("conf"), Block("lib")}
           m == malloc(mem, bs)
<1>1. /\ pc = "start" /\ conf' = conf /\ seen' = seen /\ conf = NoConf /\ seen = {}
      /\ mem = [heap |-> {}, twice |-> {}] /\ mem \in Memory /\ conf \in ConfRecord
      /\ failed = "none"
  BY DEF Open, IInv, StartOK, ConfTypeOK, NotFailed
<1>2. bs \subseteq Blocks
  BY BlockIs DEF Owners
<1>3. m \in Memory /\ m.heap = bs /\ m.twice = {}
  BY <1>1, <1>2, MemoryOps
<1>4. Block("conf")[1] = "conf" /\ Block("lib")[1] = "lib"
  BY BlockIs
<1>5. "lib" \notin Owned(NoConf) /\ Owned(NoConf) = {} /\ NoConf.ptr = {}
      /\ (\A f \in Seqs : NoConf.nr[f] = 0) /\ \A f \in NameArrs : NoConf.list[f] = <<>>
  BY DEF Owned, NoConf
<1> HIDE DEF m, bs
<1>6. CASE mem' = m /\ pc' = "root" /\ failed' = failed
  <2>1. HasBlocks(m.heap, NoConf) /\ OnlyBlocks(m.heap, NoConf) /\ NamesOK(NoConf)
    BY <1>3, <1>4, <1>5 DEF HasBlocks, OnlyBlocks, NamesOK, bs
  <2>2. Complete(m.heap, NoConf)
    <3>1. \A f \in Seqs, k \in 1 .. MaxNr : <<f, k, 0>> \notin bs /\ ~(k <= NoConf.nr[f])
      BY <1>5, ConfBounds DEF bs, Block
    <3> QED
      BY <1>3, <1>5, <3>1 DEF Complete
  <2>3. RootOK'
    BY <1>1, <1>3, <1>5, <1>6, <2>1, <2>2 DEF RootOK, HeapOK, bs
  <2>4. ConfTypeOK'
    BY <1>1, <1>3, <1>6 DEF ConfTypeOK
  <2> QED
    BY <1>1, <1>3, <1>6, <2>3, <2>4 DEF IInv, StartOK, LoadedOK, NotFailed, ReleasedTwice,
       ReleasedSeqs, Seqs, LeftBehind, LoadedIsUsable
<1>7. CASE /\ mem' = free(config_destroy(m), {Block("conf")})
           /\ pc' = "failed" /\ failed' = "lib"
  <2>1. mem' \in Memory /\ mem'.twice = {} /\ mem'.heap = {}
    BY <1>3, <1>7, FailReleases DEF bs
  <2>2. LeftBehind'
    BY <1>1, <1>5, <1>7, <2>1, NoneLeft
  <2> QED
    BY <1>1, <1>7, <2>1, <2>2 DEF IInv, StartOK, RootOK, LoadedOK, NotFailed, ReleasedTwice,
       ReleasedSeqs, Seqs, LoadedIsUsable, ConfTypeOK, Owners
<1>8. CASE pc' = "failed" /\ failed' = "conf" /\ mem' = mem
  <2>1. LeftBehind'
    BY <1>1, <1>5, <1>8, NoneLeft
  <2> QED
    BY <1>1, <1>8, <2>1 DEF IInv, StartOK, RootOK, LoadedOK, NotFailed, ReleasedTwice,
       ReleasedSeqs, Seqs, LoadedIsUsable, ConfTypeOK, Owners
<1> QED
  BY <1>6, <1>7, <1>8 DEF Open, m, bs

LEMMA RefuseGood ==
  ASSUME IInv, Refuse
  PROVE  IInv'
BY FailUntouched DEF Refuse, Settings, Strings, Seqs

(* No list that is accepted has a name twice, or that of the service.       *)
LEMMA NoDups ==
  ASSUME NEW c \in ConfRecord, Acceptable(c), NamesOK(c)
  PROVE  /\ c.name \in Names /\ HasCommand(c)
         /\ \A f \in NameArrs : \A i \in DOMAIN c.list[f] :
              /\ c.list[f][i] # c.name
              /\ \A j \in 1 .. i - 1 : c.list[f][i] # c.list[f][j]
<1>1. c.name \in Names /\ HasCommand(c)
  BY DEF Acceptable, NamesOK
<1>2. ASSUME NEW f \in NameArrs, NEW i \in DOMAIN c.list[f]
      PROVE  /\ c.list[f][i] # c.name
             /\ \A j \in 1 .. i - 1 : c.list[f][i] # c.list[f][j]
  <2>1. c.list[f] # <<>>
    OBVIOUS
  <2>2. f \in c.ptr /\ c.list[f] \in Lists
    BY <2>1 DEF NamesOK, ConfRecord
  <2>3. PICK n \in 1 .. MaxNr : DOMAIN c.list[f] = 1 .. n
    BY <2>2 DEF Lists
  <2>4. \A j \in 1 .. i - 1 : j \in DOMAIN c.list[f] /\ j # i
    BY <2>3, ConfBounds
  <2>5. ~conf_strarr_has_dups(c.list[f], c.name)
    BY <2>2 DEF Acceptable
  <2> QED
    BY <2>4, <2>5 DEF conf_strarr_has_dups
<1> QED
  BY <1>1, <1>2

LEMMA AcceptGood ==
  ASSUME IInv, Accept
  PROVE  IInv'
<1>1. /\ pc = "root" /\ Acceptable(conf)
      /\ mem \in Memory /\ conf \in ConfRecord /\ mem.twice = {} /\ HeapOK(mem.heap, conf)
      /\ {Block("lib"), Block("conf")} \subseteq mem.heap /\ NamesOK(conf) /\ failed = "none"
      /\ seen \subseteq Settings
  BY DEF Accept, IInv, ConfTypeOK, RootOK, NotFailed, HeapOK
<1>2. CASE Fail("path", mem, conf)
  <2>1. /\ mem' \in Memory /\ mem'.twice = {}
        /\ mem'.heap = mem.heap \ {Block("lib"), Block("conf")}
    BY <1>1, <1>2, FailReleases DEF Fail
  <2>2. conf' = conf /\ failed' = "path" /\ pc' = "failed" /\ seen' = seen
    BY <1>2 DEF Fail
  <2>3. {b[1] : b \in mem'.heap} = conf.ptr \cup {f \in Seqs : conf.nr[f] > 0}
    <3>1. \A f : Block(f)[1] = f
      BY BlockIs
    <3>2. \A f \in Owned(conf) : Block(f) \in mem.heap /\ f # "lib" /\ f # "conf"
      BY <1>1 DEF HeapOK, HasBlocks, Owned, ConfRecord, Strings, Stdio, Arrays, NameArrs, Seqs
    <3>3. \A b \in mem'.heap : b[1] \in Owned(conf)
      BY <1>1, <2>1 DEF HeapOK, OnlyBlocks
    <3>4. \A f \in Owned(conf) : Block(f) \in mem'.heap /\ f = Block(f)[1]
      BY <2>1, <3>1, <3>2
    <3>5. {b[1] : b \in mem'.heap} = Owned(conf)
      BY <3>3, <3>4
    <3> QED
      BY <3>5 DEF Owned
  <2> QED
    BY <1>1, <2>1, <2>2, <2>3 DEF IInv, ConfTypeOK, Owners, StartOK, RootOK, LoadedOK, NotFailed,
       ReleasedTwice, ReleasedSeqs, Seqs, LeftBehind, LoadedIsUsable
<1>3. CASE /\ mem' = config_destroy(malloc(mem, {Block("path")}))
           /\ conf' = [conf EXCEPT !.ptr = @ \cup {"path"}]
           /\ pc' = "loaded" /\ UNCHANGED <<seen, failed>>
  <2>1. "path" \in Owners /\ "lib" \in Owners /\ Block("path")[1] = "path"
        /\ Block("path") # Block("lib") /\ Block("lib")[1] = "lib"
    BY BlockIs DEF Owners
  <2> DEFINE m == malloc(mem, {Block("path")})
  <2>2. m \in Memory /\ m.heap = mem.heap \cup {Block("path")} /\ m.twice = {}
    BY <1>1, <2>1, BlockIs, MemoryOps
  <2>3. mem' = free(m, {Block("lib")})
    BY <1>3 DEF config_destroy
  <2> HIDE DEF m
  <2>4. /\ mem' \in Memory /\ mem'.twice = m.twice \cup ({Block("lib")} \ m.heap)
        /\ mem'.heap = m.heap \ {Block("lib")}
    BY <2>1, <2>2, <2>3, FreeOne
  <2>5. mem'.twice = {}
    BY <1>1, <2>2, <2>4
  <2>6. mem'.heap = (mem.heap \cup {Block("path")}) \ {Block("lib")}
    BY <2>2, <2>4
  <2>7. /\ conf'.ptr = conf.ptr \cup {"path"} /\ conf'.nr = conf.nr
        /\ conf'.name = conf.name /\ conf'.list = conf.list /\ conf' \in ConfRecord
    BY <1>1, <1>3 DEF ConfRecord
  <2>8. Owned(conf') = Owned(conf) \cup {"path"}
    BY <2>7 DEF Owned
  <2>9. \A f \in Owned(conf) \cup {"conf"} : f # "lib"
    BY <1>1 DEF Owned, ConfRecord, Strings, Stdio, Arrays, NameArrs, Seqs
  <2>10. \A f \in Owned(conf) \cup {"conf", "path"} : Block(f) \in mem'.heap
    BY <1>1, <2>1, <2>6, <2>9, BlockIs DEF HeapOK, HasBlocks
  <2>11. OnlyBlocks(mem'.heap, conf') /\ \A b \in mem'.heap : b[1] # "lib"
    BY <1>1, <2>1, <2>6, <2>8 DEF HeapOK, OnlyBlocks
  <2>12. Complete(mem'.heap, conf')
    <3>1. \A f, k : <<f, k, 1>> # Block("path") /\ <<f, k, 1>> # Block("lib")
      BY BlockIs
    <3>2. \A f \in Seqs : \A k : <<f, k, 0>> # Block("path") /\ <<f, k, 0>> # Block("lib")
      BY BlockIs DEF Seqs
    <3>3. \A f \in Seqs, k \in 1 .. MaxNr :
            /\ <<f, k, 0>> \in mem'.heap <=> <<f, k, 0>> \in mem.heap
            /\ <<f, k, 1>> \in mem'.heap <=> <<f, k, 1>> \in mem.heap
      BY <2>6, <3>1, <3>2
    <3>4. \A f \in Arrays \cap conf'.ptr : f \in conf.ptr /\ <<f, 0, 1>> \in mem'.heap
      BY <1>1, <2>6, <2>7, <3>1 DEF HeapOK, Complete, Arrays, NameArrs
    <3>5. \A f \in Seqs, k \in 1 .. MaxNr :
            k <= conf'.nr[f] <=> <<f, k, 0>> \in mem'.heap /\ <<f, k, 1>> \in mem'.heap
      BY <1>1, <2>7, <3>3 DEF HeapOK, Complete
    <3> QED
      BY <3>4, <3>5 DEF Complete
  <2>13. HeapOK(mem'.heap, conf') /\ conf'.ptr \subseteq Owned(conf')
    BY <2>8, <2>10, <2>11, <2>12 DEF HeapOK, HasBlocks, Owned
  <2>14. LoadedOK'
    BY <2>5, <2>11, <2>13 DEF LoadedOK
  <2>15. /\ conf.name \in Names /\ HasCommand(conf)
         /\ \A f \in NameArrs : \A i \in DOMAIN conf.list[f] :
              /\ conf.list[f][i] # conf.name
              /\ \A j \in 1 .. i - 1 : conf.list[f][i] # conf.list[f][j]
    BY <1>1, NoDups
  <2>16. HasCommand(conf')
    BY <2>7, <2>15 DEF HasCommand
  <2>17. {Block(f) : f \in conf'.ptr \cup {"conf"}} \subseteq mem'.heap
    BY <2>7, <2>10 DEF Owned
  <2>18. LoadedIsUsable'
    BY <2>5, <2>7, <2>12, <2>15, <2>16, <2>17 DEF LoadedIsUsable, Complete
  <2>19. ConfTypeOK' /\ NotFailed' /\ ReleasedTwice'
    BY <1>1, <1>3, <2>4, <2>5, <2>7, NotTwice DEF ConfTypeOK, NotFailed, Seqs
  <2> QED
    BY <1>3, <2>14, <2>18, <2>19 DEF IInv, StartOK, RootOK, LeftBehind
<1> QED
  BY <1>2, <1>3 DEF Accept

LEMMA DestroyGood ==
  ASSUME IInv, Destroy
  PROVE  IInv'
<1>1. /\ mem \in Memory /\ conf \in ConfRecord /\ mem.twice = {} /\ HeapOK(mem.heap, conf)
      /\ (\A b \in mem.heap : b[1] # "lib") /\ failed = "none" /\ seen \subseteq Settings
  BY DEF Destroy, IInv, ConfTypeOK, LoadedOK, NotFailed
<1>2. PICK k \in conf_fini(mem, conf) : mem' = free(k, {Block("conf")})
  BY DEF Destroy
<1>3. Dangling(mem, conf) = {}
  BY <1>1 DEF Dangling, HeapOK, HasBlocks, Owned
<1>4. /\ k \in Memory /\ k.heap \subseteq {Block(f) : f \in Stdio \cup {"lib", "conf"}}
      /\ k.twice = {} /\ Block("conf") \in k.heap /\ k.heap \subseteq mem.heap
      /\ \A f \in Stdio : Block(f) \in mem.heap => Block(f) \in k.heap
  <2>1. /\ \A f \in Owned(conf) : Block(f) \in mem.heap
        /\ OnlyBlocks(mem.heap, conf) /\ Block("conf") \in mem.heap
    BY <1>1 DEF HeapOK, HasBlocks
  <2>2. /\ k \in Memory /\ k.heap \subseteq mem.heap
        /\ k.heap \subseteq {Block(f) : f \in Stdio \cup {"lib", "conf"}}
        /\ k.twice \subseteq UNION {SeqBlocks(f, conf.cmds[f]) : f \in Dangling(mem, conf)}
        /\ \A f \in Stdio \cup {"lib", "conf"} :
             Block(f) \in mem.heap => Block(f) \in k.heap
    BY <1>1, <1>3, <2>1, FiniReleases
  <2> QED
    BY <1>3, <2>1, <2>2
<1>5. pc' = "destroyed" /\ UNCHANGED <<conf, seen, failed>>
  BY DEF Destroy
<1>6. "conf" \in Owners /\ Block("lib")[1] = "lib"
  BY BlockIs DEF Owners
<1>7. /\ mem' \in Memory /\ mem'.heap = k.heap \ {Block("conf")}
      /\ mem'.twice = k.twice \cup ({Block("conf")} \ k.heap)
  BY <1>2, <1>4, <1>6, FreeOne
<1>8. mem'.twice = {} /\ {b[1] : b \in mem'.heap} = conf.ptr \cap Stdio
  <2>1. OnlyBlocks(mem.heap, conf) /\ \A f \in conf.ptr \cap Stdio : Block(f) \in mem.heap
    BY <1>1 DEF HeapOK, HasBlocks, Owned
  <2>2. mem'.heap = k.heap \ {Block("lib"), Block("conf")}
    <3>1. Block("lib") \notin mem.heap
      BY <1>1, <1>6
    <3>2. Block("lib") \notin k.heap
      BY <1>4, <3>1
    <3> QED
      BY <1>7, <3>2
  <2>3. {b[1] : b \in k.heap \ {Block("lib"), Block("conf")}} = conf.ptr \cap Stdio
    <3> DEFINE h == mem.heap
               g == k.heap
    <3>1. /\ conf \in ConfRecord /\ g \subseteq h /\ OnlyBlocks(h, conf)
          /\ \A f \in conf.ptr \cap Stdio : Block(f) \in h
          /\ g \subseteq {Block(f) : f \in Stdio \cup {"lib", "conf"}}
          /\ \A f \in Stdio : Block(f) \in h => Block(f) \in g
      BY <1>1, <1>4, <2>1
    <3> HIDE DEF h, g
    <3>2. {b[1] : b \in g \ {Block("lib"), Block("conf")}} = conf.ptr \cap Stdio
      BY <3>1, StdioRemains
    <3> QED
      BY <3>2 DEF g
  <2>4. mem'.twice = {}
    <3>1. {Block("conf")} \ k.heap = {} /\ k.twice = {}
      BY <1>4
    <3> QED
      BY <1>7, <3>1
  <2> QED
    BY <2>2, <2>3, <2>4
<1>9. ReleasedTwice'
  BY <1>1, <1>5, <1>8, NotTwice DEF Seqs
<1> QED
  BY <1>1, <1>5, <1>7, <1>8, <1>9 DEF IInv, ConfTypeOK, StartOK, RootOK, LoadedOK, NotFailed,
     LeftBehind, LoadedIsUsable

-----------------------------------------------------------------------------
LEMMA InitGood == ConfInit => IInv
<1> SUFFICES ASSUME ConfInit PROVE IInv
  OBVIOUS
<1>1. NoConf \in ConfRecord
  <2>1. <<>> \in Counts(1)
    <3>1. 0 \in 0 .. MaxNr /\ <<>> \in [1 .. 0 -> 1 .. MaxNr]
      BY ConfBounds
    <3> QED
      BY <3>1 DEF Counts
  <2> QED
    BY <2>1, ConfBounds DEF NoConf, ConfRecord
<1>2. mem \in Memory
  BY DEF ConfInit, Memory
<1> QED
  BY <1>1, <1>2 DEF ConfInit, IInv, ConfTypeOK, StartOK, RootOK, LoadedOK, NotFailed,
     ReleasedTwice, ReleasedSeqs, Seqs, LeftBehind, LoadedIsUsable

LEMMA NextGood == IInv /\ [ConfNext]_cvars => IInv'
<1> SUFFICES ASSUME IInv, [ConfNext]_cvars PROVE IInv'
  OBVIOUS
<1>1. CASE Open
  BY <1>1, OpenGood
<1>2. CASE LoadSetting
  BY <1>2, LoadStringGood, LoadArrayGood, LoadSeqGood, LoadSignalGood DEF LoadSetting
<1>3. CASE Refuse
  BY <1>3, RefuseGood
<1>4. CASE Accept
  BY <1>4, AcceptGood
<1>5. CASE Destroy
  BY <1>5, DestroyGood
<1>6. CASE UNCHANGED cvars
  BY <1>6 DEF cvars, IInv, ConfTypeOK, StartOK, RootOK, LoadedOK, NotFailed,
     ReleasedTwice, ReleasedSeqs, Seqs, LeftBehind, LoadedIsUsable
<1> QED
  BY <1>1, <1>2, <1>3, <1>4, <1>5, <1>6 DEF ConfNext

LEMMA Invariant == ConfSpec => []IInv
BY InitGood, NextGood, PTL DEF ConfSpec

(* Type correctness of the structure and of the heap.                       *)
THEOREM ConfTypeCorrect == ConfSpec => []ConfTypeOK
<1>1. IInv => ConfTypeOK
  BY DEF IInv
<1> QED
  BY <1>1, Invariant, PTL

(* For files of any length and any failure at any point of any loader: a    *)
(* block is freed twice exactly when a command of a start or stop sequence  *)
(* is refused (conf.c:439 and 927), and only blocks of that sequence are.   *)
THEOREM TwiceIsKnown == ConfSpec => []ReleasedTwice
<1>1. IInv => ReleasedTwice
  BY DEF IInv
<1> QED
  BY <1>1, Invariant, PTL

(* Likewise what stays allocated at the end is the paths of stdin and       *)
(* stdout, or every setting if the name of the file could not be copied.    *)
THEOREM WhatIsLeft == ConfSpec => []LeftBehind
<1>1. IInv => LeftBehind
  BY DEF IInv
<1> QED
  BY <1>1, Invariant, PTL

(* A configuration that conf_create_from_file() returns is one that the     *)
(* repository and the state machine can rely on.                            *)
THEOREM LoadedConfIsUsable == ConfSpec => []LoadedIsUsable
<1>1. IInv => LoadedIsUsable
  BY DEF IInv
<1> QED
  BY <1>1, Invariant, PTL
=============================================================================
