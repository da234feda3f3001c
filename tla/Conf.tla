-------------------------------- MODULE Conf --------------------------------
(***************************************************************************)
(* The life of one struct conf_svc (conf.c, strarr.c): created from a      *)
(* file, handed over to a service, destroyed with it.                      *)
(*                                                                         *)
(* What is modelled is who owns which memory: every loader allocates       *)
(* several blocks one after the other, each allocation and each check of   *)
(* the file's contents may fail, and what has been allocated so far is     *)
(* released by whoever notices.  A file is an unordered collection of      *)
(* settings (libconfig refuses duplicates), chosen as it is read; the      *)
(* values that matter are the lists of service names.                      *)
(***************************************************************************)
EXTENDS Naturals, Sequences, FiniteSets

CONSTANTS
  Names,        \* service names a file may use
  NoName,       \* conf->name = NULL
  MaxNr,        \* bound on the elements of an array and of a list
  MaxSettings   \* bound on the known settings of a file

ASSUME ConfNames == NoName \notin Names
ASSUME ConfBounds == MaxNr \in Nat \ {0} /\ MaxSettings \in Nat

VARIABLES
  mem,    \* the heap, and the blocks that have been freed twice
  conf,   \* the struct conf_svc
  seen,   \* the settings of the file that have been read
  failed, \* what has made the creation fail, if anything
  pc      \* "start", "root", "loaded", "failed" or "destroyed"

cvars == <<mem, conf, seen, failed, pc>>

Stdio    == {"stdin", "stdout"}
Strings  == {"name", "description"} \cup Stdio
NameArrs == {"starton", "stopon"}
Arrays   == {"environ", "daemon"} \cup NameArrs
Seqs     == {"start", "stop"}
Settings == Strings \cup Arrays \cup Seqs \cup {"signal"}

(* A block is named by the setting it is for, the command (0: none) and the *)
(* element (0: the array itself): <<"start", 0, 0>> is the array cmds,      *)
(* <<"start", 1, 0>> the strarr of its first command and <<"start", 1, 2>>  *)
(* the second word of that.                                                 *)
Owners == Settings \cup {"conf", "lib", "path"}
Blocks == Owners \X (0 .. MaxNr) \X (0 .. MaxNr)

Block(f) == <<f, 0, 0>>
BlocksOf(fs, m) == {b \in m.heap : b[1] \in fs}

Lists == UNION {[1 .. n -> Names] : n \in 1 .. MaxNr}

(* A cmds array: how many strings the strarr of each of its commands has.   *)
Counts(min) == UNION {[1 .. k -> min .. MaxNr] : k \in 0 .. MaxNr}

Memory == [heap : SUBSET Blocks, twice : SUBSET Blocks]

ConfRecord == [ptr  : SUBSET (Strings \cup Arrays \cup {"path"}),
               nr   : [Seqs -> 0 .. MaxNr],
               cmds : [Seqs -> Counts(1)],
               name : Names \cup {NoName},
               list : [NameArrs -> Lists \cup {<<>>}]]

NoConf == [ptr  |-> {},
           nr   |-> [f \in Seqs |-> 0],
           cmds |-> [f \in Seqs |-> <<>>],
           name |-> NoName,
           list |-> [f \in NameArrs |-> <<>>]]

-----------------------------------------------------------------------------
(* Memory.                                                                  *)

malloc(m, bs) == [m EXCEPT !.heap = @ \cup bs]

free(m, bs) == [heap |-> m.heap \ bs, twice |-> m.twice \cup (bs \ m.heap)]

(* The array and its first n strings.                                       *)
Strarr(f, c, n) == {f} \X {c} \X (0 .. n)

(* Frees the array but not its strings.                                     *)
strarr_destroy_slip(m, f, c) == free(m, {<<f, c, 0>>})

(* Strings are put in from the first slot on: none is behind a NULL.        *)
strarr_destroy(m, f, c) ==
  free(m, {<<f, c, 0>>} \cup {b \in m.heap : b[1] = f /\ b[2] = c})

(* The array cmds and its commands.                                         *)
SeqBlocks(f, len) ==
  {Block(f)} \cup UNION {Strarr(f, c, len[c]) : c \in DOMAIN len}

(* What a release frees that finds cmds freed already: it follows what is   *)
(* left of the commands and of their strings, in either loop up to a NULL,  *)
(* which memory that has been freed may hold anywhere.  A pointer that has  *)
(* become a wild one by then is out of the model: tinit crashes, if at all, *)
(* within this release.                                                     *)
Stale(f, len) ==
  {SeqBlocks(f, e) \cap SeqBlocks(f, len) : e \in Counts(0)}

(* The memories a release may leave.  It clears neither nr nor cmds.        *)
conf_seq_release(m, f, c) ==
  IF c.nr[f] = 0
  THEN {m}
  ELSE {free(m, bs) : bs \in IF Block(f) \in m.heap THEN {BlocksOf({f}, m)}
                                                    ELSE Stale(f, c.cmds[f])}

(* Releases every setting but stdin and stdout.                             *)
conf_fini(m, c) ==
  LET fs == c.ptr \ Stdio
      k  == free(m, {Block(f) : f \in fs} \cup BlocksOf(fs, m))
  IN  UNION {conf_seq_release(r, "stop", c) : r \in conf_seq_release(k, "start", c)}

config_destroy(m) == free(m, {Block("lib")})

-----------------------------------------------------------------------------
(* How a step ends.                                                         *)

Keep(f, m, c) ==
  /\ mem' = m
  /\ conf' = c
  /\ seen' = seen \cup {f}
  /\ UNCHANGED <<failed, pc>>

(* conf_create_from_file() returns NULL.                                    *)
Fail(why, m, c) ==
  /\ mem' = free(config_destroy(m), {Block("conf")})
  /\ conf' = c
  /\ failed' = why
  /\ pc' = "failed"
  /\ UNCHANGED seen

(* The loader of setting f has failed: label fini_conf of conf_load_root(). *)
FailSetting(f, m, c) == \E r \in conf_fini(m, c) : Fail(f, r, c)

(* conf_load_root() has come to setting f of the file.                      *)
Reading(f) ==
  /\ pc = "root"
  /\ f \notin seen
  /\ Cardinality(seen) < MaxSettings

-----------------------------------------------------------------------------
(* The loaders.                                                             *)

(* A stdin or stdout that is no proper string is not told from one that is: *)
(* conf_load_stdio() returns its error as a positive length, and its caller *)
(* copies, or for stdin perhaps refuses, what an uninitialised pointer      *)
(* points at.  Either way the outcome is one of these two.                  *)
LoadString(f) ==
  /\ Reading(f)
  /\ \/ FailSetting(f, mem, conf)
     \/ \E n \in IF f = "name" THEN Names ELSE {conf.name} :
          Keep(f, malloc(mem, {Block(f)}),
               [conf EXCEPT !.ptr = @ \cup {f}, !.name = n])

(* What conf_load_strarr_setting() may leave when it fails: it has found    *)
(* nothing to load or no memory, or an element after e good ones is bad.    *)
StrarrFailures(m, f, c) ==
  {m} \cup {strarr_destroy(malloc(m, Strarr(f, c, e)), f, c) : e \in 0 .. MaxNr - 1}

(* Publishes the array before it is complete.                               *)
LoadArray_slip(f) ==
  /\ Reading(f)
  /\ \/ \E m \in StrarrFailures(mem, f, 0) :
          FailSetting(f, m, [conf EXCEPT !.ptr = @ \cup {f}])
     \/ \E n \in 1 .. MaxNr :
        \E l \in IF f \in NameArrs THEN [1 .. n -> Names] ELSE {<<>>} :
          Keep(f, malloc(mem, Strarr(f, 0, n)),
               [conf EXCEPT !.ptr = @ \cup {f},
                            !.list = [g \in NameArrs |-> IF g = f THEN l ELSE @[g]]])

LoadArray(f) ==
  /\ Reading(f)
  /\ \/ \E m \in StrarrFailures(mem, f, 0) : FailSetting(f, m, conf)
     \/ \E n \in 1 .. MaxNr :
        \E l \in IF f \in NameArrs THEN [1 .. n -> Names] ELSE {<<>>} :
          Keep(f, malloc(mem, Strarr(f, 0, n)),
               [conf EXCEPT !.ptr = @ \cup {f},
                            !.list = [g \in NameArrs |-> IF g = f THEN l ELSE @[g]]])

(* Counts a slot for an end marker, as in a strarr.                         *)
LoadSeq_slip(f) ==
  /\ Reading(f)
  /\ \E n \in 1 .. MaxNr : \E len \in [1 .. n -> 1 .. MaxNr] :
       Keep(f, malloc(mem, SeqBlocks(f, len)),
            [conf EXCEPT !.nr = [@ EXCEPT ![f] = n + 1],
                         !.cmds = [@ EXCEPT ![f] = len]])

(* nr is that of the list from conf_seq_setup() on, whatever is put in.     *)
LoadSeq(f) ==
  /\ Reading(f)
  /\ \/ FailSetting(f, mem, conf)
     \/ \E n \in 1 .. MaxNr : \E k \in 0 .. n : \E len \in [1 .. k -> 1 .. MaxNr] :
          LET m == malloc(mem, SeqBlocks(f, len))
              c == [conf EXCEPT !.nr = [@ EXCEPT ![f] = n],
                                !.cmds = [@ EXCEPT ![f] = len]]
          IN  \/ k = n /\ Keep(f, m, c)
              \/ /\ k < n
                 /\ \E r \in StrarrFailures(m, f, k + 1) :
                    \E w \in conf_seq_release(r, f, c) : FailSetting(f, w, c)

(* Signal numbers need no memory.                                           *)
LoadSignal ==
  /\ Reading("signal")
  /\ Keep("signal", mem, conf) \/ FailSetting("signal", mem, conf)
(* An unknown setting is skipped: nothing changes.                          *)
LoadSetting ==
  \/ \E f \in Strings : LoadString(f)
  \/ \E f \in Arrays : LoadArray(f)
  \/ \E f \in Seqs : LoadSeq(f)
  \/ LoadSignal

(* The service itself, or a name that comes twice.                          *)
conf_strarr_has_dups(list, name) ==
  \/ \E i \in DOMAIN list : list[i] = name
  \/ \E i, j \in DOMAIN list : i # j /\ list[i] = list[j]

HasCommand(c) == c.nr["start"] > 0 \/ c.nr["stop"] > 0 \/ "daemon" \in c.ptr

(* Looks at the names before the commands, and not at the commands.         *)
Acceptable_slip(c) ==
  /\ "name" \in c.ptr
  /\ \A f \in NameArrs \cap c.ptr : ~conf_strarr_has_dups(c.list[f], c.name)

Acceptable(c) ==
  /\ "name" \in c.ptr
  /\ HasCommand(c)
  /\ \A f \in NameArrs \cap c.ptr : ~conf_strarr_has_dups(c.list[f], c.name)

-----------------------------------------------------------------------------
(* conf_create_from_file() up to the first setting: calloc(), config_init() *)
(* and config_read_file().                                                  *)
Open ==
  /\ pc = "start"
  /\ UNCHANGED <<conf, seen>>
  /\ LET m == malloc(mem, {Block("conf"), Block("lib")})
     IN  \/ mem' = m /\ pc' = "root" /\ UNCHANGED failed
         \/ /\ mem' = free(config_destroy(m), {Block("conf")})
            /\ pc' = "failed" /\ failed' = "lib"
         \/ pc' = "failed" /\ failed' = "conf" /\ UNCHANGED mem

(* The last setting has been read.  With unknown settings only, `ret' is    *)
(* uninitialised: whatever it is the creation fails, for the name is        *)
(* missing.  An empty file has nothing to release.                          *)
Refuse ==
  /\ pc = "root"
  /\ ~Acceptable(conf)
  /\ FailSetting("name", mem, conf)

(* The base name of the file is kept; if there is no memory for it          *)
(* conf_create_from_file() frees the structure and nothing else.            *)
Accept ==
  /\ pc = "root"
  /\ Acceptable(conf)
  /\ \/ Fail("path", mem, conf)
     \/ /\ mem' = config_destroy(malloc(mem, {Block("path")}))
        /\ conf' = [conf EXCEPT !.ptr = @ \cup {"path"}]
        /\ pc' = "loaded"
        /\ UNCHANGED <<seen, failed>>

(* conf_destroy(), when the service is destroyed or cannot be created.      *)
Destroy ==
  /\ pc = "loaded"
  /\ \E r \in conf_fini(mem, conf) : mem' = free(r, {Block("conf")})
  /\ pc' = "destroyed"
  /\ UNCHANGED <<conf, seen, failed>>

ConfInit ==
  /\ mem = [heap |-> {}, twice |-> {}]
  /\ conf = NoConf
  /\ seen = {}
  /\ failed = "none"
  /\ pc = "start"

ConfNext == Open \/ LoadSetting \/ Refuse \/ Accept \/ Destroy

ConfSpec == ConfInit /\ [][ConfNext]_cvars

-----------------------------------------------------------------------------
(* Invariants.                                                              *)

(* The structure and the heap have values of their types.                   *)
ConfTypeOK ==
  /\ mem \in Memory
  /\ conf \in ConfRecord
  /\ seen \subseteq Settings
  /\ failed \in Owners \cup {"none"}
  /\ pc \in {"start", "root", "loaded", "failed", "destroyed"}

(* The sequence that failed once its cmds had been allocated, if one did:   *)
(* conf_load_seq_setting() has released it and conf_fini() does it again.   *)
ReleasedSeqs == {f \in Seqs : failed = f /\ conf.nr[f] > 0}

(* Blocks are freed twice exactly when a command of a start or stop         *)
(* sequence is not accepted: then cmds is, and what else is freed twice is  *)
(* a command that had been accepted or a string of one.  No other failure,  *)
(* of whatever loader and at whatever point, frees a block twice.           *)
ReleasedTwice ==
  /\ {Block(f) : f \in ReleasedSeqs} \subseteq mem.twice
  /\ mem.twice \subseteq UNION {SeqBlocks(f, conf.cmds[f]) : f \in ReleasedSeqs}

(* What stays allocated when a creation has failed or a configuration has   *)
(* been destroyed is the paths of stdin and stdout that had been read,      *)
(* which conf_fini() forgets; only when there was no memory left to copy    *)
(* the file's name is it every setting.  No other block is left behind,     *)
(* whatever has failed and whenever.                                        *)
LeftBehind ==
  pc \in {"failed", "destroyed"} =>
    {b[1] : b \in mem.heap} =
      IF failed = "path" THEN conf.ptr \cup {f \in Seqs : conf.nr[f] > 0}
                         ELSE conf.ptr \cap Stdio

(* All that a loaded configuration points to is there and complete, and it  *)
(* is what the repository and the state machine rely on: a name, something  *)
(* to run, no service named twice or by itself.                             *)
LoadedIsUsable ==
  pc = "loaded" =>
    /\ mem.twice = {}
    /\ {Block(f) : f \in conf.ptr \cup {"conf"}} \subseteq mem.heap
    /\ \A f \in Arrays \cap conf.ptr : <<f, 0, 1>> \in mem.heap
    /\ \A f \in Seqs, c \in 1 .. MaxNr :
         c <= conf.nr[f] <=> <<f, c, 0>> \in mem.heap /\ <<f, c, 1>> \in mem.heap
    /\ conf.name \in Names
    /\ HasCommand(conf)
    /\ \A f \in NameArrs : \A i \in DOMAIN conf.list[f] :
         /\ conf.list[f][i] # conf.name
         /\ \A j \in 1 .. i - 1 : conf.list[f][i] # conf.list[f][j]
=============================================================================
