----------------------------- MODULE WhefsNames -----------------------------
(***************************************************************************)
(* The names of the files of one container and the cache of their hashes:  *)
(* the names table (whefs_fs.c), whefs_inode_by_name and                   *)
(* whefs_inode_name_set (whefs_inode.c), the cache (whefs_cache.c), its    *)
(* list (whefs_hash.c), and the calls that open, create, rename and unlink *)
(* by name (whefs_file.c).                                                 *)
(*                                                                         *)
(* The cache knows hashes only, and its entries are trusted: a hit on a    *)
(* hash is the file or an assertion fails.  Two names may have one hash.   *)
(*                                                                         *)
(* Looking up a name walks over the inodes, reading a name at each step,   *)
(* and every name that is read enters the cache: a lookup is one step per  *)
(* inode, during which no other call runs (the library has no threads).    *)
(* Between calls the list is sorted, so it is kept sorted here; entries of *)
(* one hash stay in their order, as with a stable qsort.  Hit counters are *)
(* left out: whefs_inode_hash_cache_chomp_lv keeps any half of the list.   *)
(***************************************************************************)
EXTENDS Naturals, FiniteSets, SequencesExt

CONSTANTS
  NumInodes,   \* options.inode_count, with the root inode 1
  Name,        \* the names clients use
  LongName,    \* those longer than options.filename_length
  NoName,      \* the empty string
  Hash,        \* fs->cache.hashfunc: [Name \cup {NoName} -> Nat]
  FirstAlloc,  \* the first allocation when a name is cached (12 in the code)
  LoadAlloc    \* the first allocation when all names are loaded (16)

ASSUME CountAssumption == NumInodes \in Nat \ {0}
ASSUME NameAssumption  == NoName \notin Name /\ LongName \subseteq Name
ASSUME HashAssumption  == Hash \in [Name \cup {NoName} -> Nat]
ASSUME AllocAssumption == FirstAlloc \in Nat \ {0} /\ LoadAlloc \in Nat \ {0}

VARIABLES
  used,      \* the inodes flagged used
  name,      \* the names table: [Inode -> Name \cup {NoName}]
  first,     \* the inodes with a first block
  held,      \* the inodes whose blocks are flagged used
  readers,   \* the inodes opened for reading
  writers,   \* the inodes opened for reading and writing
  enabled,   \* WHEFS_FLAG_FS_EnableHashCache
  cache,     \* fs->cache.hashes: its entries, and alloced; 0 when it is null
  call,      \* the call in progress, at one inode
  aborted    \* an assertion failed

files == <<used, name, first, held>>
opens == <<readers, writers>>
vars  == <<files, opens, enabled, cache, call, aborted>>

Inode == 2..NumInodes          \* inode 1 is the root
Entry == [hash : Nat, id : Inode]

NoCache == [list |-> <<>>, alloced |-> 0]
Idle    == [op |-> "none", name |-> NoName, at |-> 0, exact |-> FALSE]
Lookup  == {"read", "write", "unlink"}

TypeOK ==
  /\ used \subseteq Inode /\ first \subseteq Inode /\ held \subseteq Inode
  /\ readers \subseteq Inode /\ writers \subseteq Inode
  /\ name \in [Inode -> Name \cup {NoName}]
  /\ enabled \in BOOLEAN /\ aborted \in BOOLEAN
  /\ cache \in [list : Seq(Entry), alloced : Nat]
  /\ call \in [op : Lookup \cup {"none", "load"}, name : Name \cup {NoName},
               at : Nat, exact : BOOLEAN]

Init ==
  /\ used = {} /\ first = {} /\ held = {}
  /\ name = [i \in Inode |-> NoName]
  /\ readers = {} /\ writers = {}
  /\ enabled = TRUE
  /\ cache = NoCache
  /\ call = Idle
  /\ aborted = FALSE

-----------------------------------------------------------------------------
(***************************************************************************)
(* The list of hashes.                                                     *)
(***************************************************************************)

Lesser(a, b) == IF a < b THEN a ELSE b

\* The first entry with hash h, 0 for IDTypeEnd (whefs_hashid_list_index_of).
IndexOf(l, h) ==
  IF \E k \in DOMAIN l : l[k].hash = h
    THEN CHOOSE k \in DOMAIN l : /\ l[k].hash = h
                                 /\ \A j \in 1..(k - 1) : l[j].hash # h
    ELSE 0

\* An entry is appended and the list is sorted.
Sorted(l, e) ==
  InsertAt(l, 1 + Cardinality({j \in DOMAIN l : l[j].hash <= e.hash}), e)

\* Entry k gets another hash and the list is sorted.
Rehashed(l, k, h) ==
  LET before == {j \in DOMAIN l \ {k} : \/ l[j].hash < h
                                        \/ l[j].hash = h /\ j < k}
  IN  InsertAt(RemoveAt(l, k), 1 + Cardinality(before),
               [hash |-> h, id |-> l[k].id])

\* The slots of the list when an entry is to be added: it grows up to
\* maxAlloc, which is the number of inodes (whefs_hashid_list_add).
Slots(c) ==
  LET have == IF c.alloced = 0 THEN Lesser(FirstAlloc, NumInodes)
                               ELSE c.alloced
  IN  IF Len(c.list) < have THEN have
      ELSE Lesser((Len(c.list) + 1) * 2, NumInodes)

\* Caching the name of inode i (whefs_inode_hash_cache).  The caller ignores
\* that another inode has the hash, and that the list is full.
AddName(c, i) ==
  LET h == Hash[name[i]]
  IN  IF IndexOf(c.list, h) = 0 /\ Len(c.list) < Slots(c)
        THEN [list |-> Sorted(c.list, [hash |-> h, id |-> i]),
              alloced |-> Slots(c)]
        ELSE c

\* Reading the name of inode i caches it (whefs_inode_name_get).
NameRead(c, i) ==
  IF enabled /\ name[i] # NoName THEN AddName(c, i) ELSE c

-----------------------------------------------------------------------------
(***************************************************************************)
(* whefs_inode_name_set(fs, i, n).  It reads the old name, which caches it,*)
(* and gives its entry the hash of the new name.  An entry of another      *)
(* inode under that hash is an error.  The early return for an unchanged   *)
(* name leaves what the rest of the function would leave.                  *)
(***************************************************************************)

\* Mutant: of the entries with the hash the last one is taken.
LastEntryToChange(i, n) ==
  LET l == NameRead(cache, i).list
      K == {k \in DOMAIN l :
              l[k].hash = Hash[IF name[i] # NoName THEN name[i] ELSE n]}
  IN  IF enabled /\ K # {} THEN CHOOSE k \in K : \A j \in K : j <= k ELSE 0

EntryToChange(i, n) ==
  IF enabled
    THEN IndexOf(NameRead(cache, i).list,
                 Hash[IF name[i] # NoName THEN name[i] ELSE n])
    ELSE 0

\* Mutant: the inode of the entry is not checked.
CollidesNever(i, n) == FALSE

Collides(i, n) ==
  LET k == EntryToChange(i, n)
  IN  k # 0 /\ NameRead(cache, i).list[k].id # i

CanName(i, n) == ~ Collides(i, n) /\ n \notin LongName

SetName(i, n) ==
  LET c == NameRead(cache, i)
      k == EntryToChange(i, n)
  IN  /\ CanName(i, n)
      /\ name' = [name EXCEPT ![i] = n]
      /\ cache' = IF k = 0 THEN c
                  ELSE [c EXCEPT !.list = Rehashed(c.list, k, Hash[n])]

SetNameFails(i, n) ==
  /\ ~ CanName(i, n)
  /\ cache' = NameRead(cache, i)
  /\ UNCHANGED name

-----------------------------------------------------------------------------
(***************************************************************************)
(* Looking a name up: whefs_inode_by_name.  It starts at the inode of the  *)
(* cached entry, which then must be the one, or at the first inode.        *)
(***************************************************************************)

Ready == call = Idle /\ ~ aborted

Begin(op, n) ==
  LET k == IndexOf(cache.list, Hash[n])
  IN  /\ Ready
      /\ n \notin LongName
      /\ call' = [op |-> op, name |-> n, exact |-> k # 0,
                  at |-> IF k = 0 THEN 2 ELSE cache.list[k].id]
      /\ UNCHANGED <<files, opens, enabled, cache, aborted>>

\* A name that is too long is not found, which makes whefs_fopen create it.
BeginTooLong(n) ==
  /\ Ready
  /\ n \in LongName
  /\ call' = [op |-> "write", name |-> n, exact |-> FALSE, at |-> NumInodes + 1]
  /\ UNCHANGED <<files, opens, enabled, cache, aborted>>

Looking(op) == ~ aborted /\ call.op = op
\* Mutant: a cached hash is taken for the name.
AtFileByHash ==
  call.at \in used /\ (call.exact \/ name[call.at] = call.name)

AtFile      == call.at \in used /\ name[call.at] = call.name
AtNameless  == call.at \in used /\ name[call.at] = NoName

\* The cached entry led to an inode with another name: an assertion fails.
LookupAborts ==
  /\ ~ aborted /\ call.op \in Lookup /\ call.at \in Inode
  /\ call.exact /\ ~ AtFile /\ ~ AtNameless
  /\ aborted' = TRUE
  /\ cache' = IF call.at \in used THEN NameRead(cache, call.at) ELSE cache
  /\ UNCHANGED <<files, opens, enabled, call>>

\* Mutant: after a cached entry of another name the search goes on.
LookOnUnchecked ==
  /\ ~ aborted /\ call.op \in Lookup /\ call.at \in Inode
  /\ ~ AtFile
  /\ cache' = IF call.at \in used THEN NameRead(cache, call.at) ELSE cache
  /\ call' = [call EXCEPT !.at = @ + 1]
  /\ UNCHANGED <<files, opens, enabled, aborted>>

\* Not this inode.
LookOn ==
  /\ ~ aborted /\ call.op \in Lookup /\ call.at \in Inode
  /\ ~ AtFile /\ (call.exact => AtNameless)
  /\ cache' = IF call.at \in used THEN NameRead(cache, call.at) ELSE cache
  /\ call' = [call EXCEPT !.at = @ + 1]
  /\ UNCHANGED <<files, opens, enabled, aborted>>

\* No inode has the name: the call returns an error.
NotFound ==
  /\ Looking("read") \/ Looking("unlink")
  /\ call.at \notin Inode
  /\ call' = Idle
  /\ UNCHANGED <<files, opens, enabled, cache, aborted>>

-----------------------------------------------------------------------------
(***************************************************************************)
(* The calls, once the name is found or not found.                         *)
(***************************************************************************)

\* whefs_fopen(fs, name, "r").
FoundToRead ==
  /\ Looking("read") /\ AtFile
  /\ cache' = NameRead(cache, call.at)
  /\ readers' = readers \cup {call.at}
  /\ call' = Idle
  /\ UNCHANGED <<files, writers, enabled, aborted>>

\* whefs_fopen(fs, name, "r+") of a file: it fails when there is a writer.
FoundToWrite ==
  /\ Looking("write") /\ AtFile
  /\ cache' = NameRead(cache, call.at)
  /\ writers' = writers \cup {call.at}
  /\ call' = Idle
  /\ UNCHANGED <<files, readers, enabled, aborted>>

\* whefs_fopen(fs, name, "r+") of a new file: the first unused inode is taken,
\* then it gets its name; it stays used when that fails.
Create ==
  /\ Looking("write") /\ call.at \notin Inode
  /\ call' = Idle
  /\ UNCHANGED <<first, held, readers, enabled, aborted>>
  /\ IF used = Inode
       THEN UNCHANGED <<used, name, writers, cache>>
       ELSE LET i == CHOOSE j \in Inode \ used : \A k \in Inode \ used : j <= k
            IN  /\ used' = used \cup {i}
                /\ \/ SetName(i, call.name) /\ writers' = writers \cup {i}
                   \/ SetNameFails(i, call.name) /\ UNCHANGED writers

\* whefs_unlink_filename: the blocks are wiped before the name is removed,
\* and the inode is cleared only when the name could be removed.
FoundToUnlink ==
  LET i == call.at
  IN  /\ Looking("unlink") /\ AtFile
      /\ call' = Idle
      /\ UNCHANGED <<opens, enabled, aborted>>
      /\ \/ /\ i \in readers \cup writers
            /\ cache' = NameRead(cache, i)
            /\ UNCHANGED files
         \/ /\ i \notin readers \cup writers
            /\ held' = held \ {i}
            /\ \/ SetName(i, NoName) /\ used' = used \ {i} /\ first' = first \ {i}
               \/ SetNameFails(i, NoName) /\ UNCHANGED <<used, first>>

\* whefs_file_name_set.
Rename(i, n) ==
  /\ Ready /\ i \in writers
  /\ SetName(i, n) \/ SetNameFails(i, n)
  /\ UNCHANGED <<used, first, held, opens, enabled, call, aborted>>

\* whefs_file_name_get, whefs_ls and whefs_fs_entry_foreach, which may call
\* back between two names.
GetName(i) ==
  /\ Ready /\ i \in used
  /\ cache' = NameRead(cache, i)
  /\ UNCHANGED <<files, opens, enabled, call, aborted>>

\* The first write to an empty file takes a block.
FirstWrite(i) ==
  /\ Ready /\ i \in writers \ first
  /\ first' = first \cup {i}
  /\ held' = held \cup {i}
  /\ UNCHANGED <<used, name, opens, enabled, cache, call, aborted>>

\* A file opened twice for reading stays in readers until its last close.
CloseFile(i) ==
  /\ Ready
  /\ \/ i \in readers /\ readers' = readers \ {i} /\ UNCHANGED writers
     \/ i \in writers /\ writers' = writers \ {i} /\ UNCHANGED readers
  /\ UNCHANGED <<files, enabled, cache, call, aborted>>

\* whefs_fs_finalize, which closes the files, and whefs_openfs.
Remount ==
  /\ Ready
  /\ readers' = {} /\ writers' = {}
  /\ enabled' = TRUE
  /\ cache' = NoCache
  /\ UNCHANGED <<files, call, aborted>>

-----------------------------------------------------------------------------
(***************************************************************************)
(* Switching the cache: whefs_fs_setopt_hash_cache(fs, on, loadNow), and   *)
(* whefs_inode_hash_cache_chomp_lv.                                        *)
(***************************************************************************)

\* Mutant: the entries survive while the cache is off.
CacheOffKeepsEntries ==
  /\ Ready
  /\ enabled' = FALSE
  /\ UNCHANGED <<files, opens, cache, call, aborted>>

CacheOff ==
  /\ Ready
  /\ enabled' = FALSE
  /\ cache' = NoCache
  /\ UNCHANGED <<files, opens, call, aborted>>

CacheOn ==
  /\ Ready
  /\ enabled' = TRUE
  /\ UNCHANGED <<files, opens, cache, call, aborted>>

\* whefs_inode_hash_cache_load goes from the last inode to the first.
CacheLoad ==
  /\ Ready
  /\ enabled' = TRUE
  /\ cache' = IF cache.alloced # 0 THEN cache
              ELSE [cache EXCEPT !.alloced = Lesser(LoadAlloc, NumInodes)]
  /\ call' = [op |-> "load", name |-> NoName, exact |-> FALSE, at |-> NumInodes]
  /\ UNCHANGED <<files, opens, aborted>>

LoadName ==
  /\ Looking("load")
  /\ cache' = IF call.at \in used THEN NameRead(cache, call.at) ELSE cache
  /\ call' = IF call.at <= 2 THEN Idle ELSE [call EXCEPT !.at = @ - 1]
  /\ UNCHANGED <<files, opens, enabled, aborted>>

\* The less visited half is to stay; which one that is is left open.
Chomp ==
  LET l == cache.list
  IN  /\ Ready
      /\ Len(l) >= 2 /\ Len(l) >= cache.alloced \div 2
      /\ \E f \in [1..(Len(l) \div 2) -> DOMAIN l] :
           /\ \A j, k \in DOMAIN f : j < k => f[j] < f[k]
           /\ cache' = [cache EXCEPT !.list = [j \in DOMAIN f |-> l[f[j]]]]
      /\ UNCHANGED <<files, opens, enabled, call, aborted>>

Next ==
  \/ \E op \in Lookup, n \in Name : Begin(op, n)
  \/ \E n \in Name : BeginTooLong(n)
  \/ LookupAborts \/ LookOn \/ NotFound
  \/ FoundToRead \/ FoundToWrite \/ Create \/ FoundToUnlink
  \/ \E i \in Inode, n \in Name : Rename(i, n)
  \/ \E i \in Inode : GetName(i) \/ FirstWrite(i) \/ CloseFile(i)
  \/ Remount \/ CacheOff \/ CacheOn \/ CacheLoad \/ LoadName \/ Chomp

Spec == Init /\ [][Next]_vars

-----------------------------------------------------------------------------
(***************************************************************************)
(* Properties.                                                             *)
(***************************************************************************)

\* What the cache says of an inode is the hash of the name it has now, or the
\* hash of the empty name, which an unlinked file leaves behind.
CacheTrue ==
  \A k \in DOMAIN cache.list :
    cache.list[k].hash \in {Hash[name[cache.list[k].id]], Hash[NoName]}

\* A lookup that ends without a hit has missed no file: the call that creates
\* a file never makes a second one of that name.
MissMeansAbsent ==
  call.op \in Lookup /\ call.at \notin Inode =>
    \A i \in Inode : name[i] # call.name

\* No inode points to blocks that are free for other files, although unlink
\* frees the blocks before it knows whether the name can be removed.
BlocksHeld == first \subseteq held

\* The assertions of whefs_inode_by_name hold: the inode of a cached hash has
\* the name that was looked for (whefs_inode.c:701 and 726-727).
NeverAborts == ~ aborted

\* Files are removed with their names, and no open file loses its inode.
NamedIsUsed ==
  /\ \A i \in Inode : name[i] # NoName => i \in used
  /\ readers \cup writers \subseteq used

\* The call of a client that is in progress.
Asked == IF call.op \in Lookup
           THEN [op |-> call.op, name |-> call.name]
           ELSE [op |-> "none", name |-> NoName]

\* Searches and hashes do not show: a call concerns a file of the name that was
\* asked for, and the names and what is opened change as Directory says.
Names == INSTANCE Directory WITH asked <- Asked
ImplementsDirectory == Names!Spec

=============================================================================
