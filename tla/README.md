# TLA+ verification of iqiq and the whefs embedded filesystem

`iqunpack` takes a Carrier IQ profile out of a whefs container (`archive.img`)
and expands it, `iqiq` prints it. Almost all of the repository is `libwhefs`: an
embedded filesystem with a fixed number of inodes and data blocks in one flat
file, which it reaches through an i/o device (`whio_dev`). This directory holds
TLA+ modules translated from that source, the TLC runs that check them on small
instances, and TLAPS proofs that hold for instances of every size.

Source paths are relative to `src/libwhefs-20111103/src/` unless they start with
`src/`. `PROJECT.json` names, for each definition, the lines it is translated
from.

## The system

A container starts with a header (magic bytes, file size, options, search
hints), followed by the names table, the inode table and the blocks. A block has
metadata (used flag, id of the next block) and data. An inode names the first
block of its chain and the size of the file. All of it is read and written
through one device; what is kept in memory is the table of opened inodes, the
search hints, a cache of name hashes and a list of objects to close.

A client opens a *pseudofile*: `whefs_fopen` finds or creates an inode by name
and makes a device for it (`whefs_dev_for_inode`). Several devices may be open
on one inode and share its entry in `fs->opened_nodes`, of which at most one may
write. A device maps positions to blocks through the block list of the entry,
loaded from the chain once, and takes free blocks from the block store when it
writes behind the end. `whefs_fs_finalize` ends a session: it writes the hints
and closes what is open.

There are no threads, and the only callbacks are those of listings and the
appenders of formatted output. Several
processes may use one container: each takes an fcntl lock on the whole file when
it has opened it, and drops it in `whefs_fs_finalize`. So while a container is
open it has one writer or only readers, but making it, opening it and waiting
for the lock interleave. What makes the code hard is

- state that is shared by several devices and closed in any order;
- three copies of a chain (the links in the container, the block list of the
  entry, the first block of the inode) that are changed together by hand;
- truncation, which has a case of its own for zero, shrinking and growing;
- search hints, which are correct only if they never pass a free block;
- the absence of a journal: a call is a sequence of writes, and the process may
  stop between any two;
- calls that fail halfway because the container is full or a write fails, and
  keep what they did;
- what is done before the lock is held, or after it is gone;
- lists that are edited while somebody walks over them, and a device that
  several parts share with one position.

### Inventory

| component | source | state | operations | what makes it correct |
|---|---|---|---|---|
| opened inodes | `whefs_inode.c`, `whefs_nodedev.c`, `whefs_file.c` | per opened inode: use count, writer, size, first block, block list | `whefs_inode_open`, `_close`, `_unlink`, `_flush`, `whefs_dev_for_inode` | the count is the number of devices; one writer; no size is lost at a close; an open file is not removed |
| file devices | `whefs_nodedev.c`, `whefs_file.c` | position per device; block list and size of the entry | read, write, seek, truncate, flush, close | a file is a sequence of bytes, whatever its blocks are |
| block store | `whefs_block.c` | used flag, next block and data per block; block hint | `whefs_block_next_free`, `_wipe`, `_wipe_data`, `_flush` | chains are disjoint and end; free blocks are blank; a free block is found |
| container inodes | `whefs_inode.c` | used flag, size, first block, times; inode hint | `whefs_inode_next_free`, `_id_read`, `_flush`, `_foreach` | an inode is handed out once |
| crashes | `whefs_block.c`, `whefs_inode.c`, `whefs_nodedev.c`, `whefs_fs.c` | what is in the container between two writes | every call that writes metadata | which crashes damage a container |
| names | `whefs_fs.c`, `whefs_inode.c`, `whefs_hash.c`, `whefs_cache.c` | names table in the container; sorted list of (hash, inode) with hit counts | `whefs_fs_name_get/write`, `whefs_inode_name_set`, `whefs_inode_by_name`, cache load, sort, chomp | a name leads to the inode that has it |
| container lifecycle | `whefs_fs.c` | header (magic, size, options, hints), what is formatted | `whefs_mkfs`, `whefs_openfs`, `whefs_fs_append_blocks`, `whefs_fs_finalize` | what can be opened is complete; a handle agrees with the file |
| locking | `whefs_fs.c`, `whio_dev_fileno.c` | one fcntl lock per process | lock, unlock | one writer or several readers; who waits gets the lock |
| objects to close | `whefs_fs_closer.c` | doubly linked list of files, devices and streams | add, promote, remove, close all | each object is closed once, as what the client has of it |
| devices | `whio_dev_mem.c`, `whio_dev_subdev.c`, `whio_dev_fileno.c`, `whio_dev.c` | buffer, size, position; window and position of each part | the `whio_dev` calls, on the device and on parts of it, and of whole records | they are sequences of bytes; parts do not disturb each other |
| making and owning objects | `whio_dev.c`, `whio_dev_*.c`, `whio_stream*.c`, and the `_alloc` and `_free` of every type | two or three pieces of memory per object, what it is made of, marks of the places of an array | make, close, finalize; fetch into a buffer | nothing is given up twice or lost, whatever fails |
| the device of a container | `whefs_fs.c` | who owns it, the mapping and its proxy | `whefs_mkfs(_dev)`, `whefs_openfs(_dev)`, `whefs_fs_mmap_connect`, `_disconnect` | it is finalized once, by who owns it |
| layout | `whefs_fs.c`, `whefs_encode.h`, `whefs_block.c`, `whefs_inode.c` | offsets and sizes of the tables | `whefs_fs_init_sizes`, `whefs_fs_calculate_size`, positions of records | records do not overlap; all computations of the end agree |
| encoding | `whio_encode.c`, `whefs_encode.c`, and the records in `whefs_inode.c`, `whefs_block.c`, `whefs_fs.c` | none | encode and decode numbers, strings, packs, records | decode is the inverse of encode, and refuses what is something else |
| bitsets | `whbits.c`, `whefs_fs.c`, `whefs_inode.c`, `whefs_block.c` | a bit per inode and block | set, clear, ask, load, grow | a bit never hides what is free, or a file |
| import, export, copies, zlib | `whefs_client_util.c`, `whio_stream.c`, `whio_dev.c`, `whio_zlib.c` | position and buffer of the loop | loops of reads and writes | success means that all was copied; what failed is undone |
| listings, strings | `whefs_client_util.c`, `whefs_string.c` | a string that is used for name after name, and a list of copies | `whefs_ls`, `whefs_fs_entry_foreach` | each name is that of its file; each buffer has one owner |
| patterns | `whglob.c` | none | shell patterns and LIKE | a match is what the documentation of a pattern says |
| formatting | `whprintf.c` | the count, the growing string | `whprintfv` and its appenders | the output is what the conversions say, and counted |
| iqunpack | `src/iqunpack.c` | position in the token and in the output | find profiles in a container, expand them | the file is the last profile |
| iqiq | `src/iqiq.c` | indentation | print a profile | what is printed is the profile |
| tools | `app/*.c` | list of files, options | `ls`, `cp`, `rm`, `cat`, `mkfs`, `addblocks` | success means all is done; nothing else is touched |
| stdio devices, configuration | `whio_dev_FILE.c`, `whefs_details.c` | a `FILE` | delegation, constants | those of the C library |

The hazards of the code, each at its line and with the properties that are about
it, are listed in `PROJECT.json`.

## The modules

| module | what it is |
|---|---|
| `WhefsInodes` | the table of opened inodes: devices, use counts, the writer, sizes in memory and in the container |
| `WhefsInodesProofs` | its invariants, proved |
| `WhefsBlocks` | the block store: free blocks, chains, wiping, data, as operators on the blocks |
| `WhefsFile` | file devices over the block store and the table of opened inodes |
| `WhefsFileProofs` | its invariants, that it implements `WhefsInodes`, that a device reads the content of its file, and that it implements `ByteFiles`, proved |
| `ByteFiles` | what file devices promise: files are sequences of bytes |
| `WhefsCrash` | the single writes of each call to the metadata, with crashes between them |
| `WhefsCrashProofs` | its invariants, proved |
| `WhefsNames` | the names table, lookup by name, and the cache of name hashes |
| `Directory` | what the calls that take a name promise, without hashes |
| `WhefsNamesProofs` | its invariants and that it implements `Directory`, proved |
| `WhefsContainer` | making, opening, extending and closing a container by several processes, write by write, with its lock |
| `WhefsContainerProofs` | its invariants, proved |
| `WhefsClosers` | the list of objects that `whefs_fs_finalize` closes |
| `WhioMemory` | the devices over memory and files, and devices on parts of them |
| `WhioDevice` | what `whio_dev.h` promises of a device and its parts |
| `WhioMemoryProofs` | that `WhioMemory` implements `WhioDevice`, proved |
| `WhioEncode` | numbers, strings, packs and the records of a container, as bytes on a device |
| `WhefsLayout` | where the records of a container are, and what making, opening and extending it compute from the options |
| `WhioHandles` | who owns what among devices, streams, block devices and files |
| `WhioPools` | the pools that objects come from |
| `WhioFetch` | fetching into a buffer that is used again |
| `WhefsDevice` | who owns the device of a container, and its mapping |
| `WhefsBits` | the bitsets of inodes and blocks in use |
| `WhefsListing` | strings, and the two loops over all names |
| `WhGlob` | matching patterns |
| `WhioCopy` | the loops that copy, import, compress and expand |
| `Whprintf` | formatted output, call by call |
| `Iqunpack` | finding and expanding profiles |
| `Iqiq` | printing profiles |
| `WhefsApps` | the command line tools |
| `WhefsParts` | nine of the modules that share no state, in one specification |
| `WhefsPartsProofs` | the invariants of those that belong to a container (closers, layout, listings, bitsets, device), proved |
| `WhioPartsProofs` | the invariants of those below it (copies, pools, handles, fetches), proved |
| `MCParts` | one instance for TLC of all modules that share no state: those of `WhefsParts` and six others |
| `MCWhefsInodes`, `MCWhefsFile`, `MCWhefsCrash`, `MCWhefsNames`, `MCWhefsContainer`, `MCWhioMemory`, `MCIqunpack` | instances for TLC |

How they fit together: `WhefsFile` EXTENDS `WhefsBlocks`, and implements both
`WhefsInodes` (property `ImplementsTable`, by forgetting blocks and positions; proved)
and, for well-behaved clients, `ByteFiles` (property `ImplementsFiles`, by
reading each file out of its chain; proved). So `WhefsInodes` is the abstract
specification of the table, `ByteFiles` that of the files. `WhefsCrash` refines
the grain instead: one step is one write, where `WhefsFile` has one step per
call. `WhefsNames` is the other half of `whefs_fopen` and
`whefs_unlink_filename`: which inode a name means. It has the table of opened
inodes as two sets and of the block store whether an inode has blocks, and
implements `Directory`.

`WhefsContainer` is the outer layer: everything the modules above describe
happens while a handle is at its stage `open`, and the two properties that say
so (nobody else writes, and the handle agrees with the file) are what allows
`WhefsFile`, `WhefsNames` and `WhefsCrash` to be about one process.
`WhefsClosers` is the inside of the one step `Reopen` of `WhefsFile`.
`WhioMemory` is the device under the container and implements `WhioDevice`, and
`WhioEncode` is the bytes that are written there; the modules above them count a
record as one value, which is what `ItemsTold` allows, at a place of its own,
which is what `LayoutSound` allows. `WhefsBits` is a part of the search for free
inodes and blocks that the configuration of the repository leaves off;
`WhefsFile` and `WhefsInodes` search as it is configured. `WhioCopy`,
`WhefsListing` and `WhefsApps` are above the container: they use its files and
names as `ByteFiles` and `Directory` promise them.

The modules that share no state with others are put together by `WhefsParts` and
`MCParts`: a behaviour is one of a single part, the variables of all others being
constant. So a part has as many states as it would have alone. `WhefsParts` has
those that something is proved about. `MCParts` EXTENDS it by the others, some of
which are written with `RECURSIVE` operators; to `WhefsParts`, a behaviour of one
of these is one in which nothing happens.

### WhefsInodes

`opened` is `fs->opened_nodes`: the list is sorted by inode id and holds an
inode at most once, so it is a function of the inode, with count 0 for an inode
that is not in it. `dev` are the devices, `disk` the inode table. `OpenRead`,
`OpenWrite` and `CreateWrite` are `whefs_fopen_ro/rw` up to
`whefs_dev_for_inode`. A write or a truncation is `Resize`; both leave the new
size in memory, and depending on what else they do the container has the old
size, the size before the call or the new one. `Close` is `whio_dev_inode_close`
with `whefs_inode_close`; `Reopen` is `whefs_fs_finalize` followed by
`whefs_openfs`. `Crash` drops the memory.

Properties: `OpenCountExact`, `WriterIsDevice`, `CleanWithoutWriter`,
`OpenedIsUsed`, and `CloseKeepsSize`: a close, shared or not, changes no size
that the devices that stay open or the next one to open the inode see, and when
the writer goes its size is in the container.

### WhefsBlocks and WhefsFile

An API call is one action. Inside, a call is a function on a *session*, a record
of the state it works on, its return code and what is left to transfer; the
loops of the code (`whio_dev_inode_read`, `_write`, the growth loop of
`whefs_block_for_pos`) repeat a step of the session until it has an error or
nothing left. That keeps the early returns and what a failing call leaves
behind. An assertion that fails sets `aborted`, after which only `Stopped` is
possible.

The model keeps the defects of `whio_dev_inode_trunc`. Under `Spec` a client may
make any call; the properties that hold nevertheless are those of the run
`file_structure`. Under `SafeSpec` a client makes only the truncations that do
not meet the defects (`SafeTruncate` says which), and then everything one
expects of files holds: run `file_contents`. The defects themselves are the
violation runs.

Data is kept byte by byte, since it matters here what a file shows in its gaps:
neither a write behind the end nor a growing truncation writes the gap, both
rely on free blocks and the bytes behind the end being zero.

`FailedImport` is `whefs_import_dev` of a new file that does not fit: it takes
an inode, truncates its device up and back to zero, and unlinks a copy of the
inode from before, so the blocks the truncation took stay used. All other
imports are sequences of `Open`, `Create`, `Truncate`, `Flush`, `Write` and
`Close`.

### WhefsCrash

A call puts the writes it makes into `job`, in the order in which the code makes
them; `Step` makes the next one. `Crash` drops the job and what is in memory
(`hint`), `Mount` reads the hints back. Three history variables say what
happened: `torn`, a crash hit a call that was wiping blocks; `freed`, the blocks
that were freed since the hints were written; `lost`, those freed in a session
that crashed.

Assumed: a write of one inode or one block's metadata is atomic (a few bytes),
and writes reach the file in order, which the process crash this is about
guarantees and a power failure does not. Left out: names, sizes, the block list,
and the defects of truncation, which are the subject of `WhefsFile`. What the
library does with a damaged container is left out as well: after `torn` nothing
is mounted.

What the properties say: growing a file marks, links and writes in that order,
so a crash loses at most a block. Unlink and shrink wipe the chain *before* they
remove what leads to it, so a crash in them leaves pointers to free blocks; this
is the only way to damage a container (`PointersLeadToUsed`), and even then no
two pointers lead to the same block (`PointersUnshared`). Free blocks are blank
(`FreeIsBlank`). The hints in the container are those of an earlier session, yet
a search misses only what was freed in a session that crashed
(`OnlyLostBelowHint`).

### WhefsNames

`name` is the names table, `used` the used flags of the inodes, `first` and
`held` whether an inode has a first block and whether that block is flagged
used. `cache` is `fs->cache.hashes` with its entries and its capacity, `enabled`
the flag that switches it on. `Hash` is the hash function, a CONSTANT: an
instance may let names share a hash.

`whefs_inode_by_name` walks over the inodes and reads a name at each, which adds
it to the cache; `call` is the lookup (or the loading of the cache) in progress,
and `LookOn`, `LoadName` are one turn of the loop. `Begin` decides where the
search starts: at the inode of the cached entry, or at inode 2. `FoundToRead`,
`FoundToWrite`, `Create`, `FoundToUnlink` and `NotFound` are what the callers do
with the result, `SetName` and `SetNameFails` the two outcomes of
`whefs_inode_name_set` with all it does to the cache. `GetName` is a read of a
single name; listing all names is several of them, between which a callback of
the client may make any call. A failed assertion sets `aborted`.

The list is kept sorted, as it is whenever a call begins or ends; entries of one
hash keep their order, which is what the merge sort of glibc's `qsort` does.
Left out are the hit counters: `Chomp` keeps any half of the list.

What the properties say. An entry holds the hash of the present name of its
inode, or that of the empty name (`CacheTrue`): unlink renames the entry to the
empty name and keeps it; such entries are harmless, but once they fill the list
no name is cached any more. A lookup that found nothing missed nothing
(`MissMeansAbsent`), which is what lets `whefs_fopen` create a file. Unlink
frees the blocks before it knows whether the name can be removed; this goes well
as long as hashes differ (`BlocksHeld`), also for two files of one name, which
`whefs_file_name_set` lets a client make. `Directory` has the client ask for a
name in one step and get the answer in another, so implementing it means that
what a call opens or removes has the name it was asked for. When two names share
a hash, calls fail and lookups abort, yet no call takes one file for another
(`names_shared`).

### WhefsContainer

`file` is the container file as far as its header and its formatting go: which
of the magic bytes, the recorded size, the length of the client's magic
(`client`), the sizes among the options (`sizes`), the block count and the tag of
the hints are there, which blocks are formatted (0 stands for the tables), and
the length.
Sizes are counted in blocks, since all containers of an instance have tables of
one size. `lock` is the fcntl lock of each process, `fs` its `whefs_fs`, `pc`
where it is. Each write is a step of its own, may fail as the code lets it fail,
and the process may end before any of them (`Crash`). `OpenFile`, `OpenOrCreate`
and `Create` come before the lock, `Lock` is `F_SETLKW`. `ReadHeader` is
`whefs_openfs_stage2`; `Refuse` is the way of a refused handle through
`whefs_fs_finalize`, which writes the hints before their offset is known, over
the magic bytes. `MkfsTruncate` to `MkfsSize` are the stages of `whefs_mkfs`,
over whatever was in the file. `whefs_mkfs_write_magic` is four of them
(`MkfsMagic`, `MkfsNoSize`, `MkfsClientLength`, `MkfsClientMagic`): it makes four
writes and looks at the result of the last, so the others may be lost
(`Unchecked`). `Grow` and `AppendSize` to `AppendBlocks` are
`whefs_fs_append_blocks`, which ignores the results of its writes. The history
variable `damaged` says that a write of the header was lost unnoticed (from the
write of size 0 on, which gives up an earlier container), that a crash hit
`whefs_fs_append_blocks` or the one step of `whefs_mkfs` where the length and an
earlier size happen to agree again, or that a file was emptied by `w+b` while
another process held it.

Properties: what passes the checks of `whefs_openfs` is completely formatted,
whatever was cut short before, as long as no write was lost unnoticed
(`OpensOnlyComplete`); a handle that is open
agrees with the file (`HandleAgrees`); no process changes the file while another
has it (`ChangedAlone`, which leaves out the `w+b` of `Create`); and who waits
for the lock is not left waiting (`WaitersAdvance`).

Left out: containers over a device the client gives (`whefs_mkfs_dev`,
`whefs_openfs_dev` take no lock), mmap, reads that fail, an interrupted or
refused `F_SETLKW`, and what POSIX locks do within one process: a process has
one handle at a time. A crash is that of a process; writes reach the file in
order.

### WhefsClosers

An entry is named by its object. `list` has the types and the links of the
entries and the pointer `fs->closers`, which may point to any of them. `Open`
adds an entry for the device and promotes it when a file or a stream is made of
it; either allocation may fail (`missed`). `Close` is the client's, which takes
the entry out. `Begin`, `CloseEntry` and `CloseInodes` are the part of
`whefs_fs_finalize` that closes what is still open, one turn of its loop at a
time.

`ClosedOnce`: a search from wherever the pointer is finds exactly the open
objects, and closing all closes each of them once, as what it is, although each
close takes its own entry out of the list that is being walked.

### WhioMemory and WhioDevice

`dev` is a device of one of five kinds: a buffer that grows or does not
(`whio_dev_membuf`), memory of the client for writing or only for reading
(`whio_dev_memmap`), a file of the host (`whio_dev_fileno`, where writes may
stop early). `sub` are parts, windows with a position of their own
(`whio_dev_subdev`), also used record by record (`whio_blockdev`). `Realloc` may
fail. Arithmetic on the factor is in percent, and the widths of integers are
left out, `MaxPos` bounding positions.

`WhioDevice` says what clients rely on: a device is a sequence of bytes up to
its end with a position; a part reads and writes in its window, and reads and
writes leave all other positions alone. It leaves open how far a device grows,
and what is in bytes that nobody wrote. `Promised` is what the headers say. The
code of parts does otherwise in two points, which are steps of their own
(`NotPromised`): a part whose upper bound is 0, documented as unlimited, transfers
nothing (`UnlimitedIsEmpty`), and a seek in a part moves the device, from which it
is documented to be independent (`SeekMovesDevice`, and `RecordMovesDevice` for
the seek to a record). `ImplementsDevice` is the refinement with these, which is
checked and proved.
One case is left out of it: a growing buffer that cannot grow, with a position
that is not before its end, copies behind its buffer; `overrun` notes it, and
nothing is claimed after.

### WhioEncode

The device is a sequence of bytes, `items` what was written where. An encoder is
a function to bytes, a decoder from the bytes at a position to a return code and
a value; strings, packs, inodes, blocks, hints and names are composed as the
code composes them. `Store` puts one item behind the others, cut off where the
device ends; `Replace` writes one over another of its kind. A byte of a number
has `Base` values instead of 256, so that numbers of eight bytes fit TLC's
integers; tags keep their values. Recursion is by folds.

`ItemsTold`: what was stored whole is read back as it was, and every decoder
refuses what was stored as something else or cut off, with the two exceptions
the code has: the types of one byte have one tag, and a cut off inode is taken
for an empty one.

### WhefsLayout

`handle` has the options and offsets of an open handle, `container` what the
header of the file says and how long the file is. `Mkfs`, `Open`, `AppendBlocks`
and `Close` take the steps of `whefs_fs_init_sizes`,
`whefs_fs_calculate_size`, the `_pos` functions and the wiping of blocks, with
the sizes of encoded records as they are put together from the sizes of numbers.
`LayoutSound`: the hints, the names, the inodes and the blocks do not reach into
each other or behind the end, an inode has the place its number says, and the
end is the same where `mkfs`, `openfs` and `append_blocks` compute it.

### WhioHandles, WhioPools and WhioFetch

An object of `WhioHandles` is a set of pieces of memory (the struct, its
private data, a buffer, the client's data) and what it is made of: a `FILE`, a
descriptor, or another device, which it owns or not. `Closed` and `Finalized`
are what `close` and `finalize` of each type do, `ForFILE` to `SetupBlockdev`
the constructors, each with the allocations and opens that may fail in it. The
caller keeps the rules of `whio_devs.h` (it finalizes what it owns, once);
closing twice and closing without finalizing are allowed. A behaviour of
`WhioPools` is that of one of the twelve pools, which differ in what they make
empty and in whether they remember where a search begins. `WhioFetch` is
`whio_dev_fetch`, `whio_dev_fetch_r` and the two ways to free a result.

`HandlesSound`: nothing is given up twice or used when it is gone, and no memory
and no `FILE` is left behind; a place is marked while somebody has it, and every
free one is found; what was fetched is what the device gave, never bytes of an
earlier fetch. A fetch of no bytes makes a result whose pointer nobody set
(`Unset`); to use or to free it is undefined, which `FetchTold` allows for such a
result and for no other (`OnlyOfNothing`).

### WhefsDevice and WhefsBits

`WhefsDevice` has the devices, who is to finalize each, and the handle with the
proxy that `whefs_fs_mmap_connect` puts in place of its device. `DeviceSound`:
every way a call fails leaves the device with the one who finalizes it, once.
`told` is who that is by `whefs.h`, and `OwnersTold` says that it is who has it in
the code, with one exception (`spent`): a device that `whefs_openfs_dev` is to take
and cannot open is finalized, though `whefs.h:909-910` leaves it to the caller.

`WhefsBits` has the used flags in the container, `bits`, the hints, and every
operation that sets, clears or asks a bit, with writes that fail and short
reads. `unsure` are the records of which the last transfer failed; `BitsTrue`
says that for all others a bit never hides a free inode or block, nor a file.
When the memory of a bitset cannot be made longer, an assertion ends the program
in the next call (`aborted`).

### WhefsListing, WhGlob, WhioCopy and Whprintf

`WhefsListing` has a heap of buffers with an owner for each, the one string the
loop reads every name into, the list `whefs_ls` makes and what a callback has
seen. `ListsSound`: every listed name is that of its file, and a buffer has one
owner and room for the 0 at its end, also when memory runs out anywhere. A first
name of one character has no such room (`Closed`): whether it matches a pattern
then depends on what is in memory behind it (`Matches`, `Unsure`), and that is all
that is claimed of it.

`WhGlob` has `patternCompare` over patterns of stars, single characters, lists
and characters; `PatternsMatch` compares it with a definition by sets of words,
and says of a pattern with a list right after a star that nothing matches it (see
Divergences).

A state of `WhioCopy` is that of one loop: `whio_dev_copy`, `whio_stream_copy`,
`whio_stream_gzip`, `whio_stream_gunzip`, `whefs_import_dev` or
`whefs_fs_dump_to_FILE`, with a source, a destination, a buffer and, for zlib,
what it keeps back. A read or a write may fail at any byte. `CopiesTold`: the
bytes arrive in order, success means that all of them did, and an import that
failed has removed a new file and given an older one its size back. The content
of that file is back as well but for a last block that was full: truncating back
to a multiple of the block size clears it (`CutBack`, `ImportUndone`).
`Terminates`: each of the loops ends, even
over compressed data that stop too early. zlib itself is external: what deflate
and inflate may do with their buffers is taken from how the loops use it.

`Whprintf` reads a format piece by piece and makes the calls of the appender
each one needs; `OutputTold` says that the output of each piece is what its
conversion means, read back from the text, that the count is the length of the
output, and that the growing string keeps room for its 0, which is there when the
last text made the buffer longer. In three points the comments of the code say
otherwise, and each is a definition that quotes its line: `ErrorNotReturned` (the
count comes back where -1 is announced), `NotAsPrintf` (texts are padded behind,
by the whole width, and not cut to a precision) and `RoomLeft` (the 0 may be
missing behind a text that did fit). Where a conversion
makes several calls, of which one fails, the count is wrong, and nothing is
claimed (`gap`).

### Iqunpack, Iqiq and WhefsApps

`Iqunpack` goes over the inodes of an archive, and expands profiles token by
token. Profiles consist of whole tokens, and bytes have eight values.
`UnpacksTruly`: the output has the declared number of bytes and is what the
tokens mean, and the file begins with the last profile that could be read; that
nothing follows it is what the run `outfile` refutes.

`Iqiq` has the bytes of a profile, in which `PatchCharset` changes the charset,
and the tree that libwbxml, which is external, reports node by node.
`ShowsProfile`: the text, read back, is that tree, and the charset is the only
byte that was changed.

`WhefsApps` goes through the arguments of a tool as `WHEFSApp_init` does, then
through the files. A container is names, contents and chains; `Import`, `Listed`
and the others stand for the calls of the library, with what a failing one may
leave. `swallowed` notes a failure that a tool does not notice. `ToolsTold`: a
tool that reports success has done all it was asked for, unless something was
swallowed; whatever fails, no other file is touched, a dry run and a tool that
reads change nothing, and what runs at exit closes the container.

## The runs

| run | instance | distinct states | shows |
|---|---|---|---|
| `inodes` | 2 inodes, 3 devices, sizes 0..2 | 3 400 | sharing, the single writer, closes in any order, unlink, sessions, crashes |
| `file_structure` | `Spec`, 2 inodes, 2 devices, 3 blocks of 2 bytes, writes of 3, truncation to 0, 2, 3 | 638 000 | chains, lists and hints agree whatever the client does (`BlocksSound`); `WhefsFile` implements `WhefsInodes` |
| `file_contents` | `SafeSpec`, 2 inodes, 2 devices, 2 blocks of 2 bytes, byte values 0 and 1 | 140 000 | files are byte sequences; nothing leaks; assertions hold |
| `crash` | 2 inodes, 3 blocks | 715 000 | a crash between any two writes |
| `names` | 2 client inodes, three names and one that is too long, hashes differ | 518 000 | unlink never stops halfway and no lookup fails an assertion, whatever changes the cache |
| `names_shared` | as `names`, but two of the names have one hash | 719 000 | the cache stays true, no file is taken for another; `WhefsNames` implements `Directory` |
| `container` | 3 processes, up to 2 blocks, `FairSpec` | 1 121 000 | processes make, open, extend and finalize one container, with failed writes and crashes; waiting ends |
| `devices` | all five kinds, 2 parts, windows of one and two bytes and one without upper bound, positions to 3, transfers of up to 2 bytes | 111 000 | `WhioMemory` implements `WhioDevice` |
| `parts` | fifteen parts, one at a time | 1 682 000 | the modules that share no state |
| `lost_block` | 1 inode, 2 blocks, TruncLen 0 | violation | `truncate(0)` frees no block |
| `truncate_data` | 1 inode, 2 blocks, bytes 0-1, TruncLen 2 | violation | shrinking to a multiple of the block size clears the last block that stays |
| `outfile` | two profiles, files of 0 and 12 bytes | violation | expanding over a longer file leaves the end of that behind the profile |

Why the bounds are enough. Three devices on two inodes are the least with a
writer and two readers of one inode beside another. With two-byte blocks a write
of 3 bytes starts in the middle of a block or ends in the middle of one, and
crosses an edge; positions up to `MaxPos` = 3 put it behind the end of a file of
up to two blocks, and two files that want more than the three blocks there are
make every kind of call fail halfway. `MaxPos` bounds the position of a device
*before* a read or write; `SeekPos`, `IoLen`, `TruncLen` are the arguments a
client uses. In `crash` three blocks give a chain with a first, a middle and a
last block, which `whefs_block_wipe` treats differently, or two chains. Devices
are symmetric in `MCWhefsFile`: no property distinguishes them.

In `names` two client inodes are the least where one name is cached and the
other not, where a name passes from one inode to the other, and where two files
have one name; a third name is there to rename to. With `FirstAlloc` = 1 and
`LoadAlloc` = 2 (12 and 16 in the code) the list grows and is full within them.
An instance with two names and three client inodes (20 million states) has no
error either; it takes too long to be one of the runs.

In `container` three processes are the least where one reads while another reads
and a third waits to write, or where two race to make a file that a third one
has. Two blocks let a container grow, be made over a larger or a smaller one,
and be cut short between its blocks. In `devices` positions up to 3 allow reads
and writes inside, across and behind the end of a buffer of 2 bytes; the windows
end at the end of the device, before it and behind it, and one without upper bound
(upper 0) is there too; with a factor of 150 a buffer grows to what is asked for
as well as beyond it.

In `parts`, four objects to close give a list with two inner entries, one of
them the one `fs->closers` points to. Encoded numbers are the ends of the range
of every type, the formats of packs are beginnings of each other or differ in a
width or a sign, and 28 bytes cut the second of two items off at any place.
Listings have four names, an empty one and one of a single character among them,
over four buffers. Patterns
have up to three parts, over strings of up to three characters: both cases of a
letter, what is special in a list, and a star.
Copies have sources of up to 7 bytes over buffers of 3, so that a length may be
a multiple of the buffer or not, and a buffer is filled twice. Profiles have
copies that overlap themselves, distances of two bytes, and declare one byte
more or less than they hold; an archive has three inodes. Formats have single
conversions with every flag, with widths and precisions on both sides of the
digits and of what the buffer of `whprintfv` holds, and three pieces together.
Options of containers are on both sides of what `whefs_mkfs` takes, and grow up
to the last position a word of 512 values can count. Documents have up to four
levels with zero to three attributes. Pools have up to four places and two
objects from `malloc`; three objects and one file give a stream over a device
over a file, and a block device with its fence and its parent. A bitset has
bytes of three bits, so that the third block needs a second byte. Three devices
are the least with one in use, one of the client and a free one. Command lines
have one flag in front and one behind up to two files, on containers of up to
three inodes; the largest id is 7, so that adding 5 blocks wraps around.

The states in which nothing more happens in the code, a failed assertion and a
damaged container, have explicit stuttering steps in `WhefsFile` and
`WhefsCrash` (`Stopped`, `Damaged`). `names_shared` has deadlock checking off:
there a failed assertion ends the program.

Fairness is assumed in two places. In `WhefsContainer` a call that has begun goes
on, and a container that is open is finalized in the end (weak fairness of
`Proceed(p)` or `Finalize(p)` for each process): the program has to run, and
`whefs.h` asks of the client that every `whefs_fs` be destroyed with
`whefs_fs_finalize`. A lock that is free and stays free for somebody is given to
one of those who wait (weak fairness of some `Lock(p)`): `F_SETLKW` sleeps until
the lock is free. No process is assumed to be preferred, so readers that come
and go may keep a writer out, and `WaitersAdvance` promises that some waiter
gets the lock, not which. In `MCParts` the loops of `WhioCopy` go on (weak
fairness of their steps), since a loop inside a call runs by itself; for their
end, `Terminates`, nothing is assumed of what they read. All other modules have
no fairness: nothing waits there, every loop runs over a bounded range inside a
call, and what a client calls next is its own affair.

### Divergences

Three have runs, `lost_block`, `truncate_data` and `outfile`, listed under
`findings` in `PROJECT.json`. The others that were seen:

- Truncation and blocks: a shrink within the last block, followed by a growth,
  fails an assertion (`whefs_nodedev.c:781` and `:93`); two shrinks in a row
  leave the tail of a file in its chain (`:781`, `:795`). After a crash a
  container can be reported full with blocks free below the hint
  (`whefs_block.c:365`). A failed import of a new file loses the blocks it took
  (`whefs_client_util.c:177-186`, the inode is a copy of before), and that of an
  existing file whose size is a multiple of the block size clears its last block
  when it truncates back, where `whefs_client_util.h:69-71` says it is kept
  intact.
- Names: of two names of one hash the lookup of one fails an assertion
  (`whefs_inode.c:725`). A new file whose name cannot be set leaves a used inode
  without a name (`whefs_file.c:137`). Entries of unlinked files stay in the
  cache until it is full (`whefs_inode.c:163`). `whefs_hashid_list_chomp_lv`
  keeps the least visited half instead of dropping it (`whefs_hash.c:175`).
- `whefs_fstat` follows the chain of an inode it has not read yet and reports no
  blocks (`whefs_file.c:490`).
- Container: the check of sizes refuses a file that is longer than recorded,
  where the comment next to it says this must be allowed
  (`whefs_fs.c:1487-1488`), so a crash in `whefs_fs_append_blocks` between the
  truncation and the new size makes a container that is refused from then on. A
  handle for writing that is refused writes hints over the first bytes of the
  file (`:1476`). `whefs_mkfs_write_magic` looks only at the last of its four
  writes (`:584-592`): when the write of size 0 over an older container is lost
  (`:586`), a crash before the end leaves a container that is not formatted to
  the end and that `whefs_openfs` takes. `whefs_openfs_dev` destroys the client's device on failure,
  where `whefs.h:909-910` says its ownership does not change. A descriptor 0 is
  taken for a file that cannot be locked (`:185`).
- Devices: a growing buffer that cannot grow sets its end behind the buffer when
  the position is not before the end, where the comment there
  (`whio_dev_mem.c:181`) announces a short write. A window with upper 0 is
  documented as unlimited (`whio_devs.h:336-338`) and transfers nothing
  (`UnlimitedIsEmpty` of `WhioDevice`). A seek in a window moves the device to the
  position of the window (`whio_dev_subdev.c:263`), where `whio_devs.h:373-374`
  says that seek and tell are independent of it (`SeekMovesDevice`). A write
  that fails still moves the end of a fixed buffer. Bytes cut off by a
  truncation reappear when a later write leaves a gap over them.
- Encoding: the functions for arrays in memory never advance
  (`whio_encode.c:284-310`). `whio_encode_cstring` writes a 0 beyond the
  documented size (`:333`). The number of items of a pack is kept modulo 256.
- Layout: positions beyond 2^32 wrap around unnoticed; `whefs.h:190` documents a
  limit of 2 GB. `whefs_mkfs_write_options` ignores the results of its writes.
- Owning: `whio_dev_fetch` with 0 bytes leaves the pointer to the data unset,
  which `whio_dev_fetch_free` then frees; `whio_dev_fetch_r` may leave no 0
  behind the data (`whio_dev.c:287-309`). `whio_stream_for_fileno` closes the
  caller's descriptor when it has no memory for the stream.
- Mapping (off by default): the result of `mmap` is compared with 0 instead of
  `MAP_FAILED`; the flag that the file is mapped is never taken back, so
  `whefs_fs_append_blocks`, which says `We need to re-mmap()` at
  `whefs_fs.c:1728`, does not map again.
- Bitsets (not asked by default): the bit for block 0 is set among those of the
  inodes (`whefs_fs.c:1037`); loading the blocks sets no bits, where a comment
  says `this will update the used-blocks cache` (`:1119`); a short read while
  the inodes are loaded gives an inode the bit of the one before;
  `whefs_fs_append_blocks` does not notice that a bitset could not grow, and a
  later call fails an assertion.
- Listing: a name of one character gets a buffer of one byte, without room for
  the 0 behind it (`whefs_string.c:49`) that `whefs_string.h:41` wants there.
- Copies: `whio_stream_copy` returns an error for a source whose length is a
  multiple of its buffer, none at all included, though everything was copied
  (`whio_stream.c:134`). An
  import whose name cannot be set leaves a used inode without a name.
- Patterns: `*` directly followed by `[` never matches (`whglob.c:225`, against
  the rules at `:153-177`).
- Formatting: the string is said to be always ended by a 0
  (`whprintf.c:1346-1352`), which a later text that fits in without a new buffer
  does not bring along; an error is said to return -1 (`:731-732`) and returns
  the count. `%s` ignores a precision and pads the whole width behind the text.
  An empty text sent to a device is taken for an error and ends the output.
- iqiq: the header has 6 bytes by `src/iqiq.c:16`, and the WBXML of the profiles
  in the repository begins at byte 4; the charset is found because their public
  id has three bytes. `main` returns 0 when a profile cannot be parsed.
- Tools: `cat` does not look at what `whio_stream_copy` returns
  (`app/cat.c:38`). `rm` deletes what is in a list that `whefs_ls` may have cut
  short. `ls -B` leaves out the last block (`app/ls.c:256`). `mkfs` without a
  name compares a null pointer (`app/mkfs.c:57`), and one with options that only
  `whefs_mkfs` refuses has destroyed the old container by then. `WHEFSApp_init`
  is said to return `ArgError` when it shows the help (`WHEFSApp.c:568-570`) and
  returns 0. `ls --dump-core-magic` says it needs no container, and the tool
  fails without one.

## What is proved

`WhefsInodesProofs`, for every set of inodes and finite set of devices and every
bound on sizes. The conjunction `Inv` of the type invariant and the four
invariants is inductive: the count needs the writer (a close that clears the
writer must not leave a writable device behind), clean entries need the count
(an entry goes with its last device), and a used inode needs both. The proof has
a step per action of `Next`; facts about the cardinality of the set of devices
on an inode are lemmas. `CloseKeepsSize` follows from `Inv` step by step: the
device that closes an entry last is its writer, or there is none and the entry is
clean.

`WhefsFileProofs`, for any number of inodes, blocks and bytes in a block, every
finite set of devices and all lengths and positions. Of every client
(`Spec`): the records of the blocks agree (`BlocksSound`), a write is short only
if the container is full (`ShortWriteOnlyWhenFull`), and each call is a step of
`WhefsInodes` or none (`ImplementsTable`). Of the clients of `SafeSpec`
also: no block is lost (`NoLostBlock`) and no assertion fails
(`AssertionHolds`).

`ChainsSound` speaks of what following links gives, which is not what a step
changes. So the invariant `Good(Q, w)` names the chains: `Q` gives each inode
the sequence of its blocks, and

- `Linked`: the links lead from one block of the sequence to the next and end
  behind the last; lemma `ChainMeets` leads from there to what `Chain` computes,
  and back;
- `Chains`: used inodes have such sequences of used blocks, no two share one,
  and inodes that are not used have none;
- `Store`: what is free is blank, and nothing below the hint is free. A new block
  is linked with the next block it happens to have, so it ends its chain
  *because* free blocks are blank;
- `Entries`: the list of an opened inode is a beginning of its sequence, item by
  item. A shrink wipes what is behind an item of the list by following the links,
  which is the tail of the chain only if both agree.

With `w`, for `SafeSpec`, `Kept` adds that all used blocks are in some sequence,
that a list is empty or whole, and that the sequences are long enough for the
sizes. These are what the defects of truncation break: under `Spec` a list may be
cut to one item while the chain goes on, after which the next growth meets a link
it does not expect, and `Good(Q, FALSE)` survives because the assertion there
stops the program before it links anything.

A call is a session, so the steps inside it are lemmas about sessions. `Fits(s, q,
o, w)` says of one that its list, links and hint agree with the sequence `q` of
its own inode, `o` being the blocks of all others; each kind of step (`AddBlock`,
`LoadList`, `ReadChunk`, `WriteChunk`, `Shrink`) keeps it with a longer or shorter
`q` and says what else it does (`Grows`, `Writes`, `Truncs`): which blocks it
leaves alone, how it may fail, that sizes stay covered. A loop is `Repeat`; that it keeps a property is induction over its
turns, as the least number of a set without which none can be (lemma
`Induction`). Lemma `Settles` leads from the session back to the state: what fits
`q` and spares `o` is `Good` with `q` for this inode. Beside it the
invariant of `WhefsInodes` holds of what `TableOpened`, `TableDev` and
`TableDisk` make of the state: the instance `Shown` of `WhefsInodesProofs`
proves it once each call is known to be a step of that table.

The second half of `WhefsFileProofs` rests on that invariant: a device reads at
any position what the file has there, and the chain covers the sizes
(`ReadsContent`). `OutIs(out, bk, q, p, e)` says that `out` are the bytes of the
blocks `q` from position `p` to before `e`. It holds of the content of a file
with its whole chain and size (`ContentIs`), and of what a read has after each of
its turns (`ReadGot`, `ReadChunkGets`): a turn finds the block of its position
because the list is whole and the size covered, stays within that block, and
appends its bytes to those before. The loop stops at the end of the file and not
before: each turn moves the position, so that `MaxSize` turns are enough
(`ReadsAll`). The list of a device may have been loaded long ago; that it still
is the chain is `Kept` of the invariant.

The same module proves that `WhefsFile` implements `ByteFiles`
(`ImplementsFiles`): each call of a client of `SafeSpec` changes the bytes of its
own file as that module says and those of no other file. Two things are behind it.
`ValueAt(bk, q, p)` is the byte at position `p` of the blocks `q`, zero behind
their end; a step of a call is described by what it does to these values at *all*
positions, not only those before the end of the file: a growing chain changes
none (`GrowsSame`), a turn of a write puts its byte into the positions it passes
(`WriteChunkPuts`), and a truncation leaves zeroes from the new end on
(`TruncResizes`). So the effects of the turns of a loop compose (`StoredOn`). And
one more invariant, `Zeroed`: behind the end of every file its values are zero.
The code needs it where a file grows, since what a growing file uncovers in its
last block is not written by anybody: a shrink has to zero the end of that block,
and wiping has to blank the ones it frees. `CommitFiles` leads from there to the
files: the other chains are disjoint from what the call changed, so their
contents stay (`ChainKept`). For the calls that write no blocks it remains that
the size a client sees does not depend on where it is kept: a close that drops an
entry has flushed its size (`CleanEntry`, `LastDevice`, from the invariant of
`WhefsInodes`).

`WhefsCrashProofs`, for every number of blocks and inodes. The properties are
not inductive: halfway through an unlink the container has pointers to free
blocks. The invariant `Intact` adds what the rest of the job will repair:

- `Shape`: the job is the rest of one of the calls, and `GrowShape` says what
  already holds before each write of a growth;
- `Covered`: whatever leads to a block that is free, or that the job is about to
  free, is itself about to be freed, cleared or cut by the job;
- `DirtyPending`: a free block that is not zero is about to be zeroed;
- `Blank` and `HintsKnown`: what is free leads nowhere; the blocks below the
  hints, in memory and in the container, are used, freed since, or lost.

Each kind of write has a lemma that it keeps `Intact`. That a call starts with
`Covered` is where the order of `WipeChain` enters: it frees the *whole* chain,
and a pointer into a chain comes from the chain or from the pointer that is
about to be removed, because pointers are unshared. A crash empties the job: if
the call was not wiping, `Covered` with nothing pending is `PointersLeadToUsed`.

`WhefsNamesProofs`, for every number of inodes, every set of names and every
hash function. `CacheTrue` alone is not inductive: `whefs_inode_name_set`
changes *one* entry, so one must know that there is no second one. `NamesInv`
adds that no entry is in the list twice (`Single`, unless it is one of an
unlinked file), that a name that is used has a used inode, and what the lookup
in progress has passed (`Passed`). Lemmas say what sorting an entry in, changing
its hash and chomping do to the list. From this follow the types, `CacheTrue`
and `NamedIsUsed` without any assumption on the hashes. Two more levels state
what the code takes for granted. If no name has the hash of the empty one
(`EmptyApart`), a hit always leads to a file, a lookup misses none, and the
module implements `Directory`. If no two names have one hash (`Injective`), the
inode of a hit has the name looked for and the entry that was found first is the
one unlink will change, so no assertion fails and unlink never stops halfway.

`WhefsContainerProofs`, for any number of processes and blocks. The first
invariant, `Safe`, has the types, `Progress` (how far the formatting of a
process has come) and `LockInv`: whoever is past the lock holds it, for writing
if its handle writes, and held locks are compatible. So a writer is alone, which
is `ChangedAlone`. On `Safe` rests `IInv`. `Chosen` says that a handle that
makes or extends a container has its number of blocks. `Knows` says for each
stage what the process at that stage may take for granted of the file: after the
write of size 0 in `whefs_mkfs` the recorded size is 0, before the last one all
blocks are formatted, a handle that is open agrees with the file. `FileSound` is
`OpensOnlyComplete` strengthened: a file whose size agrees with its length has
all it needs, unless somebody is between the truncation and the write of size 0 in
`whefs_mkfs` or extends the container. These are claimed only as long as
`damaged` is false. Every action has the same shape: only one process moves, and
if it writes it is alone, so that what the others know is not disturbed (lemma
`KeptByAll`); it remains to show what the process itself knows next and that the
file stays sound.

`WhioMemoryProofs`, for any set of bytes with a 0, any parts, windows and record
size, every factor of growth from 100 percent on, and all five kinds of device.
`TypeOK` is inductive: the end of file lies in the buffer, a position may lie
anywhere, and what a call answered is a sequence of bytes. That each call is a
step of `WhioDevice`, or none (`MemoryImplementsDevice`), rests on what a device
is to that module: `Data(d)`, the bytes up to the end of file. What a write does
to it is `Kept(d, e, p, s)`: the bytes `s` are at `p`, the others are as they
were, and the device is longer only if `s` reaches there. The steps of a write
have a lemma each: growing a buffer, perhaps to more than is asked for and perhaps
not at all (`GrownIs`, `WidenedIs`), copying into it (`PutIs`), and moving the end
of file. Lemma `StoredIs` puts them together for one transfer, and
`WrittenIs` for a write of a file, which may stop anywhere. A part is the same
transfer in its window, with the position of the device saved around it; a seek in
it is one of the steps that `WhioDevice` has as not promised, and so is what a part
without upper bound does. The write
that `overrun` notes is not a step of `WhioDevice`; the refinement ends before it.

`WhefsPartsProofs` and `WhioPartsProofs` are about the parts in `WhefsParts`, the
first about those of a container, the second (pools, handles, fetches and copies)
about those below it. Each part has an inductive
invariant of its own, and a theorem that it and what follows from it hold in
`PartsSpec`: a step of that specification is a step of one part, in which the
variables of the others stay.

*Layout* (`LayoutIsSound`), for all options, every size of numbers and every bound
on the blocks that keeps positions below it. The invariant `IInv` says that a
container is as `whefs_mkfs` would make it with the options it has now, however
it was made and extended, and that a handle has the offsets of these options.
`LayoutSound` follows with lemmas about slots of equal size in a table: slot
`i` ends where slot `i + 1` begins, so no record reaches into another, and the
last one ends where the next table begins.

*Closers* (`ClosedOnceOfParts`), for any set of objects. `ClosedOnce` follows
links, which are what a step changes, so `ClosersInv` says that the entries have
ranks in whose order they are linked (`Chain`); the pointer is to one of them
(`Pointed`); and those in the list are the objects that are open, but for the ones
for which there was no memory (`OpenEntries`). While `whefs_fs_finalize` closes
them, the entry it comes to is the first one, and a close takes just that one out,
so that the next one is first then. That a search from anywhere finds all is
induction over the ranks, as the least one that it would miss.

*Pools, handles and fetches* (`HandlesSoundOfParts`), for any number of places,
objects and files and any content of a device. `PoolsSound` is inductive with its
types. For handles, the state before and after is a record, and each constructor,
`Closed` and `Finalized` have a lemma that they keep `HandlesGood` of it. That
says more than that nothing is left behind: the pieces of memory there are are
exactly those the objects need as they are (`MemoryOf`); a `FILE` is owned as such
if and only if some object owns it, and then one; and who owns a device is the
only one that uses it. The last is what a stream over a device that is over a
device needs: finalizing the outer one finalizes the inner one, which nobody else
may be using. What a fetch promises (`FetchTold`) is inductive with its types and
with the fact that only the result of a fetch of no bytes has an unset pointer.

*Listings* (`ListsSoundOfParts`), for any number of inodes, any buffers and any
names. For a
name of one character `whefs_string_copy_cstring` gets a buffer of one byte, half
as much again being one, and no 0 is behind it; so a buffer is `Closed` if it has a
0 or is one byte, and a name like this may be listed or not. `ListHeap` says of
the heap what `BuffersOwned` does, of the chain and the string that is read into
apart: a buffer is in use if and only if one of them has it or it is lost, and
each is `Closed`. A step replaces what the string has by something that was free
(lemma `Replacement`), writes where it is (`Rewritten`), or hands it over
(`AppendHeap`, `LostHeap`), and so keeps what the strings of the chain say
(`SaidSame`). `ListTold` says how far a call has come: there are inodes, in their
order, whose names the chain has, and none before the next inode is missing that
was asked for (`OrderTo`); and the string that was just read says the name of this inode and
nothing of an earlier one (`CopiedIs`), since behind a shorter name the buffer is
filled with 0. A call that ends well has passed the last inode; one that fails has
the beginning (`InOrderIs`).

*Bitsets* (`BitsAreTrue`), for any number of inodes and blocks and any number of
bits in a byte. `BitsTrue` alone is not inductive: `whbits_init` uses its memory
again, and `whefs_fs_append_blocks` asserts before it clears the bits of the new
blocks and may stop in the middle. `BitsInv` adds that a block beyond the last one
has no bit set, so that a new block starts without one whether or not it has been
wiped, and that a closed handle has none. Growing then needs only that
`whbits_init` sets no bit that was not set before (lemma `WhbitsInitIs`), and a
search that what it has read on the way to the first free record is true from then
on (lemmas `InodesReadTold` and `BlocksReadTold`).

*The device* (`DeviceIsSound`), for any devices and any number of lost mappings.
The operators of `WhefsDevice` are functions on a record of the variables, so the
invariant `Good` is one of such a record, and each of them (`Connect`,
`Disconnect`, `Finalized`, `Taken`) has a lemma that it keeps it; an action picks
one of their results. `Good` is `DeviceSound`, with what `whefs.h` tells of the
owners, and its types, and that a proxy is
one of a handle that can take it away again: without that, `whefs_fs_finalize`
would leave a mapping behind.

*Copies* (`CopiesToldOfParts`), for sources of any length, buffers of any size and
reads and writes that fail anywhere. `CopyInv` says for each place in a loop what
holds there. What is written is the beginning of what should be (`Begun`); what is
in the buffer follows it, and what zlib has taken and not given back follows that
(`Runs`); and the position of the source says how much all of them are together,
so that nothing is skipped or copied twice. Success then means that this is
everything, which each loop concludes from something else: from a read that brings
less than a buffer (where `whio_stream_copy` has to know that it moved whole
buffers until then, `WholeBufs`, since it compares with a multiple of the buffer),
from a position that is the end of the source, from deflate leaving room in the
buffer after it was told to finish, and from inflate saying that the data end.
Expanding counts in what it reads: what is written, in the buffer and held
back is what the data that inflate has looked at stand for (`Inflated`). A place
that leads to the end has to show `CopiesTold` itself and, for an import that
failed, that the file is as it was but for a last block that was full.

Types (`TypeOK` of the modules) are in the proofs; that of `WhefsFile` is a part
of `BlocksSound`. `NamedIsUsed` of `WhefsNames` is only proved (theorem `FilesStayUsed`).

Assumed are the named assumptions of the modules: positive numbers of blocks and
inodes, a finite set of devices, finitely many lengths and positions (which only
bounds sizes), a null pointer that is no device, no object and no sequence of
bytes, an empty name that clients do not use, hashes that are natural numbers,
bytes of at least one bit and a container with at least two inodes. Buffers and
records have at least one byte, a buffer that grows has a factor of at least 100
percent (`whio_dev_for_membuf` makes one with less a buffer that does not grow), a
window has no upper end or ends behind where it begins, and a pool has a place.
Names have no 0 in them and at most `MaxName` characters, and the array on the stack
is none of the buffers. TLC
evaluates each of these assumptions in some run.

Only model-checked are six invariants of `MCParts` (`ItemsTold`,
`PatternsMatch`, `UnpacksTruly`, `OutputTold`, `ShowsProfile`, `ToolsTold`)
with their modules, and two liveness properties. `PatternsMatch` and
`ShowsProfile` compare recursions over patterns and trees with their meaning,
which is induction over data and needs `RECURSIVE` operators. `ItemsTold`,
`OutputTold` and `UnpacksTruly` are about what folds over digits, pieces and
tokens compute: again induction over data. `ToolsTold` compares what a tool
shows, joins and removes with recursive functions over the files (`Listed`,
`Joined`, `InOrder`): that such a function satisfies the equation that defines
it follows only from theorems that take an operator. `WaitersAdvance` and
`Terminates` are liveness under fairness.

## What is not modelled

The parts marked `not_modelled` or `partly` in `PROJECT.json`, with the reason
there. In short:

- Within the modelled parts: timestamps, the hit counters of the name cache,
  `whefs_fstat`, the end-of-file and error flags of devices, `ioctl`, reads of
  the container that fail outside of `WhefsBits`, and integers that overflow. A
  seek past 32 bits is one of the last: its checks are compiled out
  (`whefs_nodedev.c:658`), and to see what follows every position of `WhefsFile`
  would have to wrap.
- `whio_dev_FILE` and the streams on a `FILE` delegate to it; what is hard there
  is the buffer of stdio, which is in the C library: `whio_dev_FILE_trunc` does
  not flush it, and a write of 0 bytes makes the device forget that it has to.
- Conversions of real numbers and those for SQL in `whprintf.c`.
- The encoding of arrays and strings in memory, which nothing calls.
- Configuration: constants, return codes and empty objects.
- zlib and libwbxml are not in the repository. `avl.c`, `whargv.c` and
  `whio_stream_stl.cpp` are from elsewhere or adapt to C++; `foo.c` is a
  container written as C code by `whefs2c`. The headers under `include/` are
  mostly documentation; what they declare is modelled with what implements it.
- The test programs (`test.c`, `whio-test.c`, `issue-*.c` and others) only call
  the library.

What would come next: names in `WhefsCrash`, so that a crash between the names table and the inode table
is covered; the stdio buffer as an external module under `whio_dev_FILE`.
