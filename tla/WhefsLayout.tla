----------------------------- MODULE WhefsLayout -----------------------------
(***************************************************************************)
(* Where the records of a container are: header, names table, inode table  *)
(* and blocks, as whefs_mkfs, whefs_openfs and whefs_fs_append_blocks      *)
(* compute it.  Positions are numbers below Word, 2^32 in the code.  The   *)
(* end of the container is computed by four different pieces of code and   *)
(* has to be the same in all of them.                                      *)
(*                                                                         *)
(* Nothing in the code looks for positions that wrap around; a client has  *)
(* to stay below ("2GB container size limitation", whefs.h:190).           *)
(***************************************************************************)
EXTENDS Integers

CONSTANTS
  Word,       \* 2^32
  Requested,  \* the options clients ask for
  MaxCount    \* bounds the number of blocks

VARIABLES
  handle,     \* whefs_fs: options, offsets and filesize, while it is open
  container   \* the options and the size in its header, and how long it is

vars == <<handle, container>>

Options ==
  [magic : Nat, block_size : Nat, block_count : Nat, inode_count : Nat,
   filename_length : Nat]

WordAssumption == Word \in Nat \ {0} /\ Requested \subseteq Options

Wrap(x) == x % Word

-----------------------------------------------------------------------------
(***************************************************************************)
(* Sizes of records.  A number has a tag byte before its own.              *)
(***************************************************************************)

Uint8 == 2
Uint16 == 3
Uint32 == 5
SizeT == Uint32
Id == 5

CoreMagic == 4 * Uint32
SizeofOptions == SizeT + 2 * Id + Uint16
SizeofHints == 1 + 2 * Id
SizeofInode == 1 + 2 * Id + Uint8 + 2 * Uint32
SizeofBlockMeta == 1 + 2 * Id + Uint16
NameHeader == 1 + Id + Uint16

\* Mutant: the header of a name is not counted.
SizeofNameBare(o) == o.filename_length

SizeofName(o) == NameHeader + o.filename_length

SizeofBlock(o) == o.block_size + SizeofBlockMeta

NamesSize(o) == SizeofName(o) * o.inode_count
InodesSize(o) == SizeofInode * o.inode_count
BlocksSize(o) == SizeofBlock(o) * o.block_count

HeaderSize(o) ==
  CoreMagic + Uint32 + Uint16 + o.magic + SizeofOptions + SizeofHints

TrueSize(o) == HeaderSize(o) + NamesSize(o) + InodesSize(o) + BlocksSize(o)

\* whefs_fs_calculate_size
CalculateSize(o) == Wrap(TrueSize(o))

\* whefs_fs_init_sizes: each offset is that of the section before and its size.
InitOffsets(o) ==
  LET size    == CoreMagic
      magic   == Wrap(size + Uint32)
      options == Wrap(magic + Uint16 + o.magic)
      hints   == Wrap(options + SizeofOptions)
      names   == Wrap(hints + SizeofHints)
      inodes  == Wrap(names + NamesSize(o))
      blocks  == Wrap(inodes + InodesSize(o))
  IN [size |-> size, magic |-> magic, options |-> options, hints |-> hints,
      names |-> names, inodes |-> inodes, blocks |-> blocks,
      eof |-> Wrap(blocks + BlocksSize(o))]

-----------------------------------------------------------------------------
(***************************************************************************)
(* Positions of records.                                                   *)
(***************************************************************************)

Position(base, id, size) == Wrap(base + (id - 1) * size)

NamePos(h, id) == Position(h.offsets.names, id, SizeofName(h.opt))
InodePos(h, id) == Position(h.offsets.inodes, id, SizeofInode)

\* Mutant: blocks are counted from 0.
BlockPosZeroBased(h, id) == Position(h.offsets.blocks, id + 1, SizeofBlock(h.opt))

BlockPos(h, id) == Position(h.offsets.blocks, id, SizeofBlock(h.opt))

BlockDataPos(h, id) == Wrap(BlockPos(h, id) + SizeofBlockMeta)

\* Where the device is after whefs_block_wipe: its data are written last.
AfterWipe(h, id) == BlockDataPos(h, id) + h.opt.block_size

Max2(a, b) == IF a >= b THEN a ELSE b

-----------------------------------------------------------------------------
(***************************************************************************)
(* The calls.                                                              *)
(***************************************************************************)

NoHandle == [open |-> FALSE]
NoContainer == [exists |-> FALSE]
Handle(o, offsets, filesize) ==
  [open |-> TRUE, opt |-> o, offsets |-> offsets, filesize |-> filesize]
Container(o, filesize, length) ==
  [exists |-> TRUE, opt |-> o, filesize |-> filesize, length |-> length]

\* whefs_mkfs_stage1; what it refuses is not made.
Acceptable(o) ==
  /\ o.inode_count >= 2 /\ o.block_size >= 32
  /\ o.filename_length \in 1..128
  /\ o.magic > 0
  /\ o.block_count >= o.inode_count

Fits(o) == TrueSize(o) < Word /\ o.block_count <= MaxCount

\* Mutant: the end is where the last block begins.
MkfsEndsEarly(o) ==
  /\ ~handle.open
  /\ Acceptable(o) /\ Fits(o)
  /\ LET h == Handle(o, InitOffsets(o), CalculateSize(o))
     IN /\ handle' = [h EXCEPT !.offsets.eof = BlockDataPos(h, o.block_count)]
        /\ container' = Container(o, CalculateSize(o), CalculateSize(o))

\* whefs_mkfs_stage2: the file is cut to the calculated size and everything written;
\* if that made it longer, the call fails and leaves 0 for its size.  The end is where
\* the device is then.
Mkfs(o) ==
  /\ ~handle.open
  /\ Acceptable(o) /\ Fits(o)
  /\ LET szcheck == CalculateSize(o)
         h == Handle(o, InitOffsets(o), szcheck)
         length == Max2(szcheck, AfterWipe(h, o.block_count))
     IN IF szcheck = length
        THEN /\ handle' = [h EXCEPT !.offsets.eof = AfterWipe(h, o.block_count)]
             /\ container' = Container(o, length, length)
        ELSE /\ handle' = NoHandle
             /\ container' = Container(o, 0, length)

\* whefs_openfs_stage2: both sizes must agree; the offsets are computed again.
Open ==
  /\ ~handle.open /\ container.exists
  /\ container.filesize # 0 /\ container.filesize = container.length
  /\ handle' = Handle(container.opt, InitOffsets(container.opt), container.filesize)
  /\ UNCHANGED container

\* Mutant: the handle keeps the old end.
AppendStale(count) ==
  /\ handle.open
  /\ LET h == handle
         o == [h.opt EXCEPT !.block_count = @ + count]
         newEOF == Wrap(h.offsets.eof + SizeofBlock(o) * count)
     IN /\ Fits(o)
        /\ handle' = [h EXCEPT !.opt = o, !.filesize = newEOF]
        /\ container' = Container(o, newEOF, Max2(newEOF, AfterWipe(h, o.block_count)))

\* whefs_fs_append_blocks: the end moves by the new blocks, which are wiped then.
AppendBlocks(count) ==
  /\ handle.open
  /\ LET h == handle
         o == [h.opt EXCEPT !.block_count = @ + count]
         newEOF == Wrap(h.offsets.eof + SizeofBlock(o) * count)
     IN /\ Fits(o)
        /\ handle' = [h EXCEPT !.opt = o, !.offsets.eof = newEOF, !.filesize = newEOF]
        /\ container' = Container(o, newEOF, Max2(newEOF, AfterWipe(h, o.block_count)))

\* whefs_fs_finalize
Close ==
  /\ handle.open
  /\ handle' = NoHandle
  /\ UNCHANGED container

Init == handle = NoHandle /\ container = NoContainer

Next ==
  \/ \E o \in Requested : Mkfs(o)
  \/ Open
  \/ \E count \in 1..MaxCount : AppendBlocks(count)
  \/ Close

Spec == Init /\ [][Next]_vars

-----------------------------------------------------------------------------
(***************************************************************************)
(* Properties.                                                             *)
(***************************************************************************)

Records(o) ==
  {"core", "size", "magic", "options", "hints"} \X {1}
  \cup {"name", "inode"} \X (1..o.inode_count)
  \cup {"block"} \X (1..o.block_count)

At(h, r) ==
  CASE r[1] = "core" -> 0
    [] r[1] = "size" -> h.offsets.size
    [] r[1] = "magic" -> h.offsets.magic
    [] r[1] = "options" -> h.offsets.options
    [] r[1] = "hints" -> h.offsets.hints
    [] r[1] = "name" -> NamePos(h, r[2])
    [] r[1] = "inode" -> InodePos(h, r[2])
    [] r[1] = "block" -> BlockPos(h, r[2])

\* What is written there: of a name its header and room for the longest one.
Size(o, r) ==
  CASE r[1] = "core" -> CoreMagic
    [] r[1] = "size" -> Uint32
    [] r[1] = "magic" -> Uint16 + o.magic
    [] r[1] = "options" -> SizeofOptions
    [] r[1] = "hints" -> SizeofHints
    [] r[1] = "name" -> NameHeader + o.filename_length
    [] r[1] = "inode" -> SizeofInode
    [] r[1] = "block" -> SizeofBlock(o)

\* No record of a container reaches into another one or behind the end, however the
\* container was made and extended (whefs_fs_init_sizes, whefs_block_id_pos,
\* whefs_inode_id_pos, whefs_inode_name_get).
RecordsApart ==
  handle.open =>
    \A r \in Records(handle.opt) :
      /\ At(handle, r) + Size(handle.opt, r) <= container.length
      /\ \A s \in Records(handle.opt) \ {r} :
           \/ At(handle, r) + Size(handle.opt, r) <= At(handle, s)
           \/ At(handle, s) + Size(handle.opt, s) <= At(handle, r)

\* The end a handle has (found by whefs_mkfs after its last write, by whefs_openfs from
\* the options, by whefs_fs_append_blocks from the end before), the size in the header,
\* the length of the file and whefs_fs_calculate_size are one: what was made or
\* extended can be opened, and can be extended again.
EndsAgree ==
  /\ container.exists =>
       /\ container.filesize = container.length
       /\ container.length = CalculateSize(container.opt)
  /\ handle.open =>
       /\ handle.opt = container.opt
       /\ handle.offsets = InitOffsets(handle.opt)
       /\ handle.filesize = container.filesize
       /\ handle.offsets.eof = container.length

\* The records of a container stay apart, and its end is known to all who use it.
LayoutSound == RecordsApart /\ EndsAgree
=============================================================================
