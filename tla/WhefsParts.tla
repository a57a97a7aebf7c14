----------------------------- MODULE WhefsParts -----------------------------
(***************************************************************************)
(* The parts of the program that share no state with the container model,  *)
(* nor with each other, in one specification: a behaviour is one of a      *)
(* single part, and the variables of the others stay as they are.  Parts   *)
(* that nothing is proved about are in MCParts; here a behaviour of one of *)
(* them is one of "others".                                                *)
(***************************************************************************)
EXTENDS Integers, WhefsLayout

CONSTANTS
  Obj, Nil,                                       \* of WhefsClosers
  CopySize, MaxSize, Imported, FileBlock, End, Bad, \* of WhioCopy
  LastId, FileNames, MaxName, SoughtPatterns,     \* of WhefsListing
  Buffers, Stack, NoBuffer,
  MaxSlots, MaxHeap,                              \* of WhioPools
  MaxObjects, MaxFiles,                           \* of WhioHandles
  Content, MaxFetch,                              \* of WhioFetch
  ByteSize, InodeCount, BlockCounts, MaxBlocks,   \* of WhefsBits
  Disks, MaxLost                                  \* of WhefsDevice

VARIABLES
  part,  \* the part whose behaviour this is
  open, list, closing, phase, autoClose, missed, closed,  \* Closing
  op, data, at, start, failed, faults, buf, dest, written, z, pc, rc,  \* Copying
  pool, marks, next, object, owned,  \* Pooling
  names, used, call, heap, the, chain, seen, lost,  \* Listing
  handles, fds, allocated, twice,  \* Handling
  result, left,  \* Fetching
  inodes, blocks, blockCount, opened, bits, hints, unsure, aborted,  \* Marking
  device, owner, fs, mapped, lostMaps, again, told, spent  \* Mapping

ClosingVars == <<open, list, closing, phase, autoClose, missed, closed>>
CopyingVars ==
  <<op, data, at, start, failed, faults, buf, dest, written, z, pc, rc>>
LayoutVars == <<handle, container>>  \* of WhefsLayout, with which this module begins
ListingVars == <<names, used, call, heap, the, chain, seen, lost>>
PoolingVars == <<pool, marks, next, object, owned>>
HandlingVars == <<handles, fds, allocated, twice>>
FetchingVars == <<result, left>>
MarkingVars ==
  <<inodes, blocks, blockCount, opened, bits, hints, unsure, aborted>>
MappingVars == <<device, owner, fs, mapped, lostMaps, again, told, spent>>

partsVars ==
  <<part, ClosingVars, CopyingVars, LayoutVars, ListingVars, PoolingVars, HandlingVars,
    FetchingVars, MarkingVars, MappingVars>>

-----------------------------------------------------------------------------
Closing == INSTANCE WhefsClosers

Copying == INSTANCE WhioCopy WITH Content <- Imported, BufSize <- CopySize

Listing ==
  INSTANCE WhefsListing WITH
    name <- names, Names <- FileNames, Patterns <- SoughtPatterns, Null <- NoBuffer

Pooling == INSTANCE WhioPools WITH used <- marks

Handling ==
  INSTANCE WhioHandles WITH object <- handles, file <- fds, memory <- allocated

Fetching == INSTANCE WhioFetch

Bits == INSTANCE WhefsBits

Dev == INSTANCE WhefsDevice WITH Devices <- Disks, lost <- lostMaps, twice <- again

ASSUME PartsAssumption ==
  /\ WordAssumption /\ MaxCount \in Nat
  /\ Closing!NilAssumption
  /\ Copying!CopyAssumption
  /\ Listing!NamesAssumption /\ Listing!AddressAssumption
  /\ Pooling!BoundAssumption
  /\ Handling!SizesAssumption
  /\ Fetching!FetchAssumption
  /\ Bits!BitsAssumption
  /\ Dev!DeviceAssumption

-----------------------------------------------------------------------------
\* The variables of the parts that a behaviour is not of.
ClosingOff ==
  open = "off" /\ list = "off" /\ closing = "off" /\ phase = "off"
  /\ autoClose = "off" /\ missed = "off" /\ closed = "off"
CopyingOff ==
  op = "off" /\ data = "off" /\ at = "off" /\ start = "off" /\ failed = "off"
  /\ faults = "off" /\ buf = "off" /\ dest = "off" /\ written = "off"
  /\ z = "off" /\ pc = "off" /\ rc = "off"
LayoutOff == handle = NoHandle /\ container = NoContainer
ListingOff ==
  names = "off" /\ used = "off" /\ call = "off" /\ heap = "off"
  /\ the = "off" /\ chain = "off" /\ seen = "off" /\ lost = "off"
PoolingOff ==
  pool = "off" /\ marks = "off" /\ next = "off" /\ object = "off"
  /\ owned = "off"
HandlingOff ==
  handles = "off" /\ fds = "off" /\ allocated = "off" /\ twice = "off"
FetchingOff == result = "off" /\ left = "off"
MarkingOff ==
  inodes = "off" /\ blocks = "off" /\ blockCount = "off" /\ opened = "off"
  /\ bits = "off" /\ hints = "off" /\ unsure = "off" /\ aborted = "off"
MappingOff ==
  device = "off" /\ owner = "off" /\ fs = "off" /\ mapped = "off"
  /\ lostMaps = "off" /\ again = "off" /\ told = "off" /\ spent = "off"

OthersOff(p) ==
  /\ IF p = "closing" THEN TRUE ELSE ClosingOff
  /\ IF p = "copying" THEN TRUE ELSE CopyingOff
  /\ IF p = "layout" THEN TRUE ELSE LayoutOff
  /\ IF p = "listing" THEN TRUE ELSE ListingOff
  /\ IF p = "pooling" THEN TRUE ELSE PoolingOff
  /\ IF p = "handling" THEN TRUE ELSE HandlingOff
  /\ IF p = "fetching" THEN TRUE ELSE FetchingOff
  /\ IF p = "marking" THEN TRUE ELSE MarkingOff
  /\ IF p = "mapping" THEN TRUE ELSE MappingOff

OthersStay(p) ==
  /\ UNCHANGED part
  /\ IF p = "closing" THEN TRUE ELSE UNCHANGED ClosingVars
  /\ IF p = "copying" THEN TRUE ELSE UNCHANGED CopyingVars
  /\ IF p = "layout" THEN TRUE ELSE UNCHANGED LayoutVars
  /\ IF p = "listing" THEN TRUE ELSE UNCHANGED ListingVars
  /\ IF p = "pooling" THEN TRUE ELSE UNCHANGED PoolingVars
  /\ IF p = "handling" THEN TRUE ELSE UNCHANGED HandlingVars
  /\ IF p = "fetching" THEN TRUE ELSE UNCHANGED FetchingVars
  /\ IF p = "marking" THEN TRUE ELSE UNCHANGED MarkingVars
  /\ IF p = "mapping" THEN TRUE ELSE UNCHANGED MappingVars

PartsInit ==
  \/ part = "closing" /\ Closing!Init /\ OthersOff("closing")
  \/ part = "copying" /\ Copying!Init /\ OthersOff("copying")
  \/ part = "layout" /\ Init /\ OthersOff("layout")
  \/ part = "listing" /\ Listing!Init /\ OthersOff("listing")
  \/ part = "pooling" /\ Pooling!Init /\ OthersOff("pooling")
  \/ part = "handling" /\ Handling!Init /\ OthersOff("handling")
  \/ part = "fetching" /\ Fetching!Init /\ OthersOff("fetching")
  \/ part = "marking" /\ Bits!Init /\ OthersOff("marking")
  \/ part = "mapping" /\ Dev!Init /\ OthersOff("mapping")
  \/ part = "others" /\ OthersOff("others")

PartsNext ==
  \/ part = "closing" /\ Closing!Next /\ OthersStay("closing")
  \/ part = "copying" /\ Copying!Next /\ OthersStay("copying")
  \/ part = "layout" /\ Next /\ OthersStay("layout")
  \/ part = "listing" /\ Listing!Next /\ OthersStay("listing")
  \/ part = "pooling" /\ Pooling!Next /\ OthersStay("pooling")
  \/ part = "handling" /\ Handling!Next /\ OthersStay("handling")
  \/ part = "fetching" /\ Fetching!Next /\ OthersStay("fetching")
  \/ part = "marking" /\ Bits!Next /\ OthersStay("marking")
  \/ part = "mapping" /\ Dev!Next /\ OthersStay("mapping")

PartsSpec == PartsInit /\ [][PartsNext]_partsVars

-----------------------------------------------------------------------------
(***************************************************************************)
(* The properties of the parts; LayoutSound is that of WhefsLayout.        *)
(***************************************************************************)

\* What is open when a container is closed is closed once (whefs_closers.c).
ClosedOnce == part = "closing" => Closing!ClosedOnce

\* A copy is a beginning of what it should be at every moment, all of it when the loop
\* says so, and an import for which there is no room leaves no new file, and an older
\* one with its size and what it had in it but for a full last block (the loops of
\* whio_dev.c, whio_stream.c, whio_zlib.c and of imports; whefs_client_util.h:69-71
\* promises all of it).
CopiesTold == part = "copying" => Copying!CopiesTold /\ Copying!ImportUndone

\* A listing names what is there, in strings that are its own (whefs_ls,
\* whefs_fs_entry_foreach, whefs_string.c).
ListsSound == part = "listing" => Listing!ListsSound

\* The memory of objects has one owner (the pools of WHIO_CONFIG_ENABLE_STATIC_MALLOC),
\* so have the streams and devices it is for (whio_dev_*.c, whio_stream_*.c), and what a
\* fetch brings is what the device gave (whio_dev_fetch_r), but for a whio_dev_fetch of no
\* bytes, whose result is not sound to free (whio_dev.c:271, whio_dev.h:634).
HandlesSound ==
  /\ part = "pooling" => Pooling!PoolsSound
  /\ part = "handling" => Handling!HandlesSound
  /\ part = "fetching" => Fetching!FetchTold

\* The bitsets of a handle tell the truth of the inodes and blocks (whefs_details.c).
BitsTrue == part = "marking" => Bits!BitsTrue

\* A device of a container is finalized once, by the one who owns it (whefs_mkfs_dev,
\* whefs_openfs_dev, whefs_fs_mmap_connect, whefs_fs_finalize), who is the one whefs.h says
\* unless whefs_openfs_dev failed on a device that it was to take (whefs.h:909-910).
DeviceSound == part = "mapping" => Dev!DeviceSound

=============================================================================
