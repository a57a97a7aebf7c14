---------------------------- MODULE WhefsInodes ----------------------------
(***************************************************************************)
(* The table of opened inodes of one whefs_fs (fs->opened_nodes) and the   *)
(* i/o devices (whio_dev) that share its entries: whefs_inode_open,        *)
(* whefs_inode_close and whefs_inode_unlink in whefs_inode.c, and the open,*)
(* close and flush operations of the inode device in whefs_nodedev.c.      *)
(*                                                                         *)
(* All devices of one inode share one in-memory inode object.  Each API    *)
(* call runs to completion (the library has no threads), so a call is one  *)
(* action.  Of an inode only the used flag and the data size are kept.     *)
(* The linked list is a function from inode ids to entries: an entry with  *)
(* count 0 is an inode that is not in the list.                            *)
(***************************************************************************)
EXTENDS Naturals, FiniteSets

CONSTANTS
  Inode,     \* the client-usable inode ids (2 .. inode_count in the code)
  Handle,    \* the whio_dev objects a client may have open at one time
  NoHandle,  \* a null writer pointer
  MaxSize    \* bound on the data size of a file

ASSUME InodeAssumption  == Inode \subseteq Nat \ {0}
ASSUME HandleAssumption == IsFiniteSet(Handle) /\ NoHandle \notin Handle
ASSUME SizeAssumption   == MaxSize \in Nat

VARIABLES
  opened,    \* fs->opened_nodes: [Inode -> Entry]
  dev,       \* the opened devices: [Handle -> Device]
  disk       \* the inode table of the container: [Inode -> DiskInode]

vars == <<opened, dev, disk>>

Entry     == [count : Nat, writer : Handle \cup {NoHandle}, size : 0..MaxSize]
DiskInode == [used : BOOLEAN, size : 0..MaxSize]
Device    == [ino : Inode, rw : BOOLEAN]

NotOpened == [count |-> 0, writer |-> NoHandle, size |-> 0]
NoDev     == [ino |-> 0, rw |-> FALSE]
Unused    == [used |-> FALSE, size |-> 0]

\* The devices that refer to the entry of inode i.
HandlesOn(i) == {h \in Handle : dev[h].ino = i}

IsOpened(i) == opened[i].count > 0

TypeOK ==
  /\ opened \in [Inode -> Entry]
  /\ dev \in [Handle -> Device \cup {NoDev}]
  /\ disk \in [Inode -> DiskInode]

Init ==
  /\ opened = [i \in Inode |-> NotOpened]
  /\ dev = [h \in Handle |-> NoDev]
  /\ disk = [i \in Inode |-> Unused]

-----------------------------------------------------------------------------
(***************************************************************************)
(* Opening.  whefs_fopen and whefs_dev_open look the name up and, in write *)
(* mode, create the inode when there is none; the inode chosen by          *)
(* whefs_inode_next_free is any unused one here.                           *)
(***************************************************************************)

\* A faulty whefs_inode_open that forgets ++open_count for an entry it shares.
ShareUncounted(i, h, rw) ==
  LET w == IF rw THEN h ELSE NoHandle
  IN  IF IsOpened(i)
      THEN [opened[i] EXCEPT !.writer = IF @ = NoHandle THEN w ELSE @]
      ELSE [count |-> 1, writer |-> w, size |-> disk[i].size]

\* whefs_inode_open: the shared entry after the device h opened inode i.
Share(i, h, rw) ==
  LET w == IF rw THEN h ELSE NoHandle
  IN  IF IsOpened(i)
      THEN [opened[i] EXCEPT !.count = @ + 1,
                             !.writer = IF @ = NoHandle THEN w ELSE @]
      ELSE [count |-> 1, writer |-> w, size |-> disk[i].size]

\* A faulty whefs_inode_open without the test for a second writer.
MayOpenAlways(i, rw) == TRUE

\* A second writer is turned away with AccessError.
MayOpen(i, rw) == ~(rw /\ opened[i].writer # NoHandle)

OpenRead(h, i) ==
  /\ dev[h] = NoDev
  /\ disk[i].used
  /\ opened' = [opened EXCEPT ![i] = Share(i, h, FALSE)]
  /\ dev' = [dev EXCEPT ![h] = [ino |-> i, rw |-> FALSE]]
  /\ UNCHANGED disk

\* The file exists.
OpenWrite(h, i) ==
  /\ dev[h] = NoDev
  /\ disk[i].used
  /\ MayOpen(i, TRUE)
  /\ opened' = [opened EXCEPT ![i] = Share(i, h, TRUE)]
  /\ dev' = [dev EXCEPT ![h] = [ino |-> i, rw |-> TRUE]]
  /\ UNCHANGED disk

\* The file does not exist: an unused inode is marked used and flushed.
CreateWrite(h, i) ==
  /\ dev[h] = NoDev
  /\ ~disk[i].used
  /\ MayOpen(i, TRUE)
  /\ disk' = [disk EXCEPT ![i].used = TRUE]
  /\ opened' = [opened EXCEPT ![i] = Share(i, h, TRUE)]
  /\ dev' = [dev EXCEPT ![h] = [ino |-> i, rw |-> TRUE]]

-----------------------------------------------------------------------------
(***************************************************************************)
(* Using and closing a device.                                             *)
(***************************************************************************)

\* whefs_inode_flush writes the shared in-memory inode.
Flushed(i) == [disk EXCEPT ![i].size = opened[i].size]

\* A write or a truncation through the device h leaves the file with n bytes.
\* A truncation flushes the inode with the new size.  A write flushes it with
\* the old size when it adds the first block, and leaves the new size in memory.
Resize(h, n) ==
  LET i == dev[h].ino IN
  /\ dev[h].rw
  /\ opened' = [opened EXCEPT ![i].size = n]
  /\ \/ UNCHANGED disk
     \/ disk' = Flushed(i)
     \/ disk' = [disk EXCEPT ![i].size = n]
  /\ UNCHANGED dev

Flush(h) ==
  LET i == dev[h].ino IN
  /\ dev[h].rw
  /\ disk' = Flushed(i)
  /\ UNCHANGED <<opened, dev>>

\* whefs_inode_close: the entry of inode i once the device h let go of it.
Release(i, h) ==
  IF opened[i].count = 1
  THEN NotOpened
  ELSE [opened[i] EXCEPT !.count = @ - 1,
                         !.writer = IF @ = h THEN NoHandle ELSE @]

\* A faulty close that flushes only when the last device goes.
CloseLastFlushes(h) ==
  LET i == dev[h].ino IN
  /\ dev[h] # NoDev
  /\ disk' = IF dev[h].rw /\ opened[i].count = 1 THEN Flushed(i) ELSE disk
  /\ opened' = [opened EXCEPT ![i] = Release(i, h)]
  /\ dev' = [dev EXCEPT ![h] = NoDev]

\* A faulty close that flushes only while other devices are open.
CloseSharedFlushes(h) ==
  LET i == dev[h].ino IN
  /\ dev[h] # NoDev
  /\ disk' = IF dev[h].rw /\ opened[i].count > 1 THEN Flushed(i) ELSE disk
  /\ opened' = [opened EXCEPT ![i] = Release(i, h)]
  /\ dev' = [dev EXCEPT ![h] = NoDev]

\* whio_dev_inode_close flushes for a writable device; whefs_inode_close
\* flushes again when the device is the writer of the entry.
Close(h) ==
  LET i == dev[h].ino IN
  /\ dev[h] # NoDev
  /\ disk' = IF dev[h].rw \/ opened[i].writer = h THEN Flushed(i) ELSE disk
  /\ opened' = [opened EXCEPT ![i] = Release(i, h)]
  /\ dev' = [dev EXCEPT ![h] = NoDev]

-----------------------------------------------------------------------------
(***************************************************************************)
(* Removing a file, closing the filesystem, and the end of the process.    *)
(***************************************************************************)

\* A faulty whefs_inode_unlink that does not search the opened inodes.
UnlinkOpened(i) ==
  /\ disk[i].used
  /\ disk' = [disk EXCEPT ![i] = Unused]
  /\ UNCHANGED <<opened, dev>>

\* whefs_inode_unlink refuses an inode that has opened devices.
Unlink(i) ==
  /\ disk[i].used
  /\ ~IsOpened(i)
  /\ disk' = [disk EXCEPT ![i] = Unused]
  /\ UNCHANGED <<opened, dev>>

\* whefs_fs_finalize closes every device of the closer list, then every entry
\* left in the table, each with its own writer, and the container is opened
\* again.
Reopen ==
  /\ disk' = [i \in Inode |-> IF opened[i].writer # NoHandle
                              THEN [disk[i] EXCEPT !.size = opened[i].size]
                              ELSE disk[i]]
  /\ opened' = [i \in Inode |-> NotOpened]
  /\ dev' = [h \in Handle |-> NoDev]

\* The process ends without whefs_fs_finalize.
Crash ==
  /\ opened' = [i \in Inode |-> NotOpened]
  /\ dev' = [h \in Handle |-> NoDev]
  /\ UNCHANGED disk

Next ==
  \/ \E h \in Handle, i \in Inode : OpenRead(h, i)
  \/ \E h \in Handle, i \in Inode : OpenWrite(h, i)
  \/ \E h \in Handle, i \in Inode : CreateWrite(h, i)
  \/ \E h \in Handle, n \in 0..MaxSize : Resize(h, n)
  \/ \E h \in Handle : Flush(h)
  \/ \E h \in Handle : Close(h)
  \/ \E i \in Inode : Unlink(i)
  \/ Reopen
  \/ Crash

Spec == Init /\ [][Next]_vars

-----------------------------------------------------------------------------
(***************************************************************************)
(* Properties.                                                             *)
(***************************************************************************)

\* The use count of an entry is the number of devices that refer to it
\* (whefs_inode_open and whefs_inode_close keep it by hand): were it too low,
\* the entry would be freed under a live device, and were it too high, the
\* inode could never be unlinked again.
OpenCountExact ==
  \A i \in Inode : opened[i].count = Cardinality(HandlesOn(i))

\* The writer of an entry is the one writable device of that inode: every
\* writable device is the writer of its entry, so a file has one writer at a
\* time, and a writer pointer never outlives its device.
WriterIsDevice ==
  /\ \A h \in Handle : dev[h].rw => opened[dev[h].ino].writer = h
  /\ \A i \in Inode : opened[i].writer # NoHandle =>
        dev[opened[i].writer] = [ino |-> i, rw |-> TRUE]

\* Nothing is lost when the last writer goes: an entry without a writer has
\* been flushed, also when readers keep it alive and are the last to close it.
CleanWithoutWriter ==
  \A i \in Inode : IsOpened(i) /\ opened[i].writer = NoHandle =>
      disk[i].size = opened[i].size

\* An inode with an open device is used on disk: it is never unlinked, or
\* handed out as a new file, under its devices.
OpenedIsUsed ==
  \A h \in Handle : dev[h] # NoDev => disk[dev[h].ino].used

\* The size of inode i for whoever asks now: that of the entry, which all devices
\* share, or of the container when it has no entry.
SizeOf(i) == IF IsOpened(i) THEN opened[i].size ELSE disk[i].size

\* Closing a device, in whatever order writers and readers go, changes no size that
\* anybody sees: not that of the devices that stay open, nor that of the next one to
\* open the inode.  When the writer goes the container gets the size it set, and no
\* close flushes any other size.  The end of the process is no close.
CloseKeepsSize ==
  [][~Crash => \A i \in Inode : opened'[i].count < opened[i].count =>
        /\ SizeOf(i)' = SizeOf(i)
        /\ opened'[i].writer # opened[i].writer => disk'[i].size = opened[i].size
        /\ disk'[i].size \in {disk[i].size, opened[i].size}]_vars
=============================================================================
