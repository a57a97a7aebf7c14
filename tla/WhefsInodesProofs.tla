-------------------------- MODULE WhefsInodesProofs --------------------------
(***************************************************************************)
(* Proofs about WhefsInodes: the table of opened inodes and the devices    *)
(* that share its entries agree, for any number of inodes and devices.     *)
(*                                                                         *)
(* The invariants of the module support each other (the entry count keeps  *)
(* an entry alive as long as a device is its writer), so their conjunction *)
(* is what is inductive.                                                   *)
(***************************************************************************)
EXTENDS WhefsInodes, FiniteSetTheorems, TLAPS

Inv ==
  /\ TypeOK
  /\ OpenCountExact
  /\ WriterIsDevice
  /\ CleanWithoutWriter
  /\ OpenedIsUsed

-----------------------------------------------------------------------------

\* 0 is not the id of an inode, so NoDev is not an opened device.
LEMMA ZeroIsNoInode == 0 \notin Inode
BY InodeAssumption

\* The devices of an inode are finitely many; there is at least one when some
\* device refers to the inode.
LEMMA HandlesFinite ==
  ASSUME NEW i \in Inode
  PROVE  /\ IsFiniteSet(HandlesOn(i))
         /\ Cardinality(HandlesOn(i)) \in Nat
         /\ Cardinality(HandlesOn(i)) = 0 <=> HandlesOn(i) = {}
<1>1. HandlesOn(i) \subseteq Handle
  BY DEF HandlesOn
<1>2. IsFiniteSet(HandlesOn(i))
  BY <1>1, HandleAssumption, FS_Subset
<1> QED
  BY <1>2, FS_CardinalityType, FS_EmptySet

\* Opening the device h on inode i adds h to the devices of i only.
LEMMA HandlesAfterOpen ==
  ASSUME TypeOK, NEW h \in Handle, NEW i \in Inode, NEW rw \in BOOLEAN,
         dev[h] = NoDev,
         dev' = [dev EXCEPT ![h] = [ino |-> i, rw |-> rw]]
  PROVE  /\ Cardinality(HandlesOn(i))' = Cardinality(HandlesOn(i)) + 1
         /\ \A j \in Inode \ {i} : HandlesOn(j)' = HandlesOn(j)
<1>1. HandlesOn(i)' = HandlesOn(i) \cup {h} /\ h \notin HandlesOn(i)
  BY ZeroIsNoInode DEF HandlesOn, TypeOK, NoDev
<1>2. \A j \in Inode \ {i} : HandlesOn(j)' = HandlesOn(j)
  BY ZeroIsNoInode DEF HandlesOn, TypeOK, NoDev
<1> QED
  BY <1>1, <1>2, HandlesFinite, FS_AddElement

\* An opened device refers to an inode.
LEMMA DeviceInode ==
  ASSUME TypeOK, NEW h \in Handle, dev[h] # NoDev
  PROVE  dev[h].ino \in Inode /\ dev[h].rw \in BOOLEAN
BY DEF TypeOK, Device

\* Closing the device h removes it from the devices of its inode only.
LEMMA HandlesAfterClose ==
  ASSUME TypeOK, NEW h \in Handle, NEW i \in Inode,
         dev[h].ino = i,
         dev' = [dev EXCEPT ![h] = NoDev]
  PROVE  /\ Cardinality(HandlesOn(i)) > 0
         /\ Cardinality(HandlesOn(i))' = Cardinality(HandlesOn(i)) - 1
         /\ \A j \in Inode \ {i} : HandlesOn(j)' = HandlesOn(j)
<1>1. h \in HandlesOn(i)
  BY DEF HandlesOn
<1>2. HandlesOn(i)' = HandlesOn(i) \ {h}
  BY ZeroIsNoInode DEF HandlesOn, TypeOK, NoDev
<1>3. \A j \in Inode \ {i} : HandlesOn(j)' = HandlesOn(j)
  BY ZeroIsNoInode DEF HandlesOn, TypeOK, NoDev
<1>4. Cardinality(HandlesOn(i) \ {h}) = Cardinality(HandlesOn(i)) - 1
  BY <1>1, HandlesFinite, FS_RemoveElement
<1>5. Cardinality(HandlesOn(i)) \in Nat /\ Cardinality(HandlesOn(i)) # 0
  BY <1>1, HandlesFinite
<1> QED
  BY <1>2, <1>3, <1>4, <1>5

\* A step that leaves the devices alone leaves the devices of each inode alone.
LEMMA HandlesUnchanged ==
  ASSUME UNCHANGED dev
  PROVE  \A i \in Inode : HandlesOn(i)' = HandlesOn(i)
BY DEF HandlesOn

-----------------------------------------------------------------------------
\* The writer of an entry is one of its devices.
LEMMA WriterOnInode ==
  ASSUME Inv, NEW i \in Inode, opened[i].writer # NoHandle
  PROVE  opened[i].writer \in HandlesOn(i)
<1>1. opened[i].writer \in Handle
  BY DEF Inv, TypeOK, Entry
<1>2. dev[opened[i].writer] = [ino |-> i, rw |-> TRUE]
  BY DEF Inv, WriterIsDevice
<1> QED
  BY <1>1, <1>2 DEF HandlesOn

\* An entry without devices is not opened and has no writer.
LEMMA ClosedEntry ==
  ASSUME Inv, NEW i \in Inode
  PROVE  /\ opened[i].count = Cardinality(HandlesOn(i))
         /\ opened[i].count \in Nat
         /\ ~IsOpened(i) => HandlesOn(i) = {} /\ opened[i].writer = NoHandle
<1>1. /\ opened[i].count = Cardinality(HandlesOn(i))
      /\ opened[i].count \in Nat
  BY HandlesFinite DEF Inv, OpenCountExact
<1>2. ASSUME ~IsOpened(i)
      PROVE  HandlesOn(i) = {} /\ opened[i].writer = NoHandle
  <2>1. HandlesOn(i) = {}
    BY <1>1, <1>2, HandlesFinite DEF IsOpened
  <2> QED
    BY <2>1, WriterOnInode
<1> QED
  BY <1>1, <1>2

-----------------------------------------------------------------------------
\* The three ways to open a device add it to its entry in the same way.
LEMMA OpenKeepsInv ==
  ASSUME Inv, NEW h \in Handle, NEW i \in Inode, NEW rw \in BOOLEAN,
         dev[h] = NoDev,
         MayOpen(i, rw),
         opened' = [opened EXCEPT ![i] = Share(i, h, rw)],
         dev' = [dev EXCEPT ![h] = [ino |-> i, rw |-> rw]],
         \/ disk[i].used /\ UNCHANGED disk
         \/ disk' = [disk EXCEPT ![i].used = TRUE]
  PROVE  Inv'
<1> DEFINE e == Share(i, h, rw)
<1> USE DEF Inv
<1>1. /\ opened[i] \in Entry
      /\ disk[i] \in DiskInode
      /\ h # NoHandle
  BY HandleAssumption DEF TypeOK
<1>2. /\ e.count = opened[i].count + 1
      /\ e.writer = IF rw THEN h ELSE opened[i].writer
      /\ e.size = IF IsOpened(i) THEN opened[i].size ELSE disk[i].size
      /\ e \in Entry
  <2>1. CASE IsOpened(i)
    <3>1. e = [opened[i] EXCEPT !.count = @ + 1,
                   !.writer = IF @ = NoHandle THEN IF rw THEN h ELSE NoHandle ELSE @]
      BY <2>1 DEF Share
    <3>2. rw => opened[i].writer = NoHandle
      BY DEF MayOpen
    <3> HIDE DEF e
    <3>3. e.writer = IF rw THEN h ELSE opened[i].writer
      BY <1>1, <3>1, <3>2 DEF Entry
    <3>4. /\ e.count = opened[i].count + 1
          /\ e.size = opened[i].size
      BY <1>1, <3>1 DEF Entry
    <3>5. PICK w \in Handle \cup {NoHandle} :
            e = [opened[i] EXCEPT !.count = @ + 1, !.writer = w]
      BY <1>1, <3>1 DEF Entry
    <3>6. e = [count |-> opened[i].count + 1, writer |-> w, size |-> opened[i].size]
      BY <1>1, <3>5 DEF Entry
    <3>7. e \in Entry
      BY <1>1, <3>6 DEF Entry
    <3> QED
      BY <2>1, <3>3, <3>4, <3>7
  <2>2. CASE ~IsOpened(i)
    <3>1. e = [count |-> 1, writer |-> IF rw THEN h ELSE NoHandle, size |-> disk[i].size]
      BY <2>2 DEF Share
    <3>2. opened[i].count = 0 /\ opened[i].writer = NoHandle
      BY <2>2, ClosedEntry DEF IsOpened
    <3> QED
      BY <1>1, <2>2, <3>1, <3>2 DEF Entry, DiskInode
  <2> QED
    BY <2>1, <2>2
<1>3. /\ opened'[i] = e
      /\ \A j \in Inode \ {i} : opened'[j] = opened[j]
  BY DEF TypeOK
<1>4. /\ dev'[h] = [ino |-> i, rw |-> rw]
      /\ \A g \in Handle \ {h} : dev'[g] = dev[g]
  BY DEF TypeOK
<1>5. /\ disk'[i] = [disk[i] EXCEPT !.used = TRUE]
      /\ \A j \in Inode \ {i} : disk'[j] = disk[j]
  BY DEF TypeOK, DiskInode
<1> HIDE DEF e
<1>6. TypeOK'
  BY <1>1, <1>2 DEF e, TypeOK, Device, DiskInode
<1>7. OpenCountExact'
  BY <1>2, <1>3, HandlesAfterOpen DEF OpenCountExact
<1>8. WriterIsDevice'
  <2>1. ASSUME NEW g \in Handle, dev'[g].rw
        PROVE  opened'[dev'[g].ino].writer = g
    <3>1. CASE g = h
      BY <1>2, <1>3, <1>4, <2>1, <3>1
    <3>2. CASE g # h
      BY <1>2, <1>3, <1>4, <2>1, <3>2, DeviceInode, HandleAssumption
         DEF WriterIsDevice, MayOpen, NoDev
    <3> QED
      BY <3>1, <3>2
  <2>2. ASSUME NEW j \in Inode, opened'[j].writer # NoHandle
        PROVE  dev'[opened'[j].writer] = [ino |-> j, rw |-> TRUE]
    <3>1. CASE j = i /\ rw
      BY <1>2, <1>3, <1>4, <3>1
    <3>2. CASE ~(j = i /\ rw)
      <4>1. opened'[j].writer = opened[j].writer
        BY <1>2, <1>3, <3>2
      <4>2. opened[j].writer \in Handle /\ opened[j].writer # NoHandle
        BY <2>2, <4>1 DEF TypeOK, Entry
      <4>3. dev[opened[j].writer] = [ino |-> j, rw |-> TRUE]
        BY <4>2 DEF WriterIsDevice
      <4> QED
        BY <1>4, <4>1, <4>2, <4>3 DEF NoDev
    <3> QED
      BY <3>1, <3>2
  <2> QED
    BY <2>1, <2>2 DEF WriterIsDevice
<1>9. CleanWithoutWriter'
  <2> SUFFICES ASSUME NEW j \in Inode, IsOpened(j)', opened'[j].writer = NoHandle
               PROVE  disk'[j].size = opened'[j].size
    BY DEF CleanWithoutWriter
  <2>1. CASE j = i
    BY <1>1, <1>2, <1>3, <1>5, <2>1 DEF CleanWithoutWriter, DiskInode
  <2>2. CASE j # i
    BY <1>3, <1>5, <2>2 DEF CleanWithoutWriter, IsOpened
  <2> QED
    BY <2>1, <2>2
<1>10. OpenedIsUsed'
  <2> SUFFICES ASSUME NEW g \in Handle, dev'[g] # NoDev
               PROVE  disk'[dev'[g].ino].used
    BY DEF OpenedIsUsed
  <2>1. disk'[i].used
    BY <1>1, <1>5 DEF DiskInode
  <2>2. CASE g = h
    BY <1>4, <2>1, <2>2
  <2>3. CASE g # h
    <3>1. dev'[g] = dev[g] /\ dev[g].ino \in Inode /\ disk[dev[g].ino].used
      BY <1>4, <2>3, DeviceInode DEF OpenedIsUsed
    <3> QED
      BY <1>5, <2>1, <3>1
  <2> QED
    BY <2>2, <2>3
<1> QED
  BY <1>6, <1>7, <1>8, <1>9, <1>10

\* Writing and truncating change the size of one opened entry; a writable
\* device is the writer of its entry, so the entry may be dirty.
LEMMA ResizeKeepsInv ==
  ASSUME Inv, NEW h \in Handle, NEW n \in 0..MaxSize, Resize(h, n)
  PROVE  Inv'
<1> USE DEF Inv
<1> DEFINE i == dev[h].ino
<1>1. /\ dev[h].rw
      /\ opened' = [opened EXCEPT ![i].size = n]
      /\ \/ UNCHANGED disk
         \/ disk' = [disk EXCEPT ![i].size = opened[i].size]
         \/ disk' = [disk EXCEPT ![i].size = n]
      /\ UNCHANGED dev
  BY DEF Resize, Flushed
<1>2. i \in Inode /\ dev[h] # NoDev
  BY <1>1, DeviceInode DEF NoDev
<1>3. opened[i].writer = h /\ h # NoHandle
  BY <1>1, HandleAssumption DEF WriterIsDevice
<1>4. \A j \in Inode : /\ opened'[j].count = opened[j].count
                       /\ opened'[j].writer = opened[j].writer
                       /\ disk'[j].used = disk[j].used
                       /\ j # i => opened'[j] = opened[j] /\ disk'[j] = disk[j]
  BY <1>1 DEF TypeOK, Entry, DiskInode
<1>5. TypeOK'
  <2>1. opened' \in [Inode -> Entry]
    BY <1>1 DEF TypeOK, Entry
  <2>2. opened[i].size \in 0..MaxSize
    BY <1>2 DEF TypeOK, Entry
  <2>3. \E m \in 0..MaxSize : disk' = disk \/ disk' = [disk EXCEPT ![i].size = m]
    BY <1>1, <2>2
  <2>4. disk' \in [Inode -> DiskInode]
    BY <1>2, <2>3 DEF TypeOK, DiskInode
  <2> QED
    BY <1>1, <2>1, <2>4 DEF TypeOK
<1>6. OpenCountExact'
  BY <1>1, <1>4, HandlesUnchanged DEF OpenCountExact
<1>7. WriterIsDevice'
  BY <1>1, <1>4, DeviceInode DEF WriterIsDevice, NoDev
<1>8. CleanWithoutWriter'
  BY <1>3, <1>4 DEF CleanWithoutWriter, IsOpened
<1>9. OpenedIsUsed'
  BY <1>1, <1>4, DeviceInode DEF OpenedIsUsed
<1> QED
  BY <1>5, <1>6, <1>7, <1>8, <1>9

LEMMA FlushKeepsInv ==
  ASSUME Inv, NEW h \in Handle, Flush(h)
  PROVE  Inv'
<1> USE DEF Inv
<1> DEFINE i == dev[h].ino
<1>1. /\ dev[h].rw
      /\ disk' = [disk EXCEPT ![i].size = opened[i].size]
      /\ UNCHANGED <<opened, dev>>
  BY DEF Flush, Flushed
<1>2. i \in Inode
  BY <1>1, DeviceInode DEF NoDev
<1>3. /\ disk' \in [Inode -> DiskInode]
      /\ \A j \in Inode : /\ disk'[j].used = disk[j].used
                          /\ disk'[j].size \in {disk[j].size, opened[j].size}
  BY <1>1, <1>2 DEF TypeOK, DiskInode, Entry
<1>4. TypeOK'
  BY <1>1, <1>3 DEF TypeOK
<1>5. OpenCountExact'
  BY <1>1, HandlesUnchanged DEF OpenCountExact
<1>6. WriterIsDevice'
  BY <1>1 DEF WriterIsDevice
<1>7. CleanWithoutWriter'
  BY <1>1, <1>3 DEF CleanWithoutWriter, IsOpened
<1>8. OpenedIsUsed'
  BY <1>1, <1>3, DeviceInode DEF OpenedIsUsed
<1> QED
  BY <1>4, <1>5, <1>6, <1>7, <1>8

\* Closing: an entry other than the one of the device is untouched; the entry
\* itself loses one device, is flushed when the device was its writer, and is
\* dropped with the last device.
LEMMA CloseKeepsInv ==
  ASSUME Inv, NEW h \in Handle, Close(h)
  PROVE  Inv'
<1> USE DEF Inv
<1>1. PICK i \in Inode : dev[h].ino = i
  BY DeviceInode DEF Close
<1> DEFINE e == Release(i, h)
<1>2. /\ dev[h] # NoDev
      /\ disk' = IF dev[h].rw \/ opened[i].writer = h THEN Flushed(i) ELSE disk
      /\ opened' = [opened EXCEPT ![i] = e]
      /\ dev' = [dev EXCEPT ![h] = NoDev]
  BY <1>1 DEF Close
<1>3. /\ opened[i] \in Entry
      /\ disk[i] \in DiskInode
      /\ h # NoHandle
  BY HandleAssumption DEF TypeOK
<1>4. /\ opened[i].count \in Nat
      /\ opened[i].count > 0
      /\ opened[i].count = Cardinality(HandlesOn(i))
      /\ Cardinality(HandlesOn(i))' = opened[i].count - 1
      /\ \A j \in Inode \ {i} : HandlesOn(j)' = HandlesOn(j)
  BY <1>1, <1>2, <1>3, HandlesAfterClose, ClosedEntry DEF Entry
<1>5. /\ e.count = opened[i].count - 1
      /\ e.count > 0 => e.size = opened[i].size
      /\ e.writer \in {NoHandle, opened[i].writer}
      /\ e.writer # h
      /\ e.count > 0 /\ opened[i].writer # h => e.writer = opened[i].writer
      /\ e \in Entry
  <2>1. CASE opened[i].count = 1
    BY <1>3, <2>1, SizeAssumption DEF Release, NotOpened, Entry
  <2>2. CASE opened[i].count # 1
    <3>1. e = [count |-> opened[i].count - 1,
               writer |-> IF opened[i].writer = h THEN NoHandle ELSE opened[i].writer,
               size |-> opened[i].size]
      BY <1>3, <2>2 DEF Release, Entry
    <3> QED
      BY <1>3, <1>4, <2>2, <3>1 DEF Entry
  <2> QED
    BY <2>1, <2>2
<1>6. /\ opened'[i] = e
      /\ \A j \in Inode \ {i} : opened'[j] = opened[j]
  BY <1>2 DEF TypeOK
<1>7. /\ dev'[h] = NoDev
      /\ \A g \in Handle \ {h} : dev'[g] = dev[g]
  BY <1>2 DEF TypeOK
<1>8. /\ disk' \in [Inode -> DiskInode]
      /\ \A j \in Inode : disk'[j].used = disk[j].used
      /\ \A j \in Inode \ {i} : disk'[j] = disk[j]
      /\ disk'[i].size = IF dev[h].rw \/ opened[i].writer = h
                         THEN opened[i].size ELSE disk[i].size
  BY <1>2, <1>3 DEF Flushed, TypeOK, DiskInode, Entry
<1> HIDE DEF e
<1>9. TypeOK'
  BY <1>2, <1>5, <1>8 DEF TypeOK
<1>10. OpenCountExact'
  BY <1>4, <1>5, <1>6 DEF OpenCountExact
<1>11. WriterIsDevice'
  <2>1. ASSUME NEW g \in Handle, dev'[g].rw
        PROVE  opened'[dev'[g].ino].writer = g
    <3>1. g # h /\ dev'[g] = dev[g] /\ g # NoHandle
      BY <1>7, <2>1, HandleAssumption DEF NoDev
    <3>2. dev[g].ino \in Inode /\ opened[dev[g].ino].writer = g
      BY <2>1, <3>1, DeviceInode DEF WriterIsDevice, NoDev
    <3>3. CASE dev[g].ino = i
      <4>1. {g, h} \subseteq HandlesOn(i) /\ g # h
        BY <1>1, <3>1, <3>3 DEF HandlesOn
      <4>2. e.count > 0
        <5>1. g \in HandlesOn(i)'
          BY <3>1, <3>3 DEF HandlesOn
        <5>2. Cardinality(HandlesOn(i))' # 0
          BY <5>1, HandlesFinite, <1>2, FS_EmptySet, FS_Subset, FS_CardinalityType,
             HandleAssumption DEF HandlesOn
        <5> QED
          BY <1>4, <1>5, <5>2
      <4> QED
        BY <1>5, <1>6, <3>1, <3>2, <3>3, <4>2
    <3>4. CASE dev[g].ino # i
      BY <1>6, <3>1, <3>2, <3>4
    <3> QED
      BY <3>3, <3>4
  <2>2. ASSUME NEW j \in Inode, opened'[j].writer # NoHandle
        PROVE  dev'[opened'[j].writer] = [ino |-> j, rw |-> TRUE]
    <3>1. opened'[j].writer = opened[j].writer
      BY <1>5, <1>6, <2>2
    <3>2. /\ opened[j].writer \in Handle
          /\ dev[opened[j].writer] = [ino |-> j, rw |-> TRUE]
      BY <2>2, <3>1 DEF WriterIsDevice, TypeOK, Entry
    <3>3. opened[j].writer # h
      BY <1>1, <1>5, <1>6, <3>1, <3>2
    <3> QED
      BY <1>7, <3>1, <3>2, <3>3
  <2> QED
    BY <2>1, <2>2 DEF WriterIsDevice
<1>12. CleanWithoutWriter'
  <2> SUFFICES ASSUME NEW j \in Inode, IsOpened(j)', opened'[j].writer = NoHandle
               PROVE  disk'[j].size = opened'[j].size
    BY DEF CleanWithoutWriter
  <2>1. CASE j = i
    <3>1. e.count > 0
      BY <1>6, <2>1 DEF IsOpened
    <3>2. opened[i].writer = h \/ opened[i].writer = NoHandle
      BY <1>5, <1>6, <2>1, <3>1
    <3> QED
      BY <1>4, <1>5, <1>6, <1>8, <2>1, <3>1, <3>2 DEF CleanWithoutWriter, IsOpened
  <2>2. CASE j # i
    BY <1>6, <1>8, <2>2 DEF CleanWithoutWriter, IsOpened
  <2> QED
    BY <2>1, <2>2
<1>13. OpenedIsUsed'
  BY <1>7, <1>8, DeviceInode DEF OpenedIsUsed
<1> QED
  BY <1>9, <1>10, <1>11, <1>12, <1>13

\* Only an inode without devices is unlinked.
LEMMA UnlinkKeepsInv ==
  ASSUME Inv, NEW i \in Inode, Unlink(i)
  PROVE  Inv'
<1> USE DEF Inv
<1>1. /\ ~IsOpened(i)
      /\ disk' = [disk EXCEPT ![i] = Unused]
      /\ UNCHANGED <<opened, dev>>
  BY DEF Unlink
<1>2. HandlesOn(i) = {}
  BY <1>1, ClosedEntry
<1>3. /\ disk' \in [Inode -> DiskInode]
      /\ \A j \in Inode \ {i} : disk'[j] = disk[j]
  BY <1>1, SizeAssumption DEF TypeOK, DiskInode, Unused
<1>4. TypeOK'
  BY <1>1, <1>3 DEF TypeOK
<1>5. OpenCountExact'
  BY <1>1, HandlesUnchanged DEF OpenCountExact
<1>6. WriterIsDevice'
  BY <1>1 DEF WriterIsDevice
<1>7. CleanWithoutWriter'
  BY <1>1, <1>3 DEF CleanWithoutWriter, IsOpened
<1>8. OpenedIsUsed'
  BY <1>1, <1>2, <1>3, DeviceInode DEF OpenedIsUsed, HandlesOn
<1> QED
  BY <1>4, <1>5, <1>6, <1>7, <1>8

\* No device and no entry survives the process.
LEMMA ResetKeepsInv ==
  ASSUME disk' \in [Inode -> DiskInode],
         opened' = [i \in Inode |-> NotOpened],
         dev' = [h \in Handle |-> NoDev]
  PROVE  Inv'
<1>1. TypeOK'
  BY SizeAssumption DEF TypeOK, Entry, NotOpened
<1>2. \A i \in Inode : HandlesOn(i)' = {}
  BY ZeroIsNoInode DEF HandlesOn, NoDev
<1>3. OpenCountExact'
  BY <1>2, FS_EmptySet DEF OpenCountExact, NotOpened
<1>4. WriterIsDevice' /\ CleanWithoutWriter' /\ OpenedIsUsed'
  BY DEF WriterIsDevice, CleanWithoutWriter, OpenedIsUsed, IsOpened, NotOpened, NoDev
<1> QED
  BY <1>1, <1>3, <1>4 DEF Inv

LEMMA InvInit == Init => Inv
<1> SUFFICES ASSUME Init PROVE Inv
  OBVIOUS
<1>1. TypeOK
  BY SizeAssumption DEF Init, TypeOK, Entry, NotOpened, DiskInode, Unused
<1>2. \A i \in Inode : HandlesOn(i) = {}
  BY ZeroIsNoInode DEF Init, HandlesOn, NoDev
<1>3. OpenCountExact
  BY <1>2, FS_EmptySet DEF Init, OpenCountExact, NotOpened
<1>4. WriterIsDevice /\ CleanWithoutWriter /\ OpenedIsUsed
  BY DEF Init, WriterIsDevice, CleanWithoutWriter, OpenedIsUsed, IsOpened, NotOpened, NoDev
<1> QED
  BY <1>1, <1>3, <1>4 DEF Inv

LEMMA InvNext == Inv /\ [Next]_vars => Inv'
<1> SUFFICES ASSUME Inv, [Next]_vars PROVE Inv'
  OBVIOUS
<1>1. ASSUME NEW h \in Handle, NEW i \in Inode, OpenRead(h, i) PROVE Inv'
  BY <1>1, OpenKeepsInv DEF OpenRead, MayOpen
<1>2. ASSUME NEW h \in Handle, NEW i \in Inode, OpenWrite(h, i) PROVE Inv'
  BY <1>2, OpenKeepsInv DEF OpenWrite
<1>3. ASSUME NEW h \in Handle, NEW i \in Inode, CreateWrite(h, i) PROVE Inv'
  BY <1>3, OpenKeepsInv DEF CreateWrite
<1>4. ASSUME NEW h \in Handle, NEW n \in 0..MaxSize, Resize(h, n) PROVE Inv'
  BY <1>4, ResizeKeepsInv
<1>5. ASSUME NEW h \in Handle, Flush(h) PROVE Inv'
  BY <1>5, FlushKeepsInv
<1>6. ASSUME NEW h \in Handle, Close(h) PROVE Inv'
  BY <1>6, CloseKeepsInv
<1>7. ASSUME NEW i \in Inode, Unlink(i) PROVE Inv'
  BY <1>7, UnlinkKeepsInv
<1>8. CASE Reopen
  <2>1. disk' \in [Inode -> DiskInode]
    BY <1>8 DEF Reopen, Inv, TypeOK, DiskInode, Entry
  <2> QED
    BY <1>8, <2>1, ResetKeepsInv DEF Reopen
<1>9. CASE Crash
  BY <1>9, ResetKeepsInv DEF Crash, Inv, TypeOK
<1>10. CASE UNCHANGED vars
  BY <1>10, HandlesUnchanged DEF vars, Inv, TypeOK, OpenCountExact, WriterIsDevice,
     CleanWithoutWriter, OpenedIsUsed, IsOpened
<1> QED
  BY <1>1, <1>2, <1>3, <1>4, <1>5, <1>6, <1>7, <1>8, <1>9, <1>10 DEF Next

THEOREM InvInvariant == Spec => []Inv
BY InvInit, InvNext, PTL DEF Spec

-----------------------------------------------------------------------------
(***************************************************************************)
(* The theorems.                                                           *)
(***************************************************************************)

\* The variables keep their types.
THEOREM TypeCorrect == Spec => []TypeOK
BY InvInvariant, PTL DEF Inv

\* whefs_inode_open and whefs_inode_close keep the use count of an entry equal
\* to the number of its devices.
THEOREM CountCorrect == Spec => []OpenCountExact
BY InvInvariant, PTL DEF Inv

\* A file has at most one writer, and it is an open device.
THEOREM OneWriter == Spec => []WriterIsDevice
BY InvInvariant, PTL DEF Inv

\* An entry that lost its writer has been flushed.
THEOREM WriterFlushed == Spec => []CleanWithoutWriter
BY InvInvariant, PTL DEF Inv

\* An inode is not unlinked under its devices.
THEOREM NoUnlinkWhileOpen == Spec => []OpenedIsUsed
BY InvInvariant, PTL DEF Inv

\* A device that is closed, by itself or with the container, leaves the size of its inode
\* as it was for everyone, and the writer leaves it in the container.
THEOREM ClosingKeepsSize == Spec => CloseKeepsSize
<1> DEFINE Kept(i) ==
             /\ SizeOf(i)' = SizeOf(i)
             /\ opened'[i].writer # opened[i].writer => disk'[i].size = opened[i].size
             /\ disk'[i].size \in {disk[i].size, opened[i].size}
<1>1. ASSUME Inv, [Next]_vars, ~Crash,
             NEW i \in Inode, opened'[i].count < opened[i].count
      PROVE  Kept(i)
  <2>1. opened[i] \in Entry /\ opened[i].count \in Nat /\ disk[i] \in DiskInode
    BY <1>1, ClosedEntry DEF Inv, TypeOK
  <2>2. ASSUME NEW h \in Handle, Close(h) PROVE Kept(i)
    <3>1. dev[h].ino = i /\ opened'[i] = Release(i, h) /\ h \in HandlesOn(i)
      BY <1>1, <2>1, <2>2, DeviceInode DEF Close, HandlesOn, Inv, TypeOK
    <3>2. disk'[i] = IF dev[h].rw \/ opened[i].writer = h
                     THEN [disk[i] EXCEPT !.size = opened[i].size] ELSE disk[i]
      BY <2>1, <2>2, <3>1, <1>1 DEF Close, Flushed, Inv, TypeOK
    <3>3. CASE opened[i].count = 1
      <4>1. disk'[i].size = opened[i].size
        <5>1. CASE opened[i].writer = NoHandle
          <6>1. disk[i].size = opened[i].size
            BY <1>1, <2>1, <3>3, <5>1 DEF Inv, CleanWithoutWriter, IsOpened
          <6> QED
            BY <2>1, <3>2, <6>1 DEF DiskInode
        <5>2. CASE opened[i].writer # NoHandle
          <6>1. opened[i].writer \in HandlesOn(i)
            BY <1>1, <5>2, WriterOnInode
          <6>. h \in HandlesOn(i)
            BY <3>1
          <6>2. Cardinality(HandlesOn(i) \ {h}) = 0 /\ IsFiniteSet(HandlesOn(i) \ {h})
            BY <1>1, <3>3, ClosedEntry, HandlesFinite, FS_RemoveElement
          <6>3. opened[i].writer = h
            BY <6>1, <6>2, FS_EmptySet
          <6> QED
            BY <2>1, <3>2, <6>3 DEF DiskInode
        <5> QED
          BY <5>1, <5>2
      <4>2. opened'[i] = NotOpened
        BY <3>1, <3>3 DEF Release
      <4> QED
        BY <3>3, <4>1, <4>2 DEF SizeOf, IsOpened, NotOpened
    <3>4. CASE opened[i].count # 1
      <4>1. opened'[i] = [opened[i] EXCEPT !.count = @ - 1,
                                           !.writer = IF @ = h THEN NoHandle ELSE @]
        BY <3>1, <3>4 DEF Release
      <4>2. opened'[i].size = opened[i].size /\ opened'[i].count = opened[i].count - 1
        BY <2>1, <4>1 DEF Entry
      <4>3. opened'[i].writer # opened[i].writer => opened[i].writer = h
        BY <2>1, <4>1 DEF Entry
      <4>4. IsOpened(i) /\ IsOpened(i)'
        <5>1. opened[i].count > 0
          BY <1>1, <2>1, <3>1, ClosedEntry DEF IsOpened
        <5> QED
          BY <2>1, <3>4, <4>2, <5>1 DEF IsOpened
      <4>5. SizeOf(i)' = SizeOf(i)
        BY <4>2, <4>4 DEF SizeOf
      <4> QED
        BY <2>1, <3>2, <4>3, <4>5 DEF DiskInode
    <3> QED
      BY <3>3, <3>4
  <2>3. CASE Reopen
    <3>1. disk'[i] = IF opened[i].writer # NoHandle
                     THEN [disk[i] EXCEPT !.size = opened[i].size] ELSE disk[i]
      BY <2>3 DEF Reopen
    <3>2. disk'[i].size = opened[i].size
      <4>1. opened[i].writer = NoHandle => disk[i].size = opened[i].size
        BY <1>1, <2>1, <2>3 DEF Reopen, NotOpened, Inv, CleanWithoutWriter, IsOpened
      <4> QED
        BY <2>1, <3>1, <4>1 DEF DiskInode
    <3>3. opened'[i] = NotOpened
      BY <2>3 DEF Reopen
    <3> QED
      BY <1>1, <2>1, <3>2, <3>3 DEF SizeOf, IsOpened, NotOpened
  <2>4. ASSUME NEW h \in Handle, NEW j \in Inode, NEW rw \in BOOLEAN,
               opened' = [opened EXCEPT ![j] = Share(j, h, rw)]
        PROVE  FALSE
    BY <1>1, <2>1, <2>4, ClosedEntry DEF Share, IsOpened, Inv, TypeOK, Entry
  <2>5. ASSUME NEW h \in Handle, NEW n \in 0..MaxSize, Resize(h, n)
        PROVE  FALSE
    BY <1>1, <2>1, <2>5 DEF Resize, Inv, TypeOK, Entry
  <2>6. ASSUME UNCHANGED opened PROVE FALSE
    BY <1>1, <2>1, <2>6
  <2> QED
    BY <1>1, <2>2, <2>3, <2>4, <2>5, <2>6
       DEF Next, OpenRead, OpenWrite, CreateWrite, Flush, Unlink, vars
<1>2. Inv /\ [Next]_vars =>
        [~Crash => \A i \in Inode : opened'[i].count < opened[i].count => Kept(i)]_vars
  BY <1>1
<1> QED
  BY InvInvariant, <1>2, PTL DEF Spec, CloseKeepsSize
=============================================================================
