---------------------------- MODULE WhefsDevice -----------------------------
(***************************************************************************)
(* The device a handle of a container works on: who has made it, who       *)
(* finalizes it, and the proxy that a mapping of the file puts in its      *)
(* place (WHEFS_CONFIG_ENABLE_MMAP).  Everything that can fail may fail.   *)
(***************************************************************************)
EXTENDS Integers, FiniteSets

CONSTANTS
  Devices,  \* the devices there can be
  MaxLost   \* bound on the mappings that are lost

\* "none" is the null pointer.
DeviceAssumption == MaxLost \in Nat /\ "none" \notin Devices

VARIABLES
  device,  \* what each device is over, while it is there: "file" or "memory"
  owner,   \* who has to finalize it: "caller", "fs" or "nobody"
  fs,      \* the handle, NoFs when there is none
  mapped,  \* mappings of the file that are there, the lost ones included
  lost,    \* mappings that nobody knows any more
  twice,   \* a device was used or finalized that was not there any more
  told,    \* who has to finalize each device by what whefs.h says
  spent    \* devices that a failing whefs_openfs_dev was to take

vars == <<device, owner, fs, mapped, lost, twice, told, spent>>

-----------------------------------------------------------------------------
\* dev is the device on the file or memory, which the proxy has in its client data;
\* mmapped is WHEFS_FLAG_FS_IsMMapped, and fileno is set.
NoFs == [dev |-> "none", owns |-> FALSE, rw |-> FALSE, fileno |-> FALSE,
         proxy |-> FALSE, mmapped |-> FALSE]

Init ==
  /\ device = [d \in Devices |-> "none"]
  /\ owner = [d \in Devices |-> "nobody"]
  /\ fs = NoFs
  /\ mapped = 0 /\ lost = 0
  /\ twice = FALSE
  /\ told = owner /\ spent = {}

State == [device |-> device, owner |-> owner, fs |-> fs, mapped |-> mapped,
          lost |-> lost, twice |-> twice, told |-> told, spent |-> spent]

Become(s) ==
  /\ device' = s.device /\ owner' = s.owner /\ fs' = s.fs /\ mapped' = s.mapped
  /\ lost' = s.lost /\ twice' = s.twice /\ told' = s.told /\ spent' = s.spent

\* "On failure, ownership of dev does not change" (whefs_mkfs_dev, whefs.h:884-885), and
\* "On error, [...] ownership of dev does not change" (whefs_openfs_dev, whefs.h:909-910).
Failed(s) == [s EXCEPT !.told = told]

FinalizeDev(s, d) ==
  [s EXCEPT !.device[d] = "none", !.owner[d] = "nobody", !.told[d] = "nobody",
            !.twice = @ \/ s.device[d] = "none"]

-----------------------------------------------------------------------------
(***************************************************************************)
(* The mapping.                                                            *)
(***************************************************************************)

\* What whefs_fs_mmap_connect may make of s.  Without memory for WhioDevMMapInfo the
\* proxy is finalized, but its close returns before it unmaps anything.
Connect(s) ==
  IF s.fs.mmapped \/ ~s.fs.rw \/ ~s.fs.fileno THEN {s}
  ELSE {s, [s EXCEPT !.fs.proxy = TRUE, !.fs.mmapped = TRUE, !.mapped = @ + 1]}
       \cup IF s.lost < MaxLost THEN {[s EXCEPT !.mapped = @ + 1, !.lost = @ + 1]} ELSE {}

\* Mutant: the proxy still has the device when it is finalized.
DisconnectAll(s) ==
  IF s.fs.mmapped /\ s.fs.fileno /\ s.fs.proxy
  THEN FinalizeDev([s EXCEPT !.fs.proxy = FALSE, !.mapped = @ - 1], s.fs.dev) ELSE s

\* whefs_fs_mmap_disconnect.  The flag stays, so that the file is not mapped again.
Disconnect(s) ==
  IF s.fs.mmapped /\ s.fs.fileno /\ s.fs.proxy
  THEN [s EXCEPT !.fs.proxy = FALSE, !.mapped = @ - 1] ELSE s

-----------------------------------------------------------------------------
(***************************************************************************)
(* The end of a handle.                                                    *)
(***************************************************************************)

\* Mutant: the device is finalized whoever owns it.
FinalizeAlways(s) ==
  LET c == Disconnect(s)
  IN [(IF c.fs.dev # "none" THEN FinalizeDev(c, c.fs.dev) ELSE c) EXCEPT !.fs = NoFs]

\* whefs_fs_finalize, which works on the device before it looks who owns it.
Finalized(s) ==
  LET c == Disconnect(s)
      u == IF c.fs.dev = "none" THEN c
           ELSE [c EXCEPT !.twice = @ \/ c.device[c.fs.dev] = "none"]
      f == IF u.fs.dev # "none" /\ u.fs.owns THEN FinalizeDev(u, u.fs.dev) ELSE u
  IN [f EXCEPT !.fs = NoFs]

Finalize ==
  /\ fs # NoFs
  /\ Become(Finalized(State))

-----------------------------------------------------------------------------
(***************************************************************************)
(* Making and opening containers.                                          *)
(***************************************************************************)

Unused == {d \in Devices : device[d] = "none"}

\* whefs_open_FILE: there is a descriptor, and the file is locked.
Opened(d, is, rw) ==
  [State EXCEPT !.device[d] = is, !.owner[d] = "fs", !.told[d] = "fs", !.spent = @ \ {d},
                !.fs = [NoFs EXCEPT !.dev = d, !.owns = TRUE, !.rw = rw,
                                    !.fileno = (is = "file")]]

\* whefs_mkfs: any of whefs_mkfs_stage1, opening or locking the file, and
\* whefs_mkfs_stage2 may fail.
Mkfs ==
  /\ fs = NoFs
  /\ \E d \in Unused, is \in {"file", "memory"} :
       LET s == Opened(d, is, TRUE)
       IN \/ Become(State)
          \/ is = "file" /\ Become([FinalizeDev(s, d) EXCEPT !.fs = NoFs])
          \/ Become(Finalized(s))
          \/ \E t \in Connect(s) : Become(t)

\* A device of the caller is taken, or not.
Taken(s, d, take) ==
  LET whose == IF take THEN "fs" ELSE "caller"
  IN [s EXCEPT !.owner[d] = whose, !.told[d] = whose]

\* Mutant: the handle has the device before stage 2 is through.
MkfsOwnsEarly(take) == take

\* Whether the handle owns the device in whefs_mkfs_stage2.
MkfsOwns(take) == FALSE

\* whefs_mkfs_dev: the handle is given the device after whefs_mkfs_stage2.  The
\* descriptor is not asked for, and so nothing is mapped.
MkfsDev ==
  /\ fs = NoFs
  /\ \E d \in Devices, take \in BOOLEAN :
       /\ owner[d] = "caller"
       /\ LET s == [State EXCEPT !.fs = [NoFs EXCEPT !.dev = d, !.owns = MkfsOwns(take),
                                                     !.rw = TRUE]]
          IN \/ Become(State)
             \/ Become(Failed(Finalized(s)))
             \/ \E t \in Connect([Taken(s, d, take) EXCEPT !.fs.owns = take]) : Become(t)

\* whefs_openfs: without a device the handle is just freed.
OpenFs ==
  /\ fs = NoFs
  /\ \E d \in Unused, rw \in BOOLEAN :
       LET s == Opened(d, "file", rw)
       IN \/ Become(State)
          \/ Become([FinalizeDev(s, d) EXCEPT !.fs = NoFs])
          \/ Become(Finalized(s))
          \/ \E t \in Connect(s) : Become(t)

\* whefs_openfs_dev: the handle has the device before whefs_openfs_stage2, so a device
\* that is to be taken is finalized when that fails.
OpenFsDev ==
  /\ fs = NoFs
  /\ \E d \in Devices, take \in BOOLEAN :
       /\ owner[d] = "caller"
       /\ LET s == Taken([State EXCEPT !.fs =
                            [NoFs EXCEPT !.dev = d, !.owns = take, !.rw = TRUE,
                                         !.fileno = (device[d] = "file")]], d, take)
          IN \/ Become(State)
             \/ Become(Failed([Finalized(s) EXCEPT !.spent = IF take THEN @ \cup {d} ELSE @]))
             \/ \E t \in Connect(s) : Become(t)

\* whefs_fs_append_blocks truncates the device itself, never the proxy, and maps the file
\* again, or would if the flag were not set.
AppendBlocks ==
  /\ fs.dev # "none" /\ fs.rw
  /\ \E s \in Connect(Disconnect(State)) : Become(s)

\* The caller's own devices; it finalizes none that a handle works on.
NewDevice ==
  /\ \E d \in Unused, is \in {"file", "memory"} :
       Become([State EXCEPT !.device[d] = is, !.owner[d] = "caller", !.told[d] = "caller",
                            !.spent = @ \ {d}])

FinalizeDevice ==
  \E d \in Devices :
    /\ owner[d] = "caller" /\ fs.dev # d
    /\ Become(FinalizeDev(State, d))

Next ==
  \/ Finalize \/ Mkfs \/ MkfsDev \/ OpenFs \/ OpenFsDev \/ AppendBlocks
  \/ NewDevice \/ FinalizeDevice

Spec == Init /\ [][Next]_vars

-----------------------------------------------------------------------------
\* The owner is the one whefs.h says, with one exception: a device that whefs_openfs_dev
\* was to take and failed on is finalized, though it is still the caller's by
\* whefs.h:909-910, who cannot use it or finalize it any more.
OwnersTold ==
  \A d \in Devices :
    IF d \in spent THEN owner[d] = "nobody" /\ told[d] = "caller"
    ELSE told[d] = owner[d]

\* Whatever fails, a device is finalized once, by the one who owns it, and nobody works
\* on it afterwards, if the caller knows of the exception in OwnersTold; there is a mapping
\* as long as the handle has a proxy, and none behind it but those that were lost.
DeviceSound ==
  /\ ~twice
  /\ OwnersTold
  /\ \A d \in Devices :
       /\ (device[d] = "none") <=> (owner[d] = "nobody")
       /\ owner[d] = "fs" <=> fs.dev = d /\ fs.owns
  /\ fs # NoFs => device[fs.dev] # "none"
  /\ mapped = lost + IF fs.proxy THEN 1 ELSE 0
=============================================================================
