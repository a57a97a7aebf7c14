---------------------------- MODULE WhioHandles -----------------------------
(***************************************************************************)
(* Who owns what among the I/O objects: devices on FILEs, on names, on     *)
(* descriptors, on memory, on pseudofiles and on parts of devices, streams *)
(* on FILEs and devices, and block devices.  An object is two pieces of    *)
(* memory or three; close gives up all but the first, and what the object  *)
(* owns below it, and calls the destructor of the client's data; finalize  *)
(* gives up the rest.  Any allocation and any open may fail.               *)
(*                                                                         *)
(* The caller keeps the rules of whio_devs.h: it finalizes what it owns,   *)
(* once, and nothing that an object which is not closed is made of.        *)
(***************************************************************************)
EXTENDS Integers, FiniteSets

CONSTANTS
  MaxObjects,  \* bound on the objects
  MaxFiles     \* bound on the FILEs and descriptors

SizesAssumption == MaxObjects \in Nat /\ MaxFiles \in Nat

VARIABLES
  object,  \* the objects: what each is made of, and what the caller has set
  file,    \* what each FILE or descriptor is, and who has it
  memory,  \* the pieces that are allocated
  twice    \* a piece or a file was given up that was not there any more

vars == <<object, file, memory, twice>>

-----------------------------------------------------------------------------
Objects == 1..MaxObjects
Files == 1..MaxFiles

Gone == [kind |-> "gone", data |-> FALSE, on |-> 0, owns |-> FALSE, hook |-> FALSE]

OnFile == {"devFILE", "devFileno", "streamFILE"}
OnDevice == {"streamDev", "subdev", "blockdev"}
OnMemory == {"membuf", "memmap"}
Devices == {"devFILE", "devFileno", "devInode", "subdev"} \cup OnMemory

\* data: impl.data, or the fence of a block device, is set.
Made(kind, on, owns) ==
  [kind |-> kind, data |-> TRUE, on |-> on, owns |-> owns, hook |-> FALSE]

NoFile == [is |-> "none", owner |-> "none"]

Piece(x, what) == <<x, what>>

\* The pieces of an object; a block device is a struct and its fence.
Pieces(x, kind) ==
  {Piece(x, "object")} \cup (IF kind = "blockdev" THEN {} ELSE {Piece(x, "meta")})
  \cup IF kind = "membuf" THEN {Piece(x, "buffer")} ELSE {}

Init ==
  /\ object = [x \in Objects |-> Gone]
  /\ file = [f \in Files |-> NoFile]
  /\ memory = {}
  /\ twice = FALSE

-----------------------------------------------------------------------------
(***************************************************************************)
(* What closing and finalizing do to a state s of these variables.         *)
(***************************************************************************)

State == [object |-> object, file |-> file, memory |-> memory, twice |-> twice]

Become(s) ==
  /\ object' = s.object /\ file' = s.file /\ memory' = s.memory /\ twice' = s.twice

\* A buffer may be a null pointer.
Free(s, pieces) ==
  [s EXCEPT !.memory = @ \ pieces,
            !.twice = @ \/ \E p \in pieces \ s.memory : p[2] # "buffer"]

Fclose(s, f) ==
  [s EXCEPT !.file[f].is = "closed", !.twice = @ \/ s.file[f].is # "FILE"]

\* Mutant: the client is called again when the object is closed again.
CallDtorAlways(s, x) ==
  IF s.object[x].hook THEN Free(s, {Piece(x, "client")}) ELSE s

\* client.dtor frees the client's data here; the client is emptied.
CallDtor(s, x) ==
  IF s.object[x].hook
  THEN [Free(s, {Piece(x, "client")}) EXCEPT !.object[x].hook = FALSE] ELSE s

\* Mutant: a FILE is closed whoever owns it.
CloseFileAlways(s, o) == IF o.kind \in OnFile THEN Fclose(s, o.on) ELSE s

CloseFile(s, o) == IF o.kind \in OnFile /\ o.owns THEN Fclose(s, o.on) ELSE s

\* The close of a device or of a stream, without what is below a stream.
CloseOne(s, x) ==
  LET o == s.object[x]
      c == CloseFile([CallDtor(s, x) EXCEPT !.object[x].data = FALSE], o)
  IN IF ~o.data
     THEN IF o.kind \in {"subdev", "streamFILE", "streamDev"} THEN s ELSE CallDtor(s, x)
     ELSE Free(c, Pieces(x, o.kind) \ {Piece(x, "object")})

FinalizeDevice(s, x) ==
  LET c == CloseOne(s, x)
  IN [Free(c, {Piece(x, "object")}) EXCEPT !.object[x] = Gone]

\* Mutant: the fence is finalized even where it is the parent.
CleanupAll(s, x) ==
  LET o == s.object[x]
      c == IF o.data THEN FinalizeDevice(s, o.on) ELSE s
  IN [c EXCEPT !.object[x] = [Gone EXCEPT !.kind = "blockdev"]]

\* owns: blocks.count is set, and the fence was made by whio_blockdev_setup.
Cleanup(s, x) ==
  LET o == s.object[x]
      c == IF o.data /\ o.owns THEN FinalizeDevice(s, o.on) ELSE s
  IN [c EXCEPT !.object[x] = [Gone EXCEPT !.kind = "blockdev"]]

Closed(s, x) ==
  LET o == s.object[x]
      c == CloseOne(s, x)
  IN CASE o.kind = "blockdev" -> Cleanup(s, x)
       [] o.kind = "streamDev" /\ o.data /\ o.owns -> FinalizeDevice(c, o.on)
       [] OTHER -> c

Finalized(s, x) ==
  [Free(Closed(s, x), {Piece(x, "object")}) EXCEPT !.object[x] = Gone]

-----------------------------------------------------------------------------
(***************************************************************************)
(* Making objects.                                                         *)
(***************************************************************************)

Free0 == {x \in Objects : object[x].kind = "gone"}
NewObject == CHOOSE x \in Free0 : \A y \in Free0 : x <= y
NextObject ==
  CHOOSE x \in Free0 \ {NewObject} : \A y \in Free0 \ {NewObject} : x <= y

Add(s, x, o) ==
  [s EXCEPT !.object[x] = o, !.memory = @ \cup Pieces(x, o.kind)]

\* Mutant: the first allocation stays when the second one fails.
AbandonObject(s, x) == [s EXCEPT !.memory = @ \cup {Piece(x, "object")}]

\* The second allocation failed: the first one is freed.
Abandon(s, x) ==
  Free([s EXCEPT !.memory = @ \cup {Piece(x, "object")}], {Piece(x, "object")})

\* whio_dev_for_FILE, whio_stream_for_FILE
ForFILE ==
  /\ Free0 # {}
  /\ \E f \in Files, take \in BOOLEAN, kind \in {"devFILE", "streamFILE"} :
       /\ file[f] = [is |-> "FILE", owner |-> "caller"]
       /\ \/ Become(State)
          \/ Become(Abandon(State, NewObject))
          \/ Become([Add(State, NewObject, Made(kind, f, take)) EXCEPT
                       !.file[f].owner = IF take THEN "object" ELSE "caller"])

\* whio_dev_for_file_impl: the memory is there before the file is opened, by its name
\* or from a descriptor.
DevForFile ==
  /\ Free0 # {}
  /\ \E f \in Files :
       /\ file[f] \in {NoFile, [is |-> "descriptor", owner |-> "caller"]}
       /\ \/ Become(State)
          \/ Become(Abandon(State, NewObject))
          \/ Become([Add(State, NewObject, Made("devFileno", f, TRUE)) EXCEPT
                       !.file[f] = [is |-> "FILE", owner |-> "object"]])

\* Mutant: a file that was opened stays open without memory for the stream.
GiveUpFILEOpen(s, f) == [s EXCEPT !.file[f] = [is |-> "FILE", owner |-> "object"]]

GiveUpFILE(s, f) == Fclose([s EXCEPT !.file[f] = [is |-> "FILE", owner |-> "object"]], f)

\* whio_stream_for_filename, whio_stream_for_fileno: the file is opened first.  A
\* descriptor is closed with it.
StreamForFile ==
  /\ Free0 # {}
  /\ \E f \in Files :
       /\ file[f] \in {NoFile, [is |-> "descriptor", owner |-> "caller"]}
       /\ \/ Become(State)
          \/ Become(GiveUpFILE(State, f))
          \/ Become(GiveUpFILE(Abandon(State, NewObject), f))
          \/ Become([Add(State, NewObject, Made("streamFILE", f, TRUE)) EXCEPT
                       !.file[f] = [is |-> "FILE", owner |-> "object"]])

Owned(x) == \E y \in Objects : object[y].on = x /\ object[y].kind \in OnDevice
                               /\ object[y].owns /\ object[y].data
InUse(x) == \E y \in Objects : object[y].on = x /\ object[y].kind \in OnDevice
                               /\ object[y].data
Held(x) == object[x].kind # "gone" /\ ~Owned(x)

\* whio_stream_for_dev, whio_dev_subdev_create
ForDevice ==
  /\ Free0 # {}
  /\ \E x \in Objects, take \in BOOLEAN, kind \in {"streamDev", "subdev"} :
       /\ object[x].kind \in Devices /\ Held(x)
       /\ take => kind = "streamDev" /\ ~InUse(x)
       /\ \/ Become(State)
          \/ Become(Abandon(State, NewObject))
          \/ Become(Add(State, NewObject, Made(kind, x, take)))

\* whio_dev_for_membuf, whio_dev_for_memmap.  A buffer that cannot be made is not
\* there when the device is finalized.
ForMemory ==
  /\ Free0 # {}
  /\ \E kind \in OnMemory :
       \/ Become(State)
       \/ Become(Abandon(State, NewObject))
       \/ /\ kind = "membuf"
          /\ LET s == Add(State, NewObject, Made(kind, 0, FALSE))
                 unmade == [s EXCEPT !.memory = @ \ {Piece(NewObject, "buffer")}]
             IN Become(FinalizeDevice(unmade, NewObject))
       \/ Become(Add(State, NewObject, Made(kind, 0, FALSE)))

\* whefs_dev_for_inode, when the inode can be opened.
DevForInode ==
  /\ Free0 # {}
  /\ \/ Become(State)
     \/ Become(Abandon(State, NewObject))
     \/ Become(Add(State, NewObject, Made("devInode", 0, FALSE)))

\* Mutant: without memory for the stream, the client's data is forgotten.
GiveUpDeviceBare(s, x) == FinalizeDevice([s EXCEPT !.object[x].hook = FALSE], x)

\* The client's data is freed first, and the destructor is not set yet.
GiveUpDevice(s, x) ==
  FinalizeDevice([Free(s, {Piece(x, "client")}) EXCEPT !.object[x].hook = FALSE], x)

\* whefs_stream_open: the device gets a client that takes the stream out of the list of
\* what is open, when the stream finalizes the device.
OpenStream ==
  /\ Cardinality(Free0) > 1
  /\ LET x == NewObject
         y == NextObject
         s == Add(State, x, Made("devInode", 0, FALSE))
         k == [s EXCEPT !.memory = @ \cup {Piece(x, "client")}, !.object[x].hook = TRUE]
     IN \/ Become(FinalizeDevice(s, x))
        \/ Become(GiveUpDevice(k, x))
        \/ Become(GiveUpDevice(Abandon(k, y), x))
        \/ Become(Add(k, y, Made("streamDev", x, TRUE)))

NewBlockdev ==
  /\ Free0 # {}
  /\ \/ Become(State)
     \/ Become(Add(State, NewObject, [Gone EXCEPT !.kind = "blockdev"]))

\* whio_blockdev_setup makes a fence, whio_blockdev_setup2 takes the parent for it.
SetupBlockdev ==
  /\ \E b, x \in Objects :
       /\ object[b].kind = "blockdev" /\ ~object[b].data
       /\ object[x].kind \in Devices /\ Held(x)
       /\ \/ Become([State EXCEPT !.object[b] = Made("blockdev", x, FALSE)])
          \/ /\ Free0 # {}
             /\ \/ Become(Abandon(State, NewObject))
                \/ Become([Add(State, NewObject, Made("subdev", x, FALSE)) EXCEPT
                             !.object[b] = Made("blockdev", NewObject, TRUE)])

-----------------------------------------------------------------------------
(***************************************************************************)
(* What the caller does with them.                                         *)
(***************************************************************************)

OpenItself ==
  \E f \in Files, is \in {"FILE", "descriptor"} :
    /\ file[f] = NoFile
    /\ file' = [file EXCEPT ![f] = [is |-> is, owner |-> "caller"]]
    /\ UNCHANGED <<object, memory, twice>>

CloseItself ==
  \E f \in Files :
    /\ file[f] = [is |-> "FILE", owner |-> "caller"]
    /\ ~\E x \in Objects : object[x].kind \in OnFile /\ object[x].on = f /\ object[x].data
    /\ Become(Fclose(State, f))


\* The client's data and its destructor.
SetClient ==
  \E x \in Objects :
    /\ object[x].kind \notin {"gone", "blockdev"} /\ object[x].data /\ ~object[x].hook
    /\ Become([State EXCEPT !.object[x].hook = TRUE,
                            !.memory = @ \cup {Piece(x, "client")}])


Close ==
  \E x \in Objects : Held(x) /\ Become(Closed(State, x))

Finalize ==
  \E x \in Objects :
    Held(x) /\ ~InUse(x) /\ Become(Finalized(State, x))

Next ==
  \/ ForFILE \/ DevForFile \/ StreamForFile \/ ForDevice \/ ForMemory
  \/ DevForInode \/ OpenStream \/ NewBlockdev \/ SetupBlockdev \/ OpenItself \/ CloseItself \/ SetClient
  \/ Close \/ Finalize

Spec == Init /\ [][Next]_vars

-----------------------------------------------------------------------------
Live(x) == object[x].kind # "gone"

PiecesOf(x) ==
  (IF object[x].data THEN Pieces(x, object[x].kind) ELSE {Piece(x, "object")})
  \cup IF object[x].hook THEN {Piece(x, "client")} ELSE {}

\* Nothing is given up twice, and nothing is lost, whichever allocation fails and in
\* whichever order objects are made, closed and finalized: the memory in use is that of
\* the objects there are, every open FILE has one owner that will close it, and what
\* an object is made of is there as long as it is.
HandlesSound ==
  /\ ~twice
  /\ memory = UNION {PiecesOf(x) : x \in {y \in Objects : Live(y)}}
  /\ \A f \in Files :
       LET owners == {x \in Objects : object[x].kind \in OnFile /\ object[x].on = f
                                      /\ object[x].data /\ object[x].owns}
       IN Cardinality(owners) = IF file[f] = [is |-> "FILE", owner |-> "object"] THEN 1
                                ELSE 0
  /\ \A x \in Objects : object[x].kind \in OnDevice /\ object[x].data => Live(object[x].on)
=============================================================================
