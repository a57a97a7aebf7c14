------------------------------ MODULE WhioCopy ------------------------------
(***************************************************************************)
(* The loops that move data from a device or stream to another by way of a *)
(* buffer: whio_stream_copy, whio_dev_copy, whefs_fs_dump_to_FILE,         *)
(* whefs_import_dev, whio_stream_gzip and whio_stream_gunzip.  A read or a *)
(* write, with what the loop makes of its result, is one step.             *)
(*                                                                         *)
(* Any read may fail and then returns less than there is; any write may    *)
(* take less than it is given.  Of zlib there is what the loops rely on:   *)
(* it holds data back, and fills the output buffer it is given more than   *)
(* once.  A symbol of compressed data stands for two bytes.                *)
(***************************************************************************)
EXTENDS Integers, Sequences, SequencesExt

CONSTANTS
  BufSize,  \* bytes in the buffer of a loop
  MaxSize,  \* bound on the length of a source
  Content,  \* what a file that is imported over had in it
  FileBlock, \* bytes of a block of the container it is in
  End,      \* the symbol that ends compressed data
  Bad       \* a symbol that compressed data cannot have

CopyAssumption ==
  /\ BufSize \in Nat \ {0} /\ FileBlock \in Nat \ {0}
  /\ MaxSize \in Nat /\ Content \in Seq(Int)

VARIABLES
  op,      \* the loop
  data,    \* what there is in the source
  at,      \* the position of the source
  start,   \* where it was when the loop began
  failed,  \* the source has failed: isgood is false
  faults,  \* something has failed
  buf,     \* what was read and not written
  dest,    \* what there is in the destination, or Gone
  written, \* how much of it was written
  z,       \* the data in zlib, and what it made of them last
  pc, rc

vars == <<op, data, at, start, failed, faults, buf, dest, written, z, pc, rc>>

Gone == <<-1>>
Ops == {"stream_copy", "dev_copy", "dump", "import", "import_new", "gzip", "gunzip"}
Imports == {"import", "import_new"}

\* Plain data and what they are when they are compressed.
Plain(n) == [i \in 1..n |-> i]
Twice(s) == [i \in 1 .. 2 * Len(s) |-> s[(i + 1) \div 2]]
Compressed(s) == s \o <<End>>

Upto(s, n) == IF n < Len(s) THEN SubSeq(s, 1, n) ELSE s
From(s, i) == SubSeq(s, i, Len(s))
Zeros(n) == [i \in 1..n |-> 0]

Return(r) == pc' = "done" /\ rc' = r
Goto(l) == pc' = l /\ UNCHANGED rc

-----------------------------------------------------------------------------
(***************************************************************************)
(* The source and the destination.                                         *)
(***************************************************************************)

\* What a read of a whole buffer may bring.
Reads == {[got |-> Upto(From(data, at + 1), BufSize), fails |-> FALSE]}
         \cup {[got |-> Upto(From(data, at + 1), n), fails |-> TRUE] : n \in 0 .. BufSize - 1}

Take(r) ==
  /\ at' = at + Len(r.got)
  /\ failed' = (failed \/ r.fails)
  /\ faults' = (faults \/ r.fails)

\* The destination after the first n bytes of s are written to it.
Written(s, n) ==
  /\ dest' = SubSeq(dest, 1, written) \o SubSeq(s, 1, n) \o From(dest, written + n + 1)
  /\ written' = written + n

Put(s, whole) ==
  \E n \in 0 .. Len(s) :
    /\ whole = (n = Len(s))
    /\ Written(s, n)
    /\ faults' = (faults \/ ~whole)

-----------------------------------------------------------------------------
(***************************************************************************)
(* Plain copies.                                                           *)
(***************************************************************************)

\* Mutant: a device is copied from where it is.
StartHere ==
  /\ pc = "start" /\ op \notin Imports
  /\ Goto(IF op \in {"gzip", "gunzip"} THEN op ELSE "read")
  /\ UNCHANGED <<op, data, at, start, failed, faults, buf, dest, written, z>>

\* A stream goes on from where it is; a device and a container are read from their
\* beginning.
Start ==
  /\ pc = "start" /\ op \notin Imports
  /\ at' = IF op \in {"dev_copy", "dump"} THEN 0 ELSE at
  /\ Goto(IF op \in {"gzip", "gunzip"} THEN op ELSE "read")
  /\ UNCHANGED <<op, data, start, failed, faults, buf, dest, written, z>>

\* whio_stream_copy takes a read of nothing for an error, the others for the end.
ReadMore ==
  /\ pc = "read"
  /\ \E r \in Reads :
       /\ Take(r)
       /\ buf' = r.got
       /\ IF r.got # <<>> THEN Goto("write")
          ELSE IF op = "stream_copy" THEN Return("IOError")
          ELSE IF op \in Imports THEN Goto("verify")
          ELSE Return("OK")
  /\ UNCHANGED <<op, data, start, dest, written, z>>

\* Mutant: how much was written is not looked at.
WriteBlindly ==
  /\ pc = "write"
  /\ \E whole \in BOOLEAN :
       /\ Put(buf, whole)
       /\ IF op = "stream_copy" /\ Len(buf) < BufSize THEN Return("OK") ELSE Goto("read")
  /\ buf' = <<>>
  /\ UNCHANGED <<op, data, at, start, failed, z>>

\* whio_stream_copy ends with a buffer that is not full.
WriteBuf ==
  /\ pc = "write"
  /\ \E whole \in BOOLEAN :
       /\ Put(buf, whole)
       /\ IF ~whole THEN (IF op \in Imports THEN Goto("verify") ELSE Return("IOError"))
          ELSE IF op = "stream_copy" /\ Len(buf) < BufSize THEN Return("OK")
          ELSE Goto("read")
  /\ buf' = <<>>
  /\ UNCHANGED <<op, data, at, start, failed, z>>

-----------------------------------------------------------------------------
(***************************************************************************)
(* whefs_import_dev.                                                       *)
(***************************************************************************)

\* A file that was made for the import is removed when the import fails.
Removed(d) == IF op = "import_new" THEN Gone ELSE d

\* A file that is made shorter: the rest of its last block is wiped, and all of that block
\* when the new end is where a block ends (off % bs is 0).
CutBack(s) ==
  [k \in 1..Len(s) |->
     IF Len(s) % FileBlock = 0 /\ k > Len(s) - FileBlock THEN 0 ELSE s[k]]

\* Mutant: the file is not given its old size back.
NoRoomKept ==
  /\ pc = "start" /\ op \in Imports
  /\ Len(data) > Len(dest)
  /\ \E n \in Len(dest) .. Len(data) - 1 :
       dest' = Removed(dest \o Zeros(n - Len(dest)))
  /\ at' = start
  /\ faults' = TRUE
  /\ Return("WriteError")
  /\ UNCHANGED <<op, data, start, failed, buf, written, z>>

\* The file cannot be given the size of the source; it gets its old one back, and to do
\* so it is cut.
NoRoom ==
  /\ pc = "start" /\ op \in Imports
  /\ Len(data) > Len(dest)
  /\ \E n \in Len(dest) .. Len(data) - 1 :
       LET grown == dest \o Zeros(n - Len(dest))
       IN dest' = Removed(CutBack(SubSeq(grown, 1, Len(dest))))
  /\ at' = start
  /\ faults' = TRUE
  /\ Return("WriteError")
  /\ UNCHANGED <<op, data, start, failed, buf, written, z>>

SourceLost ==
  /\ pc = "start" /\ op \in Imports
  /\ dest' = Removed(dest)
  /\ faults' = TRUE
  /\ Return("RangeError")
  /\ UNCHANGED <<op, data, at, start, failed, buf, written, z>>

Resize ==
  /\ pc = "start" /\ op \in Imports
  /\ dest' = IF Len(data) < Len(dest) THEN CutBack(Upto(dest, Len(data)))
             ELSE dest \o Zeros(Len(data) - Len(dest))
  /\ IF data = <<>> THEN at' = start /\ Return("OK") ELSE at' = 0 /\ Goto("read")
  /\ UNCHANGED <<op, data, start, failed, faults, buf, written, z>>

\* All that was read must have been written.  The file has the size it was given, so
\* its size tells nothing.
Verify ==
  /\ pc = "verify"
  /\ LET rok == at = written IN
       /\ Return(IF rok THEN "OK" ELSE "IOError")
       /\ dest' = IF rok THEN dest ELSE Removed(dest)
  /\ at' = start
  /\ UNCHANGED <<op, data, start, failed, faults, buf, written, z>>

-----------------------------------------------------------------------------
(***************************************************************************)
(* whio_stream_gzip.                                                       *)
(***************************************************************************)

\* The first buffer that is not full is the last one, and zlib is told so.
GzipRead ==
  /\ pc = "gzip"
  /\ \E r \in Reads :
       /\ Take(r)
       /\ IF r.fails THEN Return("Z_ERRNO") /\ UNCHANGED z
          ELSE LET finish == Len(r.got) < BufSize IN
            /\ z' = [z EXCEPT !.pending = @ \o r.got \o (IF finish THEN <<End>> ELSE <<>>),
                              !.finish = finish]
            /\ Goto("deflate")
  /\ UNCHANGED <<op, data, start, buf, dest, written>>

\* deflate gives as much as it likes, until it is told to finish.
Deflate ==
  /\ pc = "deflate"
  /\ \E n \in 0 .. BufSize :
       /\ n <= Len(z.pending)
       /\ z.finish => n = Len(Upto(z.pending, BufSize))
       /\ buf' = SubSeq(z.pending, 1, n)
       /\ z' = [z EXCEPT !.pending = From(@, n + 1),
                         !.ret = IF z.finish /\ n = Len(z.pending) THEN "END" ELSE "OK"]
  /\ Goto("gzip_write")
  /\ UNCHANGED <<op, data, at, start, failed, faults, dest, written>>

\* Mutant: zlib is asked once for each buffer that is read.
GzipWriteOnce ==
  /\ pc = "gzip_write"
  /\ \E whole \in BOOLEAN :
       /\ Put(buf, whole)
       /\ IF ~whole THEN Return("Z_ERRNO")
          ELSE IF ~z.finish THEN Goto("gzip")
          ELSE Return("OK")
  /\ buf' = <<>>
  /\ UNCHANGED <<op, data, at, start, failed, z>>

\* Mutant: what zlib said last is returned as it is.
GzipWriteRaw ==
  /\ pc = "gzip_write"
  /\ \E whole \in BOOLEAN :
       /\ Put(buf, whole)
       /\ IF ~whole THEN Return("Z_ERRNO")
          ELSE IF Len(buf) = BufSize THEN Goto("deflate")
          ELSE IF ~z.finish THEN Goto("gzip")
          ELSE Return(z.ret)
  /\ buf' = <<>>
  /\ UNCHANGED <<op, data, at, start, failed, z>>

\* zlib is asked again while it fills the buffer.
GzipWrite ==
  /\ pc = "gzip_write"
  /\ \E whole \in BOOLEAN :
       /\ Put(buf, whole)
       /\ IF ~whole THEN Return("Z_ERRNO")
          ELSE IF Len(buf) = BufSize THEN Goto("deflate")
          ELSE IF ~z.finish THEN Goto("gzip")
          ELSE Return(IF z.ret = "END" THEN "OK" ELSE z.ret)
  /\ buf' = <<>>
  /\ UNCHANGED <<op, data, at, start, failed, z>>

-----------------------------------------------------------------------------
(***************************************************************************)
(* whio_stream_gunzip.                                                     *)
(***************************************************************************)

\* Mutant: that nothing was read is not looked at.
GunzipReadOn ==
  /\ pc = "gunzip"
  /\ \E r \in Reads :
       /\ Take(r)
       /\ z' = [z EXCEPT !.in = r.got]
       /\ IF r.fails THEN Return("Z_ERRNO") ELSE Goto("inflate")
  /\ UNCHANGED <<op, data, start, buf, dest, written>>

\* The end of the source comes before that of the data.
GunzipRead ==
  /\ pc = "gunzip"
  /\ \E r \in Reads :
       /\ Take(r)
       /\ z' = [z EXCEPT !.in = r.got]
       /\ IF r.fails THEN Return("Z_ERRNO")
          ELSE IF r.got = <<>> THEN Return("Z_DATA_ERROR")
          ELSE Goto("inflate")
  /\ UNCHANGED <<op, data, start, buf, dest, written>>

\* inflate gives all it can, and goes no further than the end of the data.
Inflate ==
  /\ pc = "inflate"
  /\ LET stop == SelectInSeq(z.in, LAMBDA c : c \in {End, Bad})
         good == IF stop = 0 THEN z.in ELSE SubSeq(z.in, 1, stop - 1)
         all == z.pending \o Twice(good)
         out == Upto(all, BufSize)
         emptied == Len(out) = Len(all)
         ret == IF z.ret = "END" THEN "END"
                ELSE IF stop # 0 /\ emptied THEN (IF z.in[stop] = End THEN "END" ELSE "Z_DATA_ERROR")
                ELSE "OK"
     IN /\ z' = [z EXCEPT !.pending = From(all, Len(out) + 1), !.ret = ret,
                          !.in = IF stop # 0 /\ ~emptied THEN From(z.in, stop) ELSE <<>>]
        /\ IF ret = "Z_DATA_ERROR" THEN Return(ret) /\ UNCHANGED buf
           ELSE buf' = out /\ Goto("gunzip_write")
  /\ UNCHANGED <<op, data, at, start, failed, faults, dest, written>>

\* Mutant: the end of the data is looked at before the buffer is.
GunzipWriteEager ==
  /\ pc = "gunzip_write"
  /\ \E whole \in BOOLEAN :
       /\ Put(buf, whole)
       /\ IF ~whole THEN Return("Z_ERRNO")
          ELSE IF End \in Range(z.in) \/ z.ret = "END" THEN Return("OK")
          ELSE IF Len(buf) = BufSize THEN Goto("inflate")
          ELSE Goto("gunzip")
  /\ buf' = <<>>
  /\ UNCHANGED <<op, data, at, start, failed, z>>

GunzipWrite ==
  /\ pc = "gunzip_write"
  /\ \E whole \in BOOLEAN :
       /\ Put(buf, whole)
       /\ IF ~whole THEN Return("Z_ERRNO")
          ELSE IF Len(buf) = BufSize THEN Goto("inflate")
          ELSE IF z.ret = "END" THEN Return("OK")
          ELSE Goto("gunzip")
  /\ buf' = <<>>
  /\ UNCHANGED <<op, data, at, start, failed, z>>

-----------------------------------------------------------------------------
\* Sources: plain data; compressed data that are whole, cut off, followed by
\* something else or damaged.
Sources(o) ==
  {Plain(n) : n \in 0..MaxSize}
  \cup IF o # "gunzip" THEN {}
       ELSE {Compressed(Plain(n)) : n \in 0..MaxSize}
            \cup {Compressed(Plain(n)) \o <<n + 1>> : n \in 0..MaxSize}
            \cup {Plain(n) \o <<Bad, End>> : n \in 0..MaxSize}

Init ==
  /\ op \in Ops
  /\ data \in Sources(op)
  /\ at \in IF op \in {"gzip", "gunzip"} THEN {0} ELSE 0..Len(data)
  /\ start = at
  /\ dest = IF op = "import" THEN Content ELSE <<>>
  /\ failed = FALSE /\ faults = FALSE
  /\ buf = <<>> /\ written = 0
  /\ z = [in |-> <<>>, pending |-> <<>>, finish |-> FALSE, ret |-> "OK"]
  /\ pc = "start" /\ rc = "none"

Next ==
  \/ Start \/ ReadMore \/ WriteBuf
  \/ NoRoom \/ SourceLost \/ Resize \/ Verify
  \/ GzipRead \/ Deflate \/ GzipWrite
  \/ GunzipRead \/ Inflate \/ GunzipWrite

Spec == Init /\ [][Next]_vars

\* A loop is a call that runs by itself.
FairSpec == Spec /\ WF_vars(Next)

-----------------------------------------------------------------------------
(***************************************************************************)
(* Properties.                                                             *)
(***************************************************************************)

\* Where the compressed data are over.
Stop(s) ==
  LET stop == SelectInSeq(s, LAMBDA c : c \in {End, Bad})
  IN IF stop = 0 THEN Len(s) + 1 ELSE stop

\* What the destination should have in the end.
Expected ==
  CASE op = "stream_copy" -> From(data, start + 1)
    [] op = "gzip" -> Compressed(data)
    [] op = "gunzip" -> Twice(SubSeq(data, 1, Stop(data) - 1))
    [] OTHER -> data

\* What has been written is the beginning of what should be, at every moment and
\* wherever the loop is given up: nothing is left out, doubled or out of order.
InOrder == dest # Gone => IsPrefix(SubSeq(dest, 1, written), Expected)

WellFormed == op = "gunzip" => Bad \notin Range(data) /\ End \in Range(data)

\* A loop that reports success has moved everything, and where nothing fails success
\* is reported.  The loops that copy cannot tell a source that fails from one that
\* ends (those that compress ask), and whio_stream_copy fails if its last buffer is
\* full or empty.
SuccessTold ==
  pc = "done" =>
    /\ rc = "OK" /\ (failed => op \in {"gzip", "gunzip"}) => dest = Expected
    /\ /\ ~faults /\ WellFormed
       /\ op = "stream_copy" => (Len(data) - start) % BufSize # 0
       => rc = "OK"

\* The last block of the content that was there, when it is a full one.
InFullLastBlock(k) == Len(Content) % FileBlock = 0 /\ k > Len(Content) - FileBlock

\* An import that fails leaves no new file behind; a source that cannot be rewound
\* leaves an older file as it was.  One that could not be expanded is "kept intact, with
\* its old size" by whefs_client_util.h:69-71, and that is not so: its size is kept, and
\* what it had in it but for a last block that was full, which whefs_import_dev wipes
\* when it cuts the file back.  The cursor of the source is where it was ("re-set src's
\* cursor to its pre-call position").
ImportUndone ==
  pc = "done" /\ op \in Imports =>
    /\ rc # "OK" /\ op = "import_new" => dest = Gone
    /\ rc = "RangeError" /\ op = "import" => dest = Content
    /\ rc = "WriteError" /\ op = "import" =>
         /\ Len(dest) = Len(Content)
         /\ \A k \in 1..Len(Content) : dest[k] = Content[k] \/ InFullLastBlock(k)
    /\ at = start

\* Every loop comes to an end, whatever the source has in it.
Terminates == <>(pc = "done")

\* A copy is a beginning of what it should be at every moment, and all of it when the
\* loop says so (the loops of whio_dev.c, whio_stream.c, whio_zlib.c and of imports).
CopiesTold == InOrder /\ SuccessTold
=============================================================================
