----------------------------- MODULE WhioEncode -----------------------------
(***************************************************************************)
(* How numbers, strings and packs are put on a device and read back        *)
(* (whio_encode.c), and the records that whefs makes of them.  A number is *)
(* a tag byte that names its type, followed by its bytes, the most         *)
(* significant one first.  The reader says what it expects, and tags are   *)
(* all that tells it that it is wrong.                                     *)
(*                                                                         *)
(* A data byte has Base values instead of 256, so that eight of them fit   *)
(* TLC's integers; a tag keeps its value.                                  *)
(***************************************************************************)
EXTENDS Integers, Sequences, SequencesExt

CONSTANTS
  Base,      \* how many values a byte has
  Capacity,  \* how many bytes the device takes
  MaxItems,  \* bound on what is stored
  Numbers,   \* the numbers tried, where a type has them
  Few,       \* those tried in packs and records
  Strings,   \* strings given to whio_dev_encode_cstring; a 0 ends the C string
  Formats,   \* formats of packs
  Names,     \* names of inodes, without a 0
  NameLength \* options.filename_length

BaseAssumption == Base \in Nat /\ Base >= 4 /\ Base % 2 = 0
NameAssumption ==
  \A s \in Names : Len(s) <= NameLength /\ \A i \in DOMAIN s : s[i] # 0

VARIABLES
  dev,   \* the bytes on the device
  items  \* what was stored: where, as what, and whether all of it fitted

vars == <<dev, items>>

-----------------------------------------------------------------------------
(***************************************************************************)
(* Numbers.                                                                *)
(***************************************************************************)

U64 == [tag |-> 192, width |-> 8, signed |-> FALSE]
I64 == [tag |-> 193, width |-> 8, signed |-> TRUE]
U32 == [tag |-> 160, width |-> 4, signed |-> FALSE]
I32 == [tag |-> 161, width |-> 4, signed |-> TRUE]
U16 == [tag |-> 144, width |-> 2, signed |-> FALSE]
I16 == [tag |-> 145, width |-> 2, signed |-> TRUE]
U8  == [tag |-> 136, width |-> 1, signed |-> FALSE]
I8  == [tag |-> 136, width |-> 1, signed |-> TRUE]
\* whefs_id_type where it has 8 bits; otherwise an id is one of those above.
Id8 == [tag |-> 8,   width |-> 1, signed |-> FALSE]

Types == {U64, I64, U32, I32, U16, I16, U8, I8, Id8}

Half(t) == Base ^ t.width \div 2
ValuesOf(t) == IF t.signed THEN -Half(t) .. Half(t) - 1 ELSE 0 .. 2 * Half(t) - 1

SizeOf(t) == 1 + t.width

\* Shifts are arithmetic, so a negative number has the bytes of its two's
\* complement.
Encode(t, n) ==
  <<t.tag>> \o [i \in 1..t.width |-> (n \div Base ^ (t.width - i)) % Base]

OK(val) == [rc |-> "OK", val |-> val]
Fails(rc) == [rc |-> rc, val |-> <<>>]

\* Mutant: the sum is taken as it is.
DecodeUnsigned(t, b) ==
  IF Head(b) # t.tag THEN Fails("ConsistencyError")
  ELSE OK(<<FoldLeft(LAMBDA n, byte : n * Base + byte, 0, Tail(b))>>)

\* The bytes, added up, are converted to the type.
Decode(t, b) ==
  LET sum == FoldLeft(LAMBDA n, byte : n * Base + byte, 0, Tail(b))
  IN IF Head(b) # t.tag THEN Fails("ConsistencyError")
     ELSE OK(<<IF t.signed /\ sum >= Half(t) THEN sum - 2 * Half(t) ELSE sum>>)

-----------------------------------------------------------------------------
(***************************************************************************)
(* On the device.                                                          *)
(***************************************************************************)

\* What is read of size bytes at a position; a short read is an error.
Fetched(at, size, decode(_)) ==
  IF at + size > Len(dev) THEN Fails("IOError")
  ELSE decode(SubSeq(dev, at + 1, at + size))

DevDecode(t, at) == Fetched(at, SizeOf(t), LAMBDA b : Decode(t, b))

StringTag == 162

\* The length, if it is not given, is that of the C string.
StringLen(s, n) ==
  LET ends == {i \in DOMAIN s : s[i] = 0} IN
  IF n # 0 THEN n ELSE IF ends = {} THEN Len(s) ELSE Min(ends) - 1

EncodeString(s, n) ==
  LET len == StringLen(s, n)
  IN <<StringTag>> \o Encode(U32, len) \o SubSeq(s, 1, len)

DecodeString(at) ==
  LET len == DevDecode(U32, at + 1) IN
  IF at >= Len(dev) THEN Fails("IOError")
  ELSE IF dev[at + 1] # StringTag THEN Fails("ConsistencyError")
  ELSE IF len.rc # "OK" THEN len
  ELSE Fetched(at + 1 + SizeOf(U32), len.val[1], OK)

-----------------------------------------------------------------------------
(***************************************************************************)
(* Packs: the numbers of a format, with how many there are in front.  They *)
(* are made in memory; the client writes and reads them whole.             *)
(***************************************************************************)

PackTag == 240

\* Numbers behind each other, of the types in fmt, and where number i begins.
EncodeAll(fmt, vals) == FlattenSeq([i \in 1..Len(fmt) |-> Encode(fmt[i], vals[i])])

Offset(fmt, i) == FoldLeft(LAMBDA n, t : n + SizeOf(t), 0, SubSeq(fmt, 1, i - 1))

SizeOfAll(fmt) == Offset(fmt, Len(fmt) + 1)

DecodeAll(fmt, b) ==
  LET got == [i \in 1..Len(fmt) |->
                Decode(fmt[i], SubSeq(b, Offset(fmt, i) + 1, Offset(fmt, i + 1)))]
  IN IF \E i \in 1..Len(fmt) : got[i].rc # "OK" THEN Fails("ConsistencyError")
     ELSE OK([i \in 1..Len(fmt) |-> got[i].val[1]])

PackHeader == 1 + SizeOf(U8)

PackSize(fmt) == PackHeader + SizeOfAll(fmt)

EncodePack(fmt, vals) == <<PackTag>> \o Encode(U8, Len(fmt)) \o EncodeAll(fmt, vals)

\* Mutant: how many numbers there are is not looked at.
DecodePackUncounted(fmt, b) ==
  IF Head(b) # PackTag THEN Fails("ConsistencyError")
  ELSE DecodeAll(fmt, SubSeq(b, PackHeader + 1, Len(b)))

DecodePack(fmt, b) ==
  LET count == Decode(U8, SubSeq(b, 2, PackHeader)) IN
  IF Head(b) # PackTag \/ count.rc # "OK" \/ count.val = <<0>> \/ count.val # <<Len(fmt)>>
  THEN Fails("ConsistencyError")
  ELSE DecodeAll(fmt, SubSeq(b, PackHeader + 1, Len(b)))

-----------------------------------------------------------------------------
(***************************************************************************)
(* Records of a container: a tag and numbers.  The name of an inode has a  *)
(* slot that is long enough for every name.                                *)
(***************************************************************************)

\* whefs_id_type as it is configured: 32 bits.
Id == U32

InodeTag == 73
InodeLayout == <<Id, U8, U32, U32, Id>>
BlockTag == 66
BlockLayout == <<Id, U8, Id>>
HintsTag == 72
HintsLayout == <<Id, Id>>

EncodeRecord(tag, fmt, vals) == <<tag>> \o EncodeAll(fmt, vals)

DecodeRecord(tag, fmt, at) ==
  Fetched(at, 1 + SizeOfAll(fmt),
          LAMBDA b : IF Head(b) # tag THEN Fails("ConsistencyError")
                     ELSE DecodeAll(fmt, Tail(b)))

\* A short read of an inode counts as a success; the client's inode, which was
\* empty, stays so.
InodeCut(at) == at + 1 + SizeOfAll(InodeLayout) > Len(dev)

DecodeInode(at) ==
  IF InodeCut(at) THEN OK([i \in 1..Len(InodeLayout) |-> 0])
  ELSE DecodeRecord(InodeTag, InodeLayout, at)

NameTag == 34
NameHeader == 1 + SizeOf(Id) + SizeOf(U16)

\* Mutant: the slot is not filled up.
EncodeNameUnfilled(id, s) == <<NameTag>> \o Encode(Id, id) \o Encode(U16, Len(s)) \o s

EncodeName(id, s) ==
  <<NameTag>> \o Encode(Id, id) \o Encode(U16, Len(s))
    \o [i \in 1..NameLength |-> IF i <= Len(s) THEN s[i] ELSE 0]

\* The id and the value of the length are not looked at: the name ends at a 0.
DecodeName(at) ==
  Fetched(at, NameHeader + NameLength,
          LAMBDA b :
            LET len == Decode(U16, SubSeq(b, NameHeader - SizeOf(U16) + 1, NameHeader))
                s == SubSeq(b, NameHeader + 1, Len(b))
            IN IF Head(b) # NameTag THEN Fails("ConsistencyError")
               ELSE IF len.rc # "OK" THEN len
               ELSE OK(SubSeq(s, 1, StringLen(s, 0))))

-----------------------------------------------------------------------------
(***************************************************************************)
(* What is stored as what: a number as its type, a pack or a record as the *)
(* types of its numbers.                                                   *)
(***************************************************************************)

Number == [kind : {"number"}, of : {<<t>> : t \in Types}]
Pack == [kind : {"pack"}, of : Formats]
String == [kind |-> "string", of |-> <<>>]
Inode == [kind |-> "inode", of |-> InodeLayout]
Block == [kind |-> "block", of |-> BlockLayout]
Hints == [kind |-> "hints", of |-> HintsLayout]
Name == [kind |-> "name", of |-> <<>>]
What == Number \cup Pack \cup {String, Inode, Block, Hints, Name}

Encoded(what, v) ==
  CASE what.kind = "number" -> Encode(what.of[1], v[1])
    [] what.kind = "pack"   -> EncodePack(what.of, v)
    [] what.kind = "inode"  -> EncodeRecord(InodeTag, what.of, v)
    [] what.kind = "block"  -> EncodeRecord(BlockTag, what.of, v)
    [] what.kind = "hints"  -> EncodeRecord(HintsTag, what.of, v)

\* Every item with its bytes.
Item(what, val, bytes) == [what |-> what, val |-> val, bytes |-> bytes]

Tried(what) ==
  LET set == IF what.kind = "number" THEN Numbers ELSE Few IN
  {v \in [1..Len(what.of) -> set] : \A i \in 1..Len(what.of) : v[i] \in ValuesOf(what.of[i])}

Items ==
  UNION {{Item(w, v, Encoded(w, v)) : v \in Tried(w)} : w \in What \ {String, Name}}
  \cup UNION {{Item(String, SubSeq(s, 1, StringLen(s, n)), EncodeString(s, n)) :
                 n \in 0..Len(s)} : s \in Strings}
  \cup {Item(Name, s, EncodeName(1, s)) : s \in Names}

\* What the client gets that takes what is at a position for what.
Decoded(what, at) ==
  CASE what.kind = "number" -> DevDecode(what.of[1], at)
    [] what.kind = "string" -> DecodeString(at)
    [] what.kind = "pack"   -> Fetched(at, PackSize(what.of), LAMBDA b : DecodePack(what.of, b))
    [] what.kind = "inode"  -> DecodeInode(at)
    [] what.kind = "block"  -> DecodeRecord(BlockTag, what.of, at)
    [] what.kind = "hints"  -> DecodeRecord(HintsTag, what.of, at)
    [] what.kind = "name"   -> DecodeName(at)

Init ==
  /\ dev = <<>>
  /\ items = <<>>

\* An item is written behind the others; the device takes what it has room for.
Store(x) ==
  LET room == Capacity - Len(dev)
      whole == Len(x.bytes) <= room
  IN /\ Len(items) < MaxItems
     /\ dev' = dev \o (IF whole THEN x.bytes ELSE SubSeq(x.bytes, 1, room))
     /\ items' = Append(items, [at |-> Len(dev), what |-> x.what, val |-> x.val, whole |-> whole])

\* An item is written where one of its kind is; a string only over one as long.
Replace(i, x) ==
  LET at == items[i].at IN
  /\ items[i].whole
  /\ items[i].what = x.what
  /\ x.what = String => Len(items[i].val) = Len(x.val)
  /\ dev' = SubSeq(dev, 1, at) \o x.bytes \o SubSeq(dev, at + Len(x.bytes) + 1, Len(dev))
  /\ items' = [items EXCEPT ![i].val = x.val]

Next == \E x \in Items : Store(x) \/ \E i \in DOMAIN items : Replace(i, x)

Spec == Init /\ [][Next]_vars

-----------------------------------------------------------------------------
(***************************************************************************)
(* Properties.                                                             *)
(***************************************************************************)

\* What was stored whole is read back as it was, whatever was there before and is
\* written over its neighbours: the decoders invert the encoders for every type, sign
\* and length, strings with a 0 inside included, and a name that is replaced by a
\* shorter one leaves nothing of itself.
RoundTrips ==
  \A i \in DOMAIN items :
    items[i].whole => Decoded(items[i].what, items[i].at) = OK(items[i].val)

OneByte == {U8, I8}

\* What was stored as something else, or not whole, is refused ("Differences will
\* cause the decoding process to return whio_rc.ConsistencyError", whio_encode.h).  The
\* two types of one byte have the same tag and cannot be told apart, and an inode
\* that is cut off is taken for an empty one.
TypesTold ==
  \A i \in DOMAIN items, asked \in What :
    LET what == items[i].what
        Like(s, t) == s = t \/ {s, t} \subseteq OneByte
    IN Decoded(asked, items[i].at).rc = "OK" /\ ~(asked = Inode /\ InodeCut(items[i].at)) =>
         /\ items[i].whole
         /\ what.kind = asked.kind
         /\ Len(what.of) = Len(asked.of)
         /\ \A k \in 1..Len(what.of) : Like(what.of[k], asked.of[k])

\* An item is told to whoever asks for what was stored, as it was stored, and to nobody
\* else (the encoders and decoders of whio_encode.c and of the records).
ItemsTold == RoundTrips /\ TypesTold
=============================================================================
