---------------------------- MODULE WhefsListing ----------------------------
(***************************************************************************)
(* Listing the files of a container: whefs_ls, which makes a chain of      *)
(* strings for its caller, and whefs_fs_entry_foreach, which calls back    *)
(* with each entry (whefs_client_util.c); and whefs_string.c, whose        *)
(* strings keep their memory to use it again.                              *)
(*                                                                         *)
(* Both go through the inodes one by one, a step for each, and the chain   *)
(* is given back in the end.  Reading a record or getting memory may fail. *)
(* A pattern is the set of the names it matches; WhGlob has the matching.  *)
(***************************************************************************)
EXTENDS Integers, Sequences, FiniteSets, SequencesExt

CONSTANTS
  LastId,    \* options.inode_count; inode 1 is the root
  Names,     \* names of files, sequences of characters without 0
  MaxName,   \* whefs_sizeof_max_filename
  Patterns,  \* the patterns asked for: sets of names
  Buffers,   \* addresses that malloc returns
  Stack,     \* the address of the array in whefs_fs_entry_foreach
  Null       \* no address

NamesAssumption ==
  /\ LastId \in Nat /\ MaxName \in Nat
  /\ \A s \in Names : s \in Seq(Nat \ {0}) /\ Len(s) \in 1..MaxName

AddressAssumption == Stack \notin Buffers /\ Null \notin Buffers \cup {Stack}

VARIABLES
  name,     \* inode -> its name in the names table
  used,     \* the inodes that are used
  call,     \* what is going on
  heap,     \* address -> the bytes there, or Freed
  the,      \* the string that names are read into
  chain,    \* the strings handed out, from the head on
  seen,     \* the entries a callback was called with
  lost      \* buffers nobody can give back

vars == <<name, used, call, heap, the, chain, seen, lost>>

Ids == 2..LastId
Freed == <<-1>>
Junk == -2
Addresses == Buffers \cup {Stack}

EmptyString == [buf |-> Null, length |-> 0]
Idle == [op |-> "none", of |-> "none", id |-> 2, pattern |-> {}, rc |-> "OK"]

\* The bytes up to the first 0, if there is one: what C takes for the string.
CString(b) == SubSeq(b, 1, SelectInSeq(b, LAMBDA c : c = 0) - 1)
Ends(b) == \E i \in DOMAIN b : b[i] = 0

Zeros(n) == [i \in 1..n |-> 0]
Padded(s, n) == s \o Zeros(n - Len(s))

Alloced(str) == IF str.buf = Null THEN 0 ELSE Len(heap[str.buf])

-----------------------------------------------------------------------------
(***************************************************************************)
(* whefs_string_copy_cstring.  A string that does not fit gets a new       *)
(* buffer, half as long again.                                             *)
(***************************************************************************)

\* Mutant: no room for the 0 is asked for.
FitsExactly(str, s) == Alloced(str) >= Len(s)

Fits(str, s) == Alloced(str) > Len(s)

Allocate(b, old, bytes) ==
  heap' = [a \in Addresses |-> IF a = b THEN bytes ELSE IF a = old THEN Freed ELSE heap[a]]

\* Mutant: what was behind a shorter string stays there.
CopyInPlaceLoose(str, s) ==
  heap' = [heap EXCEPT ![str.buf] = s \o SubSeq(@, Len(s) + 1, Len(@))]

CopyInPlace(str, s) == heap' = [heap EXCEPT ![str.buf] = Padded(s, Len(@))]

Copied(s) ==
  \/ /\ s = <<>> \/ Fits(the, s)
     /\ IF the.buf = Null THEN UNCHANGED heap ELSE CopyInPlace(the, s)
     /\ the' = [the EXCEPT !.length = Len(s)]
  \/ /\ s # <<>> /\ ~Fits(the, s)
     /\ \E b \in {b \in Buffers : heap[b] = Freed \/ b = the.buf} :
          /\ Allocate(b, the.buf, Padded(s, (3 * Len(s)) \div 2))
          /\ the' = [buf |-> b, length |-> Len(s)]

CopyFails(s) == s # <<>> /\ ~Fits(the, s)

\* whefs_string_clear
Clear(str) == heap' = [heap EXCEPT ![str.buf] = Freed]
Dropped(str) == IF str.buf = Null THEN UNCHANGED heap ELSE Clear(str)

Return(rc) == call' = [call EXCEPT !.op = "done", !.rc = rc]
GoOn == call' = [call EXCEPT !.id = @ + 1]

-----------------------------------------------------------------------------
(***************************************************************************)
(* whefs_ls.                                                               *)
(***************************************************************************)

Ls(p) ==
  /\ call.op = "none" /\ chain = <<>>
  /\ call' = [Idle EXCEPT !.op = "ls", !.of = "ls", !.pattern = p]
  /\ the' = EmptyString
  /\ seen' = <<>>
  /\ UNCHANGED <<name, used, heap, chain, lost>>

\* The name of the next inode is read first, used or not.
LsName ==
  /\ call.op = "ls" /\ call.id <= LastId
  /\ Copied(name[call.id])
  /\ call' = [call EXCEPT !.op = "ls_named"]
  /\ UNCHANGED <<name, used, chain, seen, lost>>

LsNameFails ==
  /\ call.op = "ls" /\ call.id <= LastId
  /\ Dropped(the)
  /\ the' = EmptyString
  /\ \E rc \in {"IOError"} \cup (IF CopyFails(name[call.id]) THEN {"AllocError"} ELSE {}) :
       Return(rc)
  /\ UNCHANGED <<name, used, chain, seen, lost>>

\* Whether the name matches.  whglob_matches reads the string to its 0, and past the
\* buffer if there is none.
Matches ==
  IF call.pattern = {} THEN {TRUE}
  ELSE IF the.buf = Null THEN {FALSE}
  ELSE IF Ends(heap[the.buf]) THEN {CString(heap[the.buf]) \in call.pattern}
  ELSE BOOLEAN

LsSkip ==
  /\ call.op = "ls_named"
  /\ FALSE \in Matches \/ call.id \notin used
  /\ call' = [call EXCEPT !.op = "ls", !.id = @ + 1]
  /\ UNCHANGED <<name, used, heap, the, chain, seen, lost>>

\* The inode cannot be read.
LsInodeFails ==
  /\ call.op = "ls_named"
  /\ TRUE \in Matches
  /\ Dropped(the)
  /\ the' = EmptyString
  /\ Return("IOError")
  /\ UNCHANGED <<name, used, chain, seen, lost>>

\* Mutant: the buffer stays with the string that was read into, too.
LsAppendShared ==
  /\ call.op = "ls_named"
  /\ TRUE \in Matches /\ call.id \in used
  /\ chain' = Append(chain, the)
  /\ call' = [call EXCEPT !.op = "ls", !.id = @ + 1]
  /\ UNCHANGED <<name, used, heap, the, seen, lost>>

\* Mutant: whether the inode is used is not looked at.
LsAppendAny ==
  /\ call.op = "ls_named"
  /\ TRUE \in Matches
  /\ chain' = Append(chain, the)
  /\ the' = EmptyString
  /\ call' = [call EXCEPT !.op = "ls", !.id = @ + 1]
  /\ UNCHANGED <<name, used, heap, seen, lost>>

\* A new string in the chain takes the buffer over.
LsAppend ==
  /\ call.op = "ls_named"
  /\ TRUE \in Matches /\ call.id \in used
  /\ chain' = Append(chain, the)
  /\ the' = EmptyString
  /\ call' = [call EXCEPT !.op = "ls", !.id = @ + 1]
  /\ UNCHANGED <<name, used, heap, seen, lost>>

\* There is no memory for one: what was listed is returned, and the name is lost.
LsAppendFails ==
  /\ call.op = "ls_named"
  /\ TRUE \in Matches /\ call.id \in used
  /\ lost' = lost \cup ({the.buf} \ {Null})
  /\ the' = EmptyString
  /\ Return("AllocError")
  /\ UNCHANGED <<name, used, heap, chain, seen>>

LsEnd ==
  /\ call.op = "ls" /\ call.id > LastId
  /\ Dropped(the)
  /\ the' = EmptyString
  /\ Return("OK")
  /\ UNCHANGED <<name, used, chain, seen, lost>>

\* The caller gives the chain back: whefs_string_finalize with all that follow.
Finalize ==
  /\ call.op = "done"
  /\ heap' = [a \in Addresses |->
                IF \E k \in DOMAIN chain : chain[k].buf = a THEN Freed ELSE heap[a]]
  /\ chain' = <<>>
  /\ call' = Idle
  /\ seen' = <<>>
  /\ UNCHANGED <<name, used, the, lost>>

-----------------------------------------------------------------------------
(***************************************************************************)
(* whefs_fs_entry_foreach.                                                 *)
(***************************************************************************)

\* Mutant: there is no room for a 0 behind the longest name.
BufSizeShort == MaxName

BufSize == MaxName + 1

\* The name is read into an array on the stack.
Foreach ==
  /\ call.op = "none" /\ chain = <<>>
  /\ call' = [Idle EXCEPT !.op = "foreach", !.of = "foreach"]
  /\ heap' = [heap EXCEPT ![Stack] = Zeros(BufSize)]
  /\ the' = [buf |-> Stack, length |-> 0]
  /\ seen' = <<>>
  /\ UNCHANGED <<name, used, chain, lost>>

ForeachSkip ==
  /\ call.op = "foreach" /\ call.id <= LastId
  /\ call.id \notin used
  /\ GoOn
  /\ UNCHANGED <<name, used, heap, the, chain, seen, lost>>

Visit ==
  /\ call.op = "foreach" /\ call.id \in used
  /\ Copied(name[call.id])
  /\ seen' = Append(seen, [id |-> call.id, name |-> CString(heap'[the'.buf])])
  /\ GoOn
  /\ UNCHANGED <<name, used, chain, lost>>

\* At the end, if something cannot be read, or if the callback says so.
ForeachEnd ==
  /\ call.op = "foreach"
  /\ Return(IF call.id > LastId THEN "OK" ELSE "Stopped")
  /\ heap' = [heap EXCEPT ![Stack] = Freed]
  /\ the' = EmptyString
  /\ UNCHANGED <<name, used, chain, seen, lost>>

-----------------------------------------------------------------------------
\* An inode without a file has no name.  One that is created and not named yet has
\* none either.
Init ==
  /\ used \in SUBSET Ids
  /\ name \in {n \in [Ids -> Names \cup {<<>>}] : \A id \in Ids \ used : n[id] = <<>>}
  /\ call = Idle
  /\ heap = [a \in Addresses |-> Freed]
  /\ the = EmptyString
  /\ chain = <<>>
  /\ seen = <<>>
  /\ lost = {}

Next ==
  \/ \E p \in Patterns : Ls(p)
  \/ LsName \/ LsNameFails \/ LsSkip \/ LsInodeFails
  \/ LsAppend \/ LsAppendFails \/ LsEnd
  \/ Finalize
  \/ Foreach \/ ForeachSkip \/ Visit \/ ForeachEnd

Spec == Init /\ [][Next]_vars

-----------------------------------------------------------------------------
(***************************************************************************)
(* Properties.                                                             *)
(***************************************************************************)

\* The bytes of a buffer up to its 0, or all of them.
BytesOf(b) == IF Ends(b) THEN CString(b) ELSE b

StringOf(str) == IF str.buf = Null THEN <<>> ELSE BytesOf(heap[str.buf])

\* Nothing went wrong.
Whole == call.op = "done" /\ call.rc = "OK"

\* s goes through inodes in their order and leaves none of ids out, up to where a call
\* is or has failed.
InOrder(s, ids) ==
  /\ \A j, k \in DOMAIN s : j < k => s[j] < s[k]
  /\ \A id \in ids : \/ \E k \in DOMAIN s : s[k] = id
                     \/ ~Whole /\ \A k \in DOMAIN s : s[k] < id

\* The inodes that are asked for, and those that may come along or be left out.  A name
\* of one character gets a buffer of one byte, so that whglob_matches reads past it.
Short(id) == Len(name[id]) <= 1
Asked ==
  IF call.pattern = {} THEN used
  ELSE {id \in used : ~Short(id) /\ name[id] \in call.pattern}
Unsure == {id \in used : Short(id)}

Listed ==
  \E s \in [DOMAIN chain -> Asked \cup Unsure] :
    /\ InOrder(s, Asked)
    /\ \A k \in DOMAIN s : StringOf(chain[k]) = name[s[k]]

Visited ==
  LET s == [k \in DOMAIN seen |-> seen[k].id]
  IN /\ InOrder(s, used)
     /\ \A k \in DOMAIN s : s[k] \in used /\ seen[k].name = name[s[k]]

\* What whefs_ls returns is, in the order of the inodes, the name of every used inode
\* that matches the pattern and of no other; a call that fails returns the beginning of
\* that, which its caller cannot tell from the whole.  Not so with a pattern for names of
\* one character and inodes without a name: these are listed or not by what is behind
\* their buffer, or by what was read before.  The callback of whefs_fs_entry_foreach gets
\* the used inodes in order.  Both see the bytes of each name and nothing of the one that
\* was read before it into the same string.
ListsUsed ==
  /\ call.of = "ls" => Listed
  /\ call.of = "foreach" => Visited

\* A 0 in every buffer ("+1 for the trailing NULL", whefs_string.h:41), for callers and
\* whglob_matches read it as a C string.  The code does not keep this for a name of one
\* character: 1 * 1.5 is 1, so its buffer is that character alone (whefs_string.c:49).
Closed(b) == Ends(b) \/ Len(b) = 1

Terminated ==
  \A k \in DOMAIN Append(chain, the) :
    LET b == Append(chain, the)[k].buf IN b = Null \/ Closed(heap[b])

\* Every buffer in use belongs to one string only, and no string has one that was
\* given back: a chain can be freed without freeing anything twice or leaving anything,
\* apart from the name that was read when memory ran out.  The strings are terminated,
\* but for a single character in a buffer of one byte, and whefs_fs_entry_foreach has
\* its array to the end, as it asserts.
BuffersOwned ==
  LET strings == Append(chain, the)
      owned == {strings[k].buf : k \in DOMAIN strings} \ {Null}
      live == {a \in Addresses : heap[a] # Freed}
  IN /\ live = owned \cup lost
     /\ \A i, k \in DOMAIN strings : strings[i].buf = strings[k].buf =>
          i = k \/ strings[i].buf = Null
     /\ Terminated
     /\ call.op = "foreach" => the.buf = Stack

\* A listing names what is there, in strings that are its own (whefs_ls,
\* whefs_fs_entry_foreach and the strings they read names into).  Names of one character
\* are an exception: against a pattern and for the 0 behind them, as said above.
ListsSound == ListsUsed /\ BuffersOwned
=============================================================================
