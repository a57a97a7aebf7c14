---------------------------- MODULE WhefsClosers ----------------------------
(***************************************************************************)
(* The list of what whefs_fs_finalize has to close.  Each device on a      *)
(* pseudofile has an entry, which is promoted when a whefs_file or a       *)
(* whio_stream is made of the device, for then that is what must be        *)
(* closed.  The list is doubly linked, fs->closers points into it, and     *)
(* closing an object takes its own entry out.                              *)
(*                                                                         *)
(* An object is named by its device; so is the entry.  An allocation may   *)
(* fail, which the code ignores: the object is not in the list then.       *)
(***************************************************************************)
EXTENDS Integers, FiniteSets

CONSTANTS
  Obj,  \* the devices, with the file or the stream that is made of each
  Nil   \* the null pointer

NilAssumption == Nil \notin Obj

VARIABLES
  open,       \* what each object is, "none" when it is closed
  list,       \* the entries (type, prev, next) and closers, a pointer to one
  closing,    \* the entry that whefs_fs_closer_list_close comes to next
  phase,      \* "open", "close" (the list), "inodes", "closed"
  autoClose,  \* closers_policy: whefs_fs_finalize closes the objects
  missed,     \* the objects for which there was no memory for an entry
  closed      \* how often each object was closed since it was opened

vars == <<open, list, closing, phase, autoClose, missed, closed>>

Kinds == {"dev", "file", "stream"}

NoList ==
  [type |-> [o \in Obj |-> "none"], prev |-> [o \in Obj |-> Nil],
   next |-> [o \in Obj |-> Nil], closers |-> Nil]

Init ==
  /\ open = [o \in Obj |-> "none"]
  /\ list = NoList
  /\ closing = Nil
  /\ phase = "open"
  /\ autoClose \in BOOLEAN
  /\ missed = {}
  /\ closed = [o \in Obj |-> 0]

-----------------------------------------------------------------------------
(***************************************************************************)
(* The list.                                                               *)
(***************************************************************************)

First(l, x) == LET f[y \in Obj] == IF l.prev[y] = Nil THEN y ELSE f[l.prev[y]] IN f[x]
Last(l, x) == LET f[y \in Obj] == IF l.next[y] = Nil THEN y ELSE f[l.next[y]] IN f[x]

\* The entries from x on.
Onward(l, x) ==
  LET f[y \in Obj] == {y} \cup (IF l.next[y] = Nil THEN {} ELSE f[l.next[y]])
  IN IF x = Nil THEN {} ELSE f[x]

\* The entries a search sees: it goes back to the first and on from there.
Entries(l) == IF l.closers = Nil THEN {} ELSE Onward(l, First(l, l.closers))

\* whefs_fs_closer_list_unlink.
Unlinked(l, o) ==
  LET p == l.prev[o]
      n == l.next[o]
  IN [l EXCEPT !.next = [x \in Obj |-> IF x = o THEN Nil ELSE IF x = p THEN n ELSE @[x]],
               !.prev = [x \in Obj |-> IF x = o THEN Nil ELSE IF x = n THEN p ELSE @[x]]]

\* whefs_fs_closer_list_free.
Freed(l, o) == [Unlinked(l, o) EXCEPT !.type[o] = "none"]

\* Mutant: the pointer only goes back.
RemovedBehind(l, o, k) ==
  IF o \in Entries(l) /\ l.type[o] = k
  THEN Freed([l EXCEPT !.closers = IF @ = o THEN l.prev[o] ELSE @], o)
  ELSE l

\* whefs_fs_closer_remove: the entry of o, if it has type k.
Removed(l, o, k) ==
  IF o \in Entries(l) /\ l.type[o] = k
  THEN Freed([l EXCEPT !.closers =
                IF @ # o THEN @ ELSE IF l.prev[o] # Nil THEN l.prev[o] ELSE l.next[o]], o)
  ELSE l

\* whefs_fs_closer_add: a new entry at the end.
Added(l, o, k) ==
  IF l.closers = Nil
  THEN [l EXCEPT !.closers = o, !.type[o] = k]
  ELSE LET t == Last(l, l.closers) IN
       [l EXCEPT !.type[o] = k, !.next[t] = o, !.prev[o] = t]

\* whefs_fs_closer_file_add and _stream_add: an empty list gets a new entry.
Promoted(l, o, k, mem) ==
  CASE l.closers # Nil /\ o \in Entries(l) /\ l.type[o] = "dev" -> [l EXCEPT !.type[o] = k]
    [] l.closers = Nil /\ mem -> Added(l, o, k)
    [] OTHER -> l

\* What closing object o does to the list: the file or the stream takes its
\* entry out, then the device does.
Deregistered(l, o) ==
  LET k == open[o] IN
  Removed(IF k = "dev" THEN l ELSE Removed(l, o, k), o, "dev")

-----------------------------------------------------------------------------
(***************************************************************************)
(* Calls.                                                                  *)
(***************************************************************************)

\* whefs_dev_open, whefs_fopen, whefs_stream_open.
Open(o, k) ==
  \E mem1, mem2 \in BOOLEAN :
    LET l1 == IF mem1 THEN Added(list, o, "dev") ELSE list
        l2 == IF k = "dev" THEN l1 ELSE Promoted(l1, o, k, mem2)
    IN /\ phase = "open"
       /\ open[o] = "none"
       /\ open' = [open EXCEPT ![o] = k]
       /\ list' = l2
       /\ missed' = IF l2.type[o] = "none" THEN missed \cup {o} ELSE missed \ {o}
       /\ closed' = [closed EXCEPT ![o] = 0]
       /\ UNCHANGED <<closing, phase, autoClose>>

Ended(o) ==
  /\ open' = [open EXCEPT ![o] = "none"]
  /\ closed' = [closed EXCEPT ![o] = @ + 1]

\* whefs_fclose, or finalize() of a device or a stream.
Close(o) ==
  /\ phase = "open"
  /\ open[o] # "none"
  /\ Ended(o)
  /\ list' = Deregistered(list, o)
  /\ UNCHANGED <<closing, phase, autoClose, missed>>

\* whefs_fs_setopt_autoclose_files.
SetAutoClose ==
  /\ phase = "open"
  /\ autoClose' = ~autoClose
  /\ UNCHANGED <<open, list, closing, phase, missed, closed>>

\* whefs_fs_finalize: the pointer is cleared before the list is closed.  Without
\* autoClose one entry is freed and the others are forgotten.
Begin ==
  LET c == list.closers IN
  /\ phase = "open"
  /\ phase' = IF autoClose /\ c # Nil THEN "close" ELSE "inodes"
  /\ closing' = IF autoClose /\ c # Nil THEN First(list, c) ELSE Nil
  /\ list' = IF autoClose \/ c = Nil
             THEN [list EXCEPT !.closers = Nil]
             ELSE [Freed(list, c) EXCEPT !.closers = Nil]
  /\ UNCHANGED <<open, autoClose, missed, closed>>

\* Mutant: the next entry is looked up when the link is gone.
CloseEntryCut ==
  LET o == closing
      l == Unlinked(list, o)
  IN /\ phase = "close"
     /\ Ended(o)
     /\ list' = Freed(Deregistered(l, o), o)
     /\ closing' = l.next[o]
     /\ phase' = IF l.next[o] = Nil THEN "inodes" ELSE "close"
     /\ UNCHANGED <<autoClose, missed>>

\* One turn of whefs_fs_closer_list_close.  Closing the object looks for its entry
\* again.
CloseEntry ==
  LET o == closing
      l == Unlinked(list, o)
  IN /\ phase = "close"
     /\ Ended(o)
     /\ list' = Freed(Deregistered(l, o), o)
     /\ closing' = list.next[o]
     /\ phase' = IF list.next[o] = Nil THEN "inodes" ELSE "close"
     /\ UNCHANGED <<autoClose, missed>>

\* The inodes still open are closed, but not what the client has of them.
CloseInodes ==
  /\ phase = "inodes"
  /\ phase' = "closed"
  /\ UNCHANGED <<open, list, closing, autoClose, missed, closed>>

\* The next session; what was not closed is lost.
Reopen ==
  /\ phase = "closed"
  /\ phase' = "open"
  /\ open' = [o \in Obj |-> "none"]
  /\ list' = NoList
  /\ missed' = {}
  /\ closed' = [o \in Obj |-> 0]
  /\ UNCHANGED <<closing, autoClose>>

Next ==
  \/ \E o \in Obj : (\E k \in Kinds : Open(o, k)) \/ Close(o)
  \/ SetAutoClose \/ Begin \/ CloseEntry \/ CloseInodes \/ Reopen

Spec == Init /\ [][Next]_vars

-----------------------------------------------------------------------------
(***************************************************************************)
(* Properties.                                                             *)
(***************************************************************************)

\* Wherever closers points, a search sees every open object as what the client has of
\* it, and nothing that is closed; links are mutual.
ListMatches ==
  phase = "open" =>
    /\ Entries(list) = {o \in Obj : open[o] # "none"} \ missed
    /\ \A o \in Entries(list) : list.type[o] = open[o]
    /\ \A o, p \in Obj : list.next[o] = p <=> list.prev[p] = o

\* whefs_fs_finalize closes what is open, as the client closes it, and nothing twice:
\* the list it goes through has just the objects that are open, although closing one
\* takes entries out.
ClosedOnce ==
  /\ ListMatches
  /\ \A o \in Obj : closed[o] <= 1 /\ (closed[o] = 1 => open[o] = "none")
  /\ phase = "close" => list.type[closing] = open[closing]
  /\ phase \in {"inodes", "closed"} /\ autoClose =>
       \A o \in Obj : open[o] # "none" => o \in missed
=============================================================================
