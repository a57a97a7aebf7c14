----------------------------- MODULE Directory -----------------------------
(***************************************************************************)
(* What the calls of whefs.h that take a file name promise, without hashes *)
(* and searches: a container is a set of inodes, each with a name or none. *)
(* A client asks for a name and gets an answer, which concerns a file of   *)
(* that very name, or none of that name.  Nothing here keeps two files     *)
(* from having one name: whefs_file_name_set does not look for another     *)
(* file of the new name, and then the name means either file.              *)
(***************************************************************************)
CONSTANTS
  Inode,   \* the client-usable inode ids
  Name,    \* the names of files
  NoName   \* the empty name, of an inode that is no file

VARIABLES
  name,     \* the names of the inodes: [Inode -> Name \cup {NoName}]
  readers,  \* the inodes opened for reading
  writers,  \* the inodes opened for reading and writing
  asked     \* the call that was made and has not returned: its op and name

vars == <<name, readers, writers, asked>>

Nothing  == [op |-> "none", name |-> NoName]
Named(n) == {i \in Inode : name[i] = n}

Init ==
  /\ name = [i \in Inode |-> NoName]
  /\ readers = {}
  /\ writers = {}
  /\ asked = Nothing

Ask(op, n) ==
  /\ asked = Nothing
  /\ asked' = [op |-> op, name |-> n]
  /\ UNCHANGED <<name, readers, writers>>

Answered(op) == asked.op = op /\ asked' = Nothing

\* whefs_fopen(fs, n, "r") opens a file of that name and fails only if there
\* is none.
OpenRead ==
  /\ Answered("read")
  /\ \/ \E i \in Named(asked.name) : readers' = readers \cup {i}
     \/ Named(asked.name) = {} /\ UNCHANGED readers
  /\ UNCHANGED <<name, writers>>

\* whefs_fopen(fs, n, "r+") opens a file of that name, unless it has a writer.
OpenWrite ==
  /\ Answered("write")
  /\ \E i \in Named(asked.name) : writers' = writers \cup {i}
  /\ UNCHANGED <<name, readers>>

\* It creates a file only if there is none, and may fail to.
Create ==
  /\ Answered("write")
  /\ Named(asked.name) = {}
  /\ \/ \E i \in Named(NoName) : /\ name' = [name EXCEPT ![i] = asked.name]
                                 /\ writers' = writers \cup {i}
     \/ UNCHANGED <<name, writers>>
  /\ UNCHANGED readers

\* whefs_unlink_filename removes a file that is not open, or fails.
Unlink ==
  /\ Answered("unlink")
  /\ \/ \E i \in Named(asked.name) \ (readers \cup writers) :
          name' = [name EXCEPT ![i] = NoName]
     \/ UNCHANGED name
  /\ UNCHANGED <<readers, writers>>

\* whefs_file_name_set renames a file that is open for writing.
Rename(i, n) ==
  /\ asked = Nothing
  /\ i \in writers
  /\ name' = [name EXCEPT ![i] = n]
  /\ UNCHANGED <<readers, writers, asked>>

Close(i) ==
  /\ asked = Nothing
  /\ \/ readers' = readers \ {i} /\ UNCHANGED writers
     \/ writers' = writers \ {i} /\ UNCHANGED readers
  /\ UNCHANGED <<name, asked>>

Remount ==
  /\ asked = Nothing
  /\ readers' = {}
  /\ writers' = {}
  /\ UNCHANGED <<name, asked>>

Next ==
  \/ \E op \in {"read", "write", "unlink"}, n \in Name : Ask(op, n)
  \/ OpenRead \/ OpenWrite \/ Create \/ Unlink
  \/ \E i \in Inode, n \in Name : Rename(i, n)
  \/ \E i \in Inode : Close(i)
  \/ Remount

Spec == Init /\ [][Next]_vars

=============================================================================
