----------------------------- MODULE WhefsApps ------------------------------
(***************************************************************************)
(* The command line tools on a container: ls, cp, rm, cat, mkfs and        *)
(* addblocks, from the first argument to the functions that run at exit.   *)
(* WHEFSApp_init goes through the arguments in order; the first one that   *)
(* is not a flag is the container, which most tools open at once.  Then    *)
(* the tool works on one file after the other, and stops at the first that *)
(* fails.  Memory, files and the container may fail at any step.           *)
(***************************************************************************)
EXTENDS Integers, Sequences, FiniteSets

CONSTANTS
  Commands,             \* command lines: the tool and its arguments
  Containers,           \* what the container may hold at first, NoContainer among them
  LocalFiles,           \* the contents of local files there may be
  Matched,              \* the names that each argument matches as a pattern
  TooLong,              \* names that are longer than the container takes
  BlockSize,            \* options.block_size
  MaxId,                \* the largest whefs_id_type
  MaxNameLength,        \* WHEFS_MAX_FILENAME_LENGTH
  ThisApp_MAX_COMMANDS  \* room for what ls is to show

VARIABLES
  command,    \* the command line
  args,       \* what is left of it
  container,  \* what is in the container
  local,      \* the contents of local files, NoFile for those there are not
  before,     \* container and local at first
  fsName,     \* WHEFSApp.fsName is set
  fs,         \* WHEFSApp.fs is "none", "ro" or "rw"
  fe,         \* WHEFSApp.fe: the files that are left to work on
  opts,       \* what the flags have set
  found,      \* the list rm works on
  out,        \* what was written to stdout
  swallowed,  \* something failed that the tool does not notice
  phase,      \* "init", "main", "files", "unlink", "exit", "done" or "aborted"
  code        \* the exit code

vars == <<command, args, container, local, before, fsName, fs, fe, opts, found, out,
          swallowed, phase, code>>

-----------------------------------------------------------------------------
NoContainer == [files |-> <<>>, blocks |-> 0]
NoFile == <<-1>>
Free == [name |-> "", data |-> <<>>, chain |-> <<>>, used |-> FALSE]

\* The files of inodes 2 and up, chain having the blocks of each.
Entry(name, data, chain) == [name |-> name, data |-> data, chain |-> chain, used |-> TRUE]

Tool == command.tool
Inodes == DOMAIN container.files
File(id) == container.files[id]
Named(c, n) == {id \in DOMAIN c.files : c.files[id].used /\ c.files[id].name = n}
DataOf(c, n) == c.files[CHOOSE id \in Named(c, n) : TRUE].data
UsedBlocks == UNION {{File(id).chain[k] : k \in DOMAIN File(id).chain} : id \in Inodes}

\* Block and inode counts and the length of names are those of mkfs.
NoOpts == [exportMode |-> FALSE, dryRun |-> FALSE, ignoreMissing |-> FALSE,
           oneMode |-> FALSE, did |-> FALSE, funcs |-> <<>>, count |-> 0,
           blocks |-> 2, inodes |-> 2, length |-> 1]

Init ==
  /\ command \in Commands
  /\ args = command.args
  /\ container \in Containers
  /\ local \in LocalFiles
  /\ before = [container |-> container, local |-> local]
  /\ fsName = FALSE /\ fs = "none" /\ fe = <<>>
  /\ opts = NoOpts
  /\ found = <<>> /\ out = <<>>
  /\ swallowed = FALSE
  /\ phase = "init" /\ code = "OK"

Exit(rc) == phase' = "exit" /\ code' = rc
Goto(p) == phase' = p /\ UNCHANGED code

Same == UNCHANGED <<command, before>>
SameData == UNCHANGED <<container, local, out, swallowed>>

-----------------------------------------------------------------------------
(***************************************************************************)
(* WHEFSApp_init.                                                          *)
(***************************************************************************)

OpenMode ==
  CASE Tool \in {"ls", "cat"}       -> "ro"
    [] Tool \in {"rm", "addblocks"} -> "rw"
    [] OTHER                        -> "none"

\* The arrays of ArgSpec: what a flag sets, and how its value is converted.
Spec(target, type) == [target |-> target, type |-> type]

Shows == {"1", "i", "b", "B", "s", "dump-mkfs-command", "dump-options-code"}

ArgSpecs ==
  CASE Tool = "cp" /\ Head(args).key = "i" -> Spec("exportMode", "BoolInvert")
    [] Tool = "cp" /\ Head(args).key = "x" -> Spec("exportMode", "Bool")
    [] Tool = "rm" /\ Head(args).key = "n" -> Spec("dryRun", "Bool")
    [] Tool = "rm" /\ Head(args).key = "m" -> Spec("ignoreMissing", "Bool")
    [] Tool = "mkfs" /\ Head(args).key = "n" -> Spec("dryRun", "Bool")
    [] Tool = "mkfs" /\ Head(args).key = "i" -> Spec("inodes", "Number")
    [] Tool = "mkfs" /\ Head(args).key = "c" -> Spec("blocks", "Number")
    [] Tool = "mkfs" /\ Head(args).key = "s" -> Spec("length", "Number")
    [] Tool = "addblocks" /\ Head(args).key = "a" -> Spec("count", "Number")
    [] Tool = "ls" /\ Head(args).key = "1" -> Spec("oneMode", "Bool")
    [] Tool = "ls" /\ Head(args).key \in Shows \cup {"dump-core-magic"} ->
         Spec("none", "Ignore")
    [] OTHER -> Spec("none", "Unknown")

\* A flag without a value is true, and a number must be there and be one.
ConvertFails(s, val) == s.type = "Number" /\ (~val.given \/ val.number < 0)

\* Mutant: a flag that inverts is taken like any other.
ValueStraight(s, val) ==
  IF s.type = "Number" THEN val.number ELSE ~val.given \/ val.yes

Value(s, val) ==
  CASE s.type = "Number"     -> val.number
    [] s.type = "Bool"       -> ~val.given \/ val.yes
    [] s.type = "BoolInvert" -> ~(~val.given \/ val.yes)

Flag ==
  LET a == Head(args)
      s == ArgSpecs
      o == IF s.target = "none" THEN opts
           ELSE [opts EXCEPT ![s.target] = Value(s, a.val)]
  IN /\ a.kind = "flag"
     /\ UNCHANGED <<container, local, swallowed, fsName, fs, fe, found>>
     /\ IF a.key = "V" THEN Exit("OK") /\ UNCHANGED <<opts, out>>
        ELSE IF s.type = "Unknown" \/ ConvertFails(s, a.val)
             THEN Exit("Error") /\ UNCHANGED <<opts, out>>
        ELSE IF Tool = "ls" /\ a.key \in Shows
             THEN \* ls_arg_push_cb
                  /\ opts' = [o EXCEPT !.did = TRUE, !.funcs = Append(@, a.key)]
                  /\ IF Len(o.funcs) < ThisApp_MAX_COMMANDS THEN Goto("init")
                     ELSE Goto("aborted")
                  /\ UNCHANGED out
        ELSE /\ opts' = o
             /\ out' = IF s.type = "Ignore" THEN Append(out, a.key) ELSE out
             /\ Goto("init")

\* WHEFSApp_openfs
OpenFs(mode) ==
  \/ container # NoContainer /\ fs' = mode /\ Goto(IF phase = "init" THEN "init" ELSE "files")
  \/ fs' = "none" /\ Exit("Error")

Name ==
  /\ Head(args).kind = "name"
  /\ UNCHANGED <<opts, found>> /\ SameData
  /\ IF ~fsName
     THEN /\ fsName' = TRUE
          /\ UNCHANGED fe
          /\ IF OpenMode = "none" THEN Goto("init") /\ UNCHANGED fs ELSE OpenFs(OpenMode)
     ELSE \* WHEFSApp_fe_append
          /\ UNCHANGED <<fsName, fs>>
          /\ \/ fe' = Append(fe, Head(args).val) /\ Goto("init")
             \/ UNCHANGED fe /\ Exit("Error")

Help ==
  /\ Head(args).kind = "help"
  /\ Exit("OK")
  /\ UNCHANGED <<opts, found, fsName, fs, fe>> /\ SameData

Argument ==
  /\ phase = "init" /\ args # <<>>
  /\ args' = Tail(args)
  /\ Flag \/ Name \/ Help
  /\ Same

\* Without any argument the help is shown too, with an error.
InitEnds ==
  /\ phase = "init" /\ args = <<>>
  /\ IF command.args = <<>> \/ (~fsName /\ OpenMode # "none") THEN Exit("Error")
     ELSE Goto("main")
  /\ UNCHANGED <<args, opts, found, fsName, fs, fe>> /\ SameData /\ Same

-----------------------------------------------------------------------------
(***************************************************************************)
(* cp                                                                      *)
(***************************************************************************)

Still == UNCHANGED <<args, opts, fsName>> /\ Same

CpMain ==
  /\ phase = "main" /\ Tool = "cp"
  /\ IF fe = <<>> THEN Exit("Error") /\ UNCHANGED fs
     ELSE OpenFs(IF opts.exportMode THEN "ro" ELSE "rw")
  /\ UNCHANGED <<fe, found>> /\ SameData /\ Still

Put(id, e) == [container EXCEPT !.files[id] = e]

\* The chains that hold data and begin with what there is of the old one.
ChainsFor(data, old) ==
  LET n    == (Len(data) + BlockSize - 1) \div BlockSize
      free == 1..container.blocks \ UsedBlocks
      keep == SubSeq(old, 1, IF n < Len(old) THEN n ELSE Len(old))
      more == {m \in [1..n - Len(keep) -> free] : \A j, k \in DOMAIN m : m[j] = m[k] => j = k}
  IN {keep \o m : m \in more}

\* Mutant: a name that does not fit is cut.
NameFitsAlways(n) == TRUE

NameFits(n) == n \notin TooLong

\* whefs_import_dev: a file that is new is removed again when something fails, except when
\* its name does not fit or it cannot be opened, and of one that is not, anything may be
\* left.  A read that fails leaves zeros.
Import(n, data) ==
  LET old  == Named(container, n)
      free == {i \in Inodes : ~File(i).used}
      id   == IF old # {} THEN CHOOSE i \in old : TRUE ELSE CHOOSE i \in free : \A j \in free : i <= j
      e    == IF old # {} THEN File(id) ELSE Entry(n, <<>>, <<>>)
      full == [k \in 1..Len(data) |-> 0]
  IN IF old = {} /\ free = {} THEN UNCHANGED <<container, swallowed>> /\ Exit("Error")
     ELSE IF old = {} /\ ~NameFits(n)
          THEN /\ container' = Put(id, [e EXCEPT !.name = ""]) /\ UNCHANGED swallowed
               /\ Exit("Error")
     ELSE \/ \E c \in ChainsFor(data, e.chain) :
               \/ /\ container' = Put(id, Entry(n, data, c))
                  /\ UNCHANGED swallowed /\ Goto("files")
               \/ /\ data # <<>> /\ container' = Put(id, Entry(n, full, c))
                  /\ swallowed' = TRUE /\ Goto("files")
               \/ /\ old # {} /\ container' = Put(id, Entry(n, full, c))
                  /\ UNCHANGED swallowed /\ Exit("Error")
          \/ /\ container' = Put(id, IF old # {} THEN e ELSE Free)
             /\ UNCHANGED swallowed /\ Exit("Error")
          \/ container' = Put(id, e) /\ UNCHANGED swallowed /\ Exit("Error")

CpImport ==
  /\ phase = "files" /\ Tool = "cp" /\ ~opts.exportMode /\ fe # <<>>
  /\ IF local[Head(fe)] = NoFile THEN UNCHANGED <<container, swallowed>> /\ Exit("Error")
     ELSE \/ Import(Head(fe), local[Head(fe)])
          \/ UNCHANGED <<container, swallowed>> /\ Exit("Error")
  /\ fe' = Tail(fe)
  /\ UNCHANGED <<local, out, fs, found>> /\ Still

\* Mutant: what the file had beyond the end stays.
WrittenOver(n, data) == [local EXCEPT ![n] = data \o SubSeq(@, Len(data) + 1, Len(@))]

\* The local file is empty before the first byte is written.
Written(n, data) == [local EXCEPT ![n] = data]

\* The pseudofile is opened first, so a missing one leaves the local file alone.
CpExport ==
  /\ phase = "files" /\ Tool = "cp" /\ opts.exportMode /\ fe # <<>>
  /\ LET n == Head(fe)
     IN \/ UNCHANGED local /\ Exit("Error")
        \/ /\ Named(container, n) # {}
           /\ LET data == DataOf(container, n)
              IN \/ local' = Written(n, data) /\ Goto("files")
                 \/ \E k \in 0..Len(data) :
                      local' = Written(n, SubSeq(data, 1, k)) /\ Exit("Error")
  /\ fe' = Tail(fe)
  /\ UNCHANGED <<container, out, swallowed, fs, found>> /\ Still

\* The loops of cp, rm and cat end.
FilesEnd ==
  /\ phase = "files" /\ Tool \in {"cp", "rm", "cat"} /\ fe = <<>>
  /\ Exit("OK")
  /\ UNCHANGED <<fe, fs, found>> /\ SameData /\ Still

-----------------------------------------------------------------------------
(***************************************************************************)
(* rm and cat                                                              *)
(***************************************************************************)

\* The names of files that match, in the order of the inodes.
Listed(c, patterns) ==
  LET Lists[id \in 1..Len(c.files)] ==
        LET rest == IF id = 1 THEN <<>> ELSE Lists[id - 1]
            f    == c.files[id]
        IN IF f.used /\ f.name # "" /\ \E p \in patterns : f.name \in Matched[p]
           THEN Append(rest, f.name) ELSE rest
  IN IF c.files = <<>> THEN <<>> ELSE Lists[Len(c.files)]

RmMain ==
  /\ phase = "main" /\ Tool = "rm"
  /\ Goto("files")
  /\ UNCHANGED <<fe, fs, found>> /\ SameData /\ Still

\* whefs_ls gives what it has when reading a name fails.
RmMatch ==
  /\ phase = "files" /\ Tool = "rm" /\ fe # <<>>
  /\ LET all == Listed(container, {Head(fe)})
     IN \E k \in 0..Len(all) :
          /\ found' = SubSeq(all, 1, k)
          /\ swallowed' = (swallowed \/ k < Len(all))
          /\ IF k > 0 THEN Goto("unlink")
             ELSE IF opts.ignoreMissing THEN Goto("files") ELSE Exit("Error")
  /\ fe' = Tail(fe)
  /\ UNCHANGED <<container, local, out, fs>> /\ Still

\* Mutant: the dry run deletes.
SparesNone == FALSE

Spares == opts.dryRun

\* whefs_unlink_filename
RmUnlink ==
  /\ phase = "unlink"
  /\ IF found = <<>> THEN Goto("files") /\ UNCHANGED <<found, container>>
     ELSE /\ found' = Tail(found)
          /\ IF Spares THEN Goto("unlink") /\ UNCHANGED container
             ELSE \/ /\ container' = Put(CHOOSE id \in Named(container, Head(found)) : TRUE, Free)
                     /\ Goto("unlink")
                  \/ UNCHANGED container /\ Exit("Error")
  /\ UNCHANGED <<local, out, swallowed, fe, fs>> /\ Still

CatMain ==
  /\ phase = "main" /\ Tool = "cat"
  /\ \/ fe # <<>> /\ Goto("files")
     \/ Exit("Error")
  /\ UNCHANGED <<fe, fs, found>> /\ SameData /\ Still

\* cat_file does not look at what whio_stream_copy returns.
CatFile ==
  /\ phase = "files" /\ Tool = "cat" /\ fe # <<>>
  /\ \/ UNCHANGED <<out, swallowed>> /\ Exit("Error")
     \/ /\ Named(container, Head(fe)) # {}
        /\ LET data == DataOf(container, Head(fe))
           IN \E k \in 0..Len(data) :
                /\ out' = out \o SubSeq(data, 1, k)
                /\ swallowed' = (swallowed \/ k < Len(data))
        /\ Goto("files")
  /\ fe' = Tail(fe)
  /\ UNCHANGED <<container, local, fs, found>> /\ Still

-----------------------------------------------------------------------------
(***************************************************************************)
(* ls                                                                      *)
(***************************************************************************)

Concerned(n) == fe = <<>> \/ \E k \in DOMAIN fe : n \in Matched[fe[k]]

InOrder(ids, Op(_)) ==
  LET Lines[n \in 0..Cardinality(ids)] ==
        IF n = 0 THEN <<>>
        ELSE Append(Lines[n - 1], Op(CHOOSE x \in ids : Cardinality({y \in ids : y < x}) = n - 1))
  IN Lines[Cardinality(ids)]

\* Mutant: files that have no blocks are left out.
DumpInodesWithBlocks ==
  LET Line(id) == File(id).name
  IN InOrder({id \in Inodes : File(id).used /\ File(id).name # "" /\ File(id).chain # <<>>
                               /\ Concerned(File(id).name)}, Line)

DumpInodes ==
  LET Line(id) == File(id).name
  IN InOrder({id \in Inodes : File(id).used /\ File(id).name # ""
                               /\ Concerned(File(id).name)}, Line)

\* Files with blocks, and the blocks.
DumpBlocks ==
  LET Line(id) == <<File(id).name, File(id).chain>>
  IN InOrder({id \in Inodes : File(id).used /\ File(id).chain # <<>>
                               /\ Concerned(File(id).name)}, Line)

\* The loop ends before the last block.
DumpBlocksTable ==
  LET Line(id) == id
  IN InOrder({id \in 1..container.blocks - 1 : id \in UsedBlocks}, Line)

Shown(f) ==
  CASE f \in {"1", "i"} -> DumpInodes
    [] f = "b"          -> DumpBlocks
    [] f = "B"          -> DumpBlocksTable
    [] OTHER            -> <<f>>

\* The files are shown when nothing else is asked for.
LsMain ==
  /\ phase = "main" /\ Tool = "ls"
  /\ opts' = [opts EXCEPT !.funcs = IF opts.did THEN @ ELSE <<"i">>]
  /\ Goto("files")
  /\ UNCHANGED <<args, fsName, fe, fs, found>> /\ SameData /\ Same

\* Any of the functions stops at what it cannot read.  A name that cannot be read is
\* passed over by the list of files.
LsShow ==
  /\ phase = "files" /\ Tool = "ls"
  /\ IF opts.funcs = <<>> THEN Exit("OK") /\ UNCHANGED <<opts, out, swallowed>>
     ELSE LET all == Shown(Head(opts.funcs))
          IN /\ opts' = [opts EXCEPT !.funcs = Tail(@)]
             /\ \/ out' = out \o all /\ Goto("files") /\ UNCHANGED swallowed
                \/ \E k \in 0..Len(all) :
                     out' = out \o SubSeq(all, 1, k) /\ Exit("Error") /\ UNCHANGED swallowed
                \/ \E k \in 1..Len(all) :
                     /\ Head(opts.funcs) \in {"1", "i"}
                     /\ out' = out \o SubSeq(all, 1, k - 1) \o SubSeq(all, k + 1, Len(all))
                     /\ swallowed' = TRUE /\ Goto("files")
  /\ UNCHANGED <<args, fsName, container, local, fe, fs, found>> /\ Same

-----------------------------------------------------------------------------
(***************************************************************************)
(* mkfs and addblocks                                                      *)
(***************************************************************************)

\* mkfs_do_mkfs looks at two of the options, and whefs_mkfs_stage1 at the others, when
\* the file is empty already; what was made is removed when that fails.
MkfsMain ==
  /\ phase = "main" /\ Tool = "mkfs"
  /\ IF opts.dryRun THEN Exit("OK") /\ UNCHANGED <<container, fs>>
     ELSE IF opts.blocks < opts.inodes \/ opts.length > MaxNameLength
          THEN Exit("Error") /\ UNCHANGED <<container, fs>>
     ELSE IF ~fsName THEN Goto("aborted") /\ UNCHANGED <<container, fs>>  \* strcmp(..., 0)
     ELSE \/ Exit("Error") /\ UNCHANGED <<container, fs>>
          \/ Exit("Error") /\ container' = NoContainer /\ UNCHANGED fs
          \/ /\ opts.inodes >= 2 /\ opts.length > 0
             /\ container' = [files |-> [id \in 1..opts.inodes - 1 |-> Free],
                              blocks |-> opts.blocks]
             /\ fs' = "rw" /\ Exit("OK")
  /\ UNCHANGED <<local, out, swallowed, fe, found>> /\ Still

\* Mutant: the sum is not looked at.
OverflowsNever(total) == FALSE

Overflows(total) == total < container.blocks

AddblocksMain ==
  /\ phase = "main" /\ Tool = "addblocks"
  /\ LET total == (container.blocks + opts.count) % (MaxId + 1)
     IN IF opts.count = 0 \/ Overflows(total) THEN Exit("Error") /\ UNCHANGED container
        ELSE \/ container' = [container EXCEPT !.blocks = total] /\ Exit("OK")
             \/ container' = [container EXCEPT !.blocks = total] /\ Exit("Error")
             \/ UNCHANGED container /\ Exit("Error")
  /\ UNCHANGED <<local, out, swallowed, fe, fs, found>> /\ Still

-----------------------------------------------------------------------------
\* Mutant: nothing runs at exit.
AtExitNothing == UNCHANGED <<fe, fs>>

\* WHEFSApp_atexit
AtExit == fe' = <<>> /\ fs' = "none"

\* rm gives the rest of the list back.
Ends ==
  /\ phase = "exit"
  /\ AtExit
  /\ found' = <<>>
  /\ Goto("done")
  /\ SameData /\ Still

Next ==
  \/ Argument \/ InitEnds \/ CpMain \/ CpImport \/ CpExport \/ FilesEnd
  \/ RmMain \/ RmMatch \/ RmUnlink \/ CatMain \/ CatFile \/ LsMain \/ LsShow
  \/ MkfsMain \/ AddblocksMain \/ Ends

Specification == Init /\ [][Next]_vars

-----------------------------------------------------------------------------
\* The files given on the command line, and what is asked for.
NamesGiven ==
  LET IsName(a) == a.kind = "name"
      all == SelectSeq(command.args, IsName)
  IN [k \in 1..Len(all) - 1 |-> all[k + 1].val]

Given == {NamesGiven[k] : k \in DOMAIN NamesGiven}

HasFlag(keys) ==
  \E k \in DOMAIN command.args : command.args[k].kind = "flag" /\ command.args[k].key \in keys

AsksHelp == HasFlag({"V"}) \/ \E k \in DOMAIN command.args : command.args[k].kind = "help"

\* -x, or -i with a value that turns it off, and nothing to the contrary behind it.
AsksExport ==
  LET ks == {k \in DOMAIN command.args : command.args[k].kind = "flag"
                                         /\ command.args[k].key \in {"i", "x"}}
      a  == command.args[CHOOSE k \in ks : \A j \in ks : j <= k]
  IN ks # {} /\ ((a.key = "x") <=> (a.val.given => a.val.yes))

Joined(seqs) ==
  LET J[k \in 0..Len(seqs)] == IF k = 0 THEN <<>> ELSE J[k - 1] \o seqs[k]
  IN J[Len(seqs)]

Touched ==
  IF Tool = "rm" THEN UNION {Matched[p] : p \in Given} ELSE Given \cup {""}

Unharmed ==
  /\ Tool \in {"ls", "cat"} \/ opts.dryRun \/ (Tool = "cp" /\ AsksExport)
       => container = before.container
  /\ Tool \in {"cp", "rm"} =>
       \A id \in DOMAIN before.container.files :
         LET f == before.container.files[id]
         IN f.used /\ f.name \notin Touched => File(id) = f
  /\ \A n \in DOMAIN local :
       ~(Tool = "cp" /\ AsksExport /\ n \in Given) => local[n] = before.local[n]

Done ==
  CASE Tool = "cp" /\ AsksExport ->
         \A n \in Given : Named(container, n) # {} /\ local[n] = DataOf(container, n)
    [] Tool = "cp" /\ ~AsksExport ->
         \A n \in Given : Cardinality(Named(container, n)) = 1
                          /\ DataOf(container, n) = local[n] /\ n \notin TooLong
    [] Tool = "rm" -> opts.dryRun \/ Listed(container, Given) = <<>>
    [] Tool = "cat" ->
         out = Joined([k \in DOMAIN NamesGiven |-> DataOf(container, NamesGiven[k])])
    [] Tool = "ls" ->
         ~HasFlag(Shows \ {"1", "i"}) \/ HasFlag({"1", "i"}) =>
           \A id \in Inodes :
             File(id).used /\ File(id).name # ""
             /\ (Given = {} \/ \E p \in Given : File(id).name \in Matched[p]) =>
                  \E k \in DOMAIN out : out[k] = File(id).name
    [] Tool = "addblocks" ->
         container = [before.container EXCEPT !.blocks = @ + opts.count]
    [] OTHER -> opts.dryRun \/ container.blocks = opts.blocks

\* A tool that reports success has done all it was asked for, unless what fails is not
\* noticed; whatever fails, no other file is touched, a dry run and a tool that reads
\* change nothing, and at the end the container is closed and the lists are freed.
ToolsTold ==
  /\ Unharmed
  /\ phase = "done" => fs = "none" /\ fe = <<>> /\ found = <<>>
  /\ phase = "done" /\ code = "OK" /\ ~swallowed /\ ~AsksHelp => Done
=============================================================================
