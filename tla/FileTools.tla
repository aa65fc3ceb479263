----------------------------- MODULE FileTools -----------------------------
(***************************************************************************)
(* The tools that read and change files: read_file, write_file, edit_file  *)
(* (any path, synchronous), file.read, file.write (under a base directory, *)
(* asynchronous), and the store of content hashes that makes edit_file     *)
(* refuse a file that was not read or has changed since.  write_file and   *)
(* edit_file look at the file first and write it later, in one turn of the *)
(* event loop: no other tool runs in between, but other programs do, and   *)
(* so do the writes of file.write that the thread pool has taken over.  A  *)
(* content is a sequence of lines; a hash stands for the content it was    *)
(* taken of.                                                               *)
(***************************************************************************)
EXTENDS Naturals, Sequences, FiniteSets

CONSTANTS
    Files,          \* resolved paths
    Lines,          \* lines of text
    Pattern,        \* "$&" as new text
    MaxLines,       \* bound: lines of a file
    MaxAge,         \* MAX_AGE_MS, in ticks
    MaxNow,         \* bound: ticks
    Writers,        \* calls of file.write
    Gone            \* there is no such file, entry or edit

ASSUME FileToolsAssumption == Pattern \in Lines /\ MaxLines \in Nat

VARIABLES
    content,        \* file -> its lines, or Gone
    hash,           \* store: file -> [lines, at], or Gone
    tick,           \* Date.now()
    writer,         \* Writers -> [pc, file, lines]
    writing,        \* the synchronous writes under way: records [file, lines, edit]
    edit            \* ghost: the edit just made, or Gone:
                    \*   [before, after, old, new, read, age, raced, over]

fileVars == <<content, hash, tick, writer, writing, edit>>

Contents == UNION {[1..n -> Lines \ {Pattern}] : n \in 1..MaxLines}

FilesInit ==
    /\ content \in [Files -> {Gone} \union Contents]
    /\ hash = [f \in Files |-> Gone] /\ tick = 0
    /\ writer = [w \in Writers |-> [pc |-> "off"]]
    /\ writing = {} /\ edit = Gone

-----------------------------------------------------------------------------

\* getReadHash: an entry expires when it is older than MaxAge.
GetReadHash(f) == IF hash[f] # Gone /\ tick - hash[f].at > MaxAge THEN Gone ELSE hash[f]

\* Mutant: that the file was read is enough.
WasRead(f, lines) == GetReadHash(f) # Gone

VerifyReadHash(f, lines) == GetReadHash(f) # Gone /\ GetReadHash(f).lines = lines

\* Mutant: other tools run while a file is written.
LoopAlwaysFree == TRUE

\* The event loop is free: no synchronous write is under way.
LoopFree == writing = {}

\* read_file notes the content of the whole file, whichever part it shows.
ReadFile(f) ==
    /\ LoopFree /\ content[f] # Gone
    /\ hash' = [hash EXCEPT ![f] = [lines |-> content[f], at |-> tick]]
    /\ edit' = Gone
    /\ UNCHANGED <<content, tick, writer, writing>>

\* write_file makes files and means to change none: it looks whether there is one.
WriteFile(f) ==
    /\ LoopFree /\ content[f] = Gone
    /\ \E lines \in Contents : writing' = writing \union {[file |-> f, lines |-> lines, edit |-> Gone]}
    /\ edit' = Gone
    /\ UNCHANGED <<content, hash, tick, writer>>

Occurrences(lines, old) == {i \in DOMAIN lines : lines[i] = old}

\* Mutant: the new text stands for all that follows the old one.
ReplacedToTheEnd(lines, old, new, all) ==
    [i \in DOMAIN lines |-> IF \E j \in Occurrences(lines, old) : j <= i THEN new ELSE lines[i]]

\* String.replace takes the first occurrence and gives $& a meaning, split and join do neither.
Replaced(lines, old, new, all) ==
    [i \in DOMAIN lines |->
        IF all THEN IF lines[i] = old THEN new ELSE lines[i]
        ELSE IF lines[i] = old /\ \A j \in Occurrences(lines, old) : i <= j
             THEN IF new = Pattern THEN old ELSE new
        ELSE lines[i]]

\* edit_file reads and checks.  An expired entry is taken away when it is looked for.
EditFile(f) ==
    \E old, new \in Lines, all \in BOOLEAN :
        LET lines == content[f]
            count == Cardinality(Occurrences(lines, old))
            after == Replaced(lines, old, new, all)
        IN /\ LoopFree /\ old # new /\ lines # Gone
           /\ hash' = [hash EXCEPT ![f] = GetReadHash(f)]
           /\ IF ~VerifyReadHash(f, lines) \/ count = 0 \/ (count > 1 /\ ~all)
              THEN UNCHANGED writing
              ELSE writing' = writing \union {[file |-> f, lines |-> after,
                     edit |-> [before |-> lines, after |-> after, old |-> old, new |-> new,
                               read |-> hash[f].lines, age |-> tick - hash[f].at,
                               raced |-> FALSE, over |-> lines]]}
           /\ edit' = Gone
           /\ UNCHANGED <<content, tick, writer>>

\* The synchronous write puts its content in place of whatever is there; it is not noted.
WriteLands ==
    \E write \in writing :
        /\ content' = [content EXCEPT ![write.file] = write.lines]
        /\ edit' = IF write.edit = Gone THEN Gone
                   ELSE [write.edit EXCEPT !.over = content[write.file]]
        /\ writing' = writing \ {write}
        /\ UNCHANGED <<hash, tick, writer>>

\* Or it throws, before or after the file has been emptied.
WriteThrows ==
    \E write \in writing :
        /\ content' \in {content, [content EXCEPT ![write.file] = <<>>]}
        /\ writing' = writing \ {write} /\ edit' = Gone
        /\ UNCHANGED <<hash, tick, writer>>

\* Ghost: the file of an edit under way is changed from outside the event loop.
Raced(write, f) ==
    IF write.edit = Gone \/ write.file # f THEN write ELSE [write EXCEPT !.edit.raced = TRUE]

Races(f) == writing' = {Raced(write, f) : write \in writing}

\* file.write: the directory is made, the file is opened and emptied, then written.
FileWrite(w, f) ==
    /\ LoopFree /\ writer[w].pc = "off"
    /\ \E lines \in Contents :
         writer' = [writer EXCEPT ![w] =
             [pc |-> "opening", file |-> f, lines |-> lines]]
    /\ edit' = Gone
    /\ UNCHANGED <<content, hash, tick, writing>>

WriterOpens(w) ==
    /\ writer[w].pc = "opening"
    /\ content' = [content EXCEPT ![writer[w].file] = <<>>]
    /\ writer' = [writer EXCEPT ![w].pc = "opened"]
    /\ edit' = Gone /\ Races(writer[w].file)
    /\ UNCHANGED <<hash, tick>>

\* The event loop hears that the file is open and asks for the write.
WriterContinues(w) ==
    /\ LoopFree /\ writer[w].pc = "opened"
    /\ writer' = [writer EXCEPT ![w].pc = "writing"]
    /\ edit' = Gone
    /\ UNCHANGED <<content, hash, tick, writing>>

WriterEnds(w) ==
    /\ writer[w].pc = "writing"
    /\ content' = [content EXCEPT ![writer[w].file] = writer[w].lines]
    /\ writer' = [writer EXCEPT ![w].pc = "done"]
    /\ edit' = Gone /\ Races(writer[w].file)
    /\ UNCHANGED <<hash, tick>>

WriterFails(w) ==
    /\ writer[w].pc \in {"opening", "writing"}
    /\ writer' = [writer EXCEPT ![w].pc = "done"]
    /\ edit' = Gone
    /\ UNCHANGED <<content, hash, tick, writing>>

\* Another program writes or removes the file.
FileChanges(f) ==
    /\ \E lines \in Contents \union {Gone} : content' = [content EXCEPT ![f] = lines]
    /\ edit' = Gone /\ Races(f)
    /\ UNCHANGED <<hash, tick, writer>>

TimePasses ==
    /\ tick < MaxNow /\ tick' = tick + 1
    /\ edit' = Gone
    /\ UNCHANGED <<content, hash, writer, writing>>

FilesNext ==
    \/ \E f \in Files : ReadFile(f) \/ WriteFile(f) \/ EditFile(f) \/ FileChanges(f)
    \/ WriteLands \/ WriteThrows
    \/ \E w \in Writers :
         (\E f \in Files : FileWrite(w, f)) \/ WriterOpens(w) \/ WriterContinues(w)
         \/ WriterEnds(w) \/ WriterFails(w)
    \/ TimePasses

-----------------------------------------------------------------------------
(***************************************************************************)
(* An edit is made in the content that was read, not longer ago than a     *)
(* hash lasts, and leaves every line but the old text as it was; of        *)
(* several lines that could be meant it changes all or none.  What it      *)
(* writes over is what it read, unless another program or a file.write     *)
(* that the thread pool had taken over wrote between its read and its      *)
(* write: no other tool gets in between, and the hash does not see these   *)
(* (fileEditImpl).                                                         *)
(***************************************************************************)
EditsLoseNothing ==
    edit # Gone =>
        LET changed == {i \in DOMAIN edit.before : edit.after[i] # edit.before[i]} IN
        /\ edit.before = edit.read /\ edit.age <= MaxAge
        /\ DOMAIN edit.after = DOMAIN edit.before
        /\ changed \subseteq Occurrences(edit.before, edit.old)
        /\ edit.new # Pattern => changed = Occurrences(edit.before, edit.old)
        /\ edit.over # edit.read => edit.raced

=============================================================================
