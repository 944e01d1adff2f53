-------------------------------- MODULE Mkfs --------------------------------
(***************************************************************************)
(* The image tool (src/tools/mkfs/mkfs.c): a command line, or lines read   *)
(* one by one in interactive mode, is copied to one buffer, cut into a     *)
(* command and its argument where it lies, and run on a disk held in       *)
(* memory.  A line is a sequence of words, blanks and "=": a word stands   *)
(* for its characters, a zero for the end of a string.  At the end of the  *)
(* input the tool goes on with what its buffer holds.                      *)
(***************************************************************************)
EXTENDS Naturals, Sequences, FiniteSets, SequencesExt, TLC

CONSTANTS Lines,      \* lines that are typed
          Counts,     \* words that are block counts, with their number
          FileNames,  \* words that name image files
          Less,       \* each word of an argument without its last character
          BufferSize, \* the buffer, long enough for every line
          MaxLines    \* bound: lines read

VARIABLES buffer,      \* cmd_str_buffer; it keeps what earlier lines left
          interactive, \* whether lines are read with fgets
          input,       \* "open", or "ended" with the last character read
          argument,    \* what the last command got: [name, value]
          typed,       \* the last line
          ram_disk,    \* blocks of the image in memory, 0 for none
          volume,      \* "none", "mounted", or "kept": in the variable, without its data
          files,       \* blocks of the image in each file there is, 0 for an empty one
          left,        \* the tool has left
          lines        \* lines so far

vars == <<buffer, interactive, input, argument, typed, ram_disk, volume, files, left, lines>>

Blank == " "
Zero == "0"
Fragment == "?"   \* what is left of a command or of an argument's name
NoArgument == [name |-> "none", value |-> "none"]

Init == /\ buffer = [i \in 1 .. BufferSize |-> Zero]
        /\ interactive = FALSE /\ input = "open" /\ left = FALSE
        /\ argument = NoArgument /\ typed = <<>>
        /\ ram_disk = 0 /\ volume = "none"
        /\ files = <<>>
        /\ lines = 0

-----------------------------------------------------------------------------
\* parse_arg: the place of the first character from i on that is not in set, and of
\* the first one that is.
SkipOver(s, i, set) == CHOOSE j \in i .. Len(s) : s[j] \notin set /\ \A k \in i .. j - 1 : s[k] \in set
SkipTo(s, i, set) == CHOOSE j \in i .. Len(s) : s[j] \in set /\ \A k \in i .. j - 1 : s[k] \notin set

\* The name ends at a zero, which is stepped over like any other end.
Ends == {Zero, "=", Blank}
NameEnd(s, cursor) == SkipTo(s, SkipOver(s, cursor, {Blank}), Ends)
ValueStart(s, i) ==
  LET j == SkipOver(s, i, {Blank})
  IN IF s[j] = "=" THEN SkipOver(s, j + 1, {Blank}) ELSE j

\* The argument, and the string with the zeros that were written behind its parts.
ParseArg(s, cursor) ==
  LET name == SkipOver(s, cursor, {Blank})
      value == ValueStart(s, NameEnd(s, cursor) + 1)
      cut == [s EXCEPT ![NameEnd(s, cursor)] = Zero]
  IN IF s[name] = Zero THEN [name |-> "none", value |-> "none", rest |-> s]
     ELSE IF s[value] = Zero THEN [name |-> s[name], value |-> "none", rest |-> cut]
     ELSE [name |-> s[name], value |-> s[value],
           rest |-> [cut EXCEPT ![SkipTo(s, value, Ends)] = Zero]]

\* How a line gets into the buffer: fgets writes the newline, which becomes the end of
\* the line, and a zero behind it; the words of the command line are copied with one.
Ended_One(line) == line \o <<Zero>>
Ended(line) == line \o (IF interactive THEN <<Zero, Zero>> ELSE <<Zero>>)
Overwritten(text) == text \o SubSeq(buffer, Len(text) + 1, BufferSize)
Copied(line) == Overwritten(Ended(line))

\* The newline is taken to be the last character of what fgets has read.
Shorter(w) == IF w \in DOMAIN Less THEN {Less[w]}
              ELSE IF w \in {Blank, "="} THEN {Zero}
              ELSE IF w = Fragment THEN {Fragment, Zero} ELSE {Fragment}
Cut(text) == { Front(text) \o (IF w = Zero THEN <<>> ELSE <<w>>) : w \in Shorter(Last(text)) }

\* A line without a newline loses its last character.
CutLines(line) == { Overwritten(text \o <<Zero, Zero>>) : text \in Cut(line) }

\* fgets fails and leaves the buffer as the last command has left it, up to the zero
\* behind its first string; the string gets shorter.
OldLines ==
  LET end == SkipTo(buffer, 1, {Zero})
  IN { SubSeq(text \o <<Zero>> \o SubSeq(buffer, end, BufferSize), 1, BufferSize) :
         text \in Cut(SubSeq(buffer, 1, end - 1)) }

-----------------------------------------------------------------------------
\* error leaves the tool unless it is interactive.
Error == left' = ~interactive

\* The image in memory gives way to another and its volume is mounted; then the tool
\* goes to its root, which PupFindNode never finds.
MountOn_Kept(blocks) == ram_disk' = blocks /\ Error /\ UNCHANGED <<volume, files>>
MountOn(blocks) == ram_disk' = blocks /\ volume' = "mounted" /\ Error /\ UNCHANGED files

CreateImage(arg) ==
  LET count == {c \in Counts : arg.name = "block_count" /\ c[1] = arg.value}
  IN \/ count = {} /\ Error /\ UNCHANGED <<ram_disk, volume, files>>
     \/ \E c \in count : MountOn(c[2])

\* An empty file is mounted too, from memory that is not the image's; or the tool faults.
Fault == ram_disk' = 0 /\ left' = TRUE /\ UNCHANGED <<volume, files>>
LoadImage(file) ==
  \/ file \notin DOMAIN files /\ Error /\ UNCHANGED <<ram_disk, volume, files>>
  \/ file \in DOMAIN files /\ MountOn(files[file])
  \/ file \in DOMAIN files /\ files[file] = 0 /\ Fault

\* Without an image in memory the file is made all the same.  Unmounting writes the volume back to the image; the volume is not mounted again.
SaveImage(file) ==
  \/ file \notin FileNames /\ Error /\ UNCHANGED <<ram_disk, volume, files>>
  \/ /\ file \in FileNames
     /\ files' = (file :> ram_disk) @@ files
     /\ volume' = IF volume = "none" THEN "none" ELSE "kept"
     /\ UNCHANGED <<ram_disk, left>>

\* In interactive mode the path may be given without its name.
Path(arg, name) == IF interactive /\ arg.value = "none" THEN arg.name
                   ELSE IF interactive \/ arg.name = name THEN arg.value ELSE "none"
Unmounted == volume = "none"
ChangeDir(arg) == left' = (Path(arg, "path") # "none" /\ ~interactive)

\* The node of a path is never found, so no directory is made and none is listed; both
\* commands say so only when there is no volume at all.
MakeDir(arg) == left' = (Path(arg, "name") # "none" /\ Unmounted /\ ~interactive)
MakeFrom(arg) == left' = FALSE
ListDir == left' = (Unmounted /\ ~interactive)
ShowTree == left' = FALSE

ImageOf(arg) == IF arg.name = "image" THEN arg.value ELSE "none"

\* The commands that take an argument.
Named == {"create", "mount", "save", "cd", "mkdir", "mkfrom"}

\* parse_cmd, on the buffer: the command is its first word.
WithArgument(text) ==
  LET arg == ParseArg(text, 2)
  IN /\ argument' = [name |-> arg.name, value |-> arg.value] /\ buffer' = arg.rest
     /\ \/ text[1] = "create" /\ CreateImage(arg)
        \/ text[1] = "mount" /\ LoadImage(ImageOf(arg))
        \/ text[1] = "save" /\ SaveImage(ImageOf(arg))
        \/ /\ \/ text[1] = "cd" /\ ChangeDir(arg)
              \/ text[1] = "mkdir" /\ MakeDir(arg)
              \/ text[1] = "mkfrom" /\ MakeFrom(arg)
           /\ UNCHANGED <<ram_disk, volume, files>>
     /\ UNCHANGED interactive

\* A fragment, a word before the command, or a blank makes a line unknown.
NoArgumentTaken(text) ==
  /\ argument' = NoArgument /\ buffer' = text
  /\ \/ text[1] = "interactive" /\ interactive' = TRUE /\ UNCHANGED left
     \/ text[1] = "quit" /\ left' = interactive /\ UNCHANGED interactive
     \/ text[1] = "dir" /\ ListDir /\ UNCHANGED interactive
     \/ text[1] = "tree" /\ ShowTree /\ UNCHANGED interactive
     \/ /\ text[1] \notin Named \cup {"interactive", "quit", "dir", "tree"}
        /\ Error /\ UNCHANGED interactive
  /\ UNCHANGED <<ram_disk, volume, files>>

ParseCmd(text) ==
  /\ ~left /\ lines < MaxLines /\ lines' = lines + 1
  /\ WithArgument(text) \/ NoArgumentTaken(text)

ReadLine == \E line \in Lines :
  input = "open" /\ typed' = line /\ UNCHANGED input /\ ParseCmd(Copied(line))

ReadLastLine == \E line \in Lines :
  /\ interactive /\ input = "open" /\ typed' = line /\ input' = "ended"
  /\ \E text \in CutLines(line) : ParseCmd(text)

\* With an empty string in the buffer the code writes in front of the buffer, or, where
\* addresses are longer, far behind it.
ReadNothing ==
  /\ interactive /\ buffer[1] # Zero /\ typed' = <<>> /\ input' = "ended"
  /\ \E text \in OldLines : ParseCmd(text)

Next == ReadLine \/ ReadLastLine \/ ReadNothing

-----------------------------------------------------------------------------
\* The argument as the line reads: a name, then a value that blanks, "=" or both set off.
AsTyped(line) ==
  LET words == SelectSeq(Tail(line), LAMBDA w : w \notin {Blank, "="})
  IN [name |-> IF words = <<>> THEN "none" ELSE words[1],
      value |-> IF Len(words) < 2 THEN "none" ELSE words[2]]

\* In interactive mode the argument a command gets is the one on its line, whatever
\* longer lines have left in the buffer behind it, for the lines that end in a newline.
WholeLine == interactive /\ input = "open"
ArgumentAsTyped ==
  WholeLine /\ typed[1] \in Named => argument = AsTyped(typed)

\* Mounting a file that an image was saved to brings it back, though the buffer, the
\* image in memory and the volume are all used again.
MountBringsBack ==
  WholeLine /\ typed[1] = "mount" /\ AsTyped(typed).name = "image" =>
    \A f \in DOMAIN files : AsTyped(typed).value = f /\ files[f] # 0 =>
      ram_disk = files[f] /\ volume = "mounted"

\* A command sees the argument its line has, and a mounted volume the files that
\* were saved under its name.
SessionRight == ArgumentAsTyped /\ MountBringsBack
=============================================================================
