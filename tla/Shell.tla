-------------------------------- MODULE Shell --------------------------------
(***************************************************************************)
(* The root shell (src/kernel/sys/shell.c): prompt, read a line from the   *)
(* terminal's stream, echoing it on the screen, and run the command.       *)
(* Characters come one by one from the keyboard's stream.                  *)
(***************************************************************************)
EXTENDS Terminal, FiniteSets

CONSTANTS Chars,        \* bytes that are typed: printable characters and zeros
          Help, ClearCmd, Crash, Yes,  \* the command lines and the answer
          BufferSize,   \* size of ShellMain's keyboard_buffer
          CrashSize,    \* size of k_sys_Crash's
          MaxTyped      \* bound: characters typed

VARIABLES term,    \* the terminal
          mode,    \* what the shell does: "print", "command", "crash", "crashed"
          output,  \* TerminalReadLine's output up to data_cursor
          stream,  \* typed characters no one has read
          answered,\* the line that the last ReadLine returned
          unseen,  \* whether a zero was read into this line
          typed    \* number of characters typed

vars == <<term, mode, output, stream, answered, unseen, typed>>

Prompt == <<">">>

Init == /\ term = TerminalInit /\ mode = "print"
         /\ output = <<>> /\ stream = <<>> /\ answered = <<>>
        /\ unseen = FALSE /\ typed = 0

\* k_dev_kb_KeyboardHandler writes to the focused process's stream at any time: a zero
\* for a key that has no character.
Type(c) == /\ typed < MaxTyped /\ mode # "crashed" /\ Len(stream) < 2
           /\ stream' = Append(stream, c) /\ typed' = typed + 1
           /\ UNCHANGED <<term, mode, output, answered, unseen>>

PrintPrompt == /\ mode = "print"
               /\ term' = TerminalPuts(term, Prompt)
               /\ mode' = "command" /\ output' = <<>> /\ unseen' = FALSE
               /\ UNCHANGED <<stream, answered, typed>>

-----------------------------------------------------------------------------
\* One turn of ReadLine's loop.  The line ends with a newline, or when the buffer
\* has room for the terminating zero only.  A zero takes a place in the line like any
\* character, but nothing is printed for it.
Size == IF mode = "crash" THEN CrashSize ELSE BufferSize
Erases(c) == c = BackSpaceChar /\ output # <<>>
Room_Full(line) == Len(line) < Size
Room(line) == Len(line) < Size - 1

ReadChar(c) ==
  LET line == IF c = BackSpaceChar THEN (IF output = <<>> THEN <<>> ELSE Front(output))
              ELSE IF c = NewLineChar THEN output ELSE Append(output, c)
  IN /\ stream # <<>> /\ c = Head(stream)
     /\ mode \in {"command", "crash"}
     /\ stream' = Tail(stream)
     /\ term' = IF c = BackSpaceChar /\ ~Erases(c) THEN term ELSE TerminalPuts(term, <<c>>)
     /\ output' = line /\ unseen' = (unseen \/ c = ZeroChar)
     /\ IF c = NewLineChar \/ ~Room(line)
          THEN answered' = line /\ mode' = (IF mode = "crash" THEN "confirm" ELSE "run")
          ELSE UNCHANGED <<answered, mode>>
     /\ UNCHANGED typed

\* What each command does to the screen; the line is compared up to its first zero.  cd finds nothing: PupFindNode has no body.
\* Lines are printed one by one, and are shorter here than a row.
Line == <<"o", NewLineChar>>
Lines(n) == FoldLeft(LAMBDA t, i : TerminalPuts(t, Line), term, [i \in 1 .. n |-> i])
Command == StringOf(answered)
Run ==
  /\ mode = "run"
  /\ \/ Command = Help /\ term' = Lines(2) /\ mode' = "print"
     \/ Command = ClearCmd /\ term' = TerminalClear(term) /\ mode' = "print"
     \/ Command = Crash /\ term' = TerminalPuts(term, <<"?">>) /\ mode' = "crash"
     \/ Command = <<>> /\ term' = term /\ mode' = "print"
     \/ /\ Command \notin {Help, ClearCmd, Crash, <<>>}
        /\ term' = Lines(1) /\ mode' = "print"
  /\ output' = <<>> /\ unseen' = FALSE
  /\ UNCHANGED <<stream, answered, typed>>

Confirm ==
  /\ mode = "confirm"
  /\ IF Command = Yes THEN mode' = "crashed" /\ UNCHANGED term
                       ELSE mode' = "print" /\ term' = Lines(1)
  /\ output' = <<>>
  /\ UNCHANGED <<stream, answered, unseen, typed>>

Next == \/ \E c \in Chars \cup {NewLineChar, BackSpaceChar} : Type(c) \/ ReadChar(c)
        \/ PrintPrompt \/ Run \/ Confirm

-----------------------------------------------------------------------------
\* The row of the ring, the row of the display and the row shown first are kept
\* apart by every operation, and always name the same place; the cursor is on the
\* display after every string.
CursorsAgree ==
  /\ term.buffer_cursor_y = (term.scroll_y + term.display_cursor_y) % Height
  /\ term.display_cursor_y \in 0 .. DisplayHeight - 1
  /\ term.cursor_x \in 0 .. Width - 1

\* While a line is read the screen shows it before the cursor, as much of it as is not
\* scrolled away, over wraps, scrolls and erased characters: what is on the screen is
\* what the command will be.  This takes a line without zeros: behind one the screen
\* lacks a character of the line, and a backspace erases more of it than of the line.
ScreenShowsLine ==
  mode \in {"command", "crash"} /\ ~unseen =>
    \A i \in 1 .. Len(output) :
      LET c == term.display_cursor_y * Width + term.cursor_x - (Len(output) - i + 1)
      IN c >= 0 => Screen(term)[c] = output[i]

\* No line is longer than the buffer of the caller leaves room for, the zero behind
\* it included.
LineFits == Len(output) <= Size - 1

\* The user of keys with characters sees the line that the shell will run, and whatever
\* the keys the line leaves room for its end mark and the cursor stays on the display.
LineAsSeen == CursorsAgree /\ ScreenShowsLine /\ LineFits
=============================================================================
