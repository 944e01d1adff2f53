----------------------------- MODULE MCConsole -----------------------------
(***************************************************************************)
(* The modules between the keyboard and the screen, on small instances.    *)
(* They share no state; a behaviour exercises the part that is chosen in   *)
(* its first state, and the others stay as they begin.                     *)
(*   Stream:     buffers of two bytes, so that reads and writes of one to  *)
(*               three bytes end inside, at the end of and beyond a buffer *)
(*   Keyboard:   a key with a character; Control and, behind the prefix,   *)
(*               the keypad's slash, without one; Escape, whose number is  *)
(*               behind the tables' ends; and the modifiers                *)
(*   Shell:      a display of two rows of three cells over a ring of five; *)
(*               a zero among what is typed                                *)
(*   Format:     strings of up to three turns; words of nine bits, that is *)
(*               three digits of base ten and, as nibbles, of base eight   *)
(*   Interrupts: four ticks and keys, two disk commands after the start    *)
(***************************************************************************)
EXTENDS Stream, Keyboard

CONSTANTS Parts, b1, b2, b3, b4

VARIABLES part,
          term, mode, output, waiting, answered, unseen, entered,
          fmt, in_index, args, modifier, buffer, out_index,
          step, takes, requested, master, slave, handlers, devices, threads,
          command, lost, occurred, commands

(* Every kind of turn before and behind every other; numbers about zero,   *)
(* the powers of the bases and both ends.  Numbers only stand behind a     *)
(* directive that leaves words of its own or takes those of others: a %s   *)
(* there would take a number for an address.                               *)
Decimals == [kind : {"d"}, value : {-256, -255, -10, -9, -1, 0, 1, 9, 10, 99, 100, 255}]
Hexadecimals == [kind : {"x"}, value : {0, 7, 8, 511}]
LongOnes == [kind : {"llx"}, value : {0, 511, 512, 262143}]
WithL == [kind : {"lx"}, value : {0, 8, 511}]
Unclear == [kind : {"lld", "other"}, value : {0, 9}]
End == [kind : {"end"}, value : {0}]
Texts == { [kind |-> "char", value |-> "a"], [kind |-> "c", value |-> "b"],
           [kind |-> "s", value |-> <<>>], [kind |-> "s", value |-> <<"p", "q">>],
           [kind |-> "s", value |-> <<"p", "q", "r", "s", "t", "u", "v", "w", "x">>] }
Short == Decimals \cup Hexadecimals \cup Texts
SomeFormats ==
  (Short \X (Short \cup LongOnes)) \cup (LongOnes \X (Decimals \cup Texts \cup LongOnes))
  \cup (Hexadecimals \X Texts \X LongOnes) \cup (Texts \X Texts \X Hexadecimals)
  \cup (LongOnes \X Hexadecimals) \cup (LongOnes \X Hexadecimals \X Decimals)
  \cup (LongOnes \X (WithL \cup Unclear) \X Hexadecimals)
  \cup (Unclear \X (Decimals \cup LongOnes)) \cup (Short \X End \X Texts)

(* What the tables hold for the keys of the instance. *)
SomeKeyLut == [a |-> 97, control |-> 0, slash |-> 0, escape |-> 13]
SomeShiftKeyLut == [a |-> 65, control |-> 0, slash |-> 0, escape |-> 27]

Shell == INSTANCE Shell WITH stream <- waiting, typed <- entered, Width <- 3, Height <- 5, DisplayHeight <- 2,
           Chars <- {"h", "c", "x", "y", "zero"}, Help <- <<"h">>, ClearCmd <- <<"c">>,
           Crash <- <<"x">>, Yes <- <<"y">>, BufferSize <- 5, CrashSize <- 3, MaxTyped <- 6
Format == INSTANCE Format WITH Formats <- SomeFormats, Behind <- <<511, 511>>, WordSize <- 512, WordNibbles <- 3,
            Nibble <- 8, Decimals <- 3, Size <- 8, ArraySize <- 14
Interrupts == INSTANCE Interrupts WITH events <- occurred, MaxEvents <- 4, MaxCommands <- 2

shellVars == <<term, mode, output, waiting, answered, unseen, entered>>
formatVars == <<fmt, in_index, args, modifier, buffer, out_index>>
interruptVars == <<step, takes, requested, master, slave, handlers, devices, threads,
                   command, lost, occurred, commands>>
allVars == <<part, vars, keyboardVars, shellVars, formatVars, interruptVars>>

AllInit ==
  /\ part \in Parts
  /\ Init /\ KeyboardInit /\ Shell!Init /\ Interrupts!Init
  /\ IF part = "format" THEN Format!Init ELSE Format!InitWith(<<>>)

AllNext ==
  \/ part = "stream" /\ Next /\ UNCHANGED <<part, keyboardVars, shellVars, formatVars, interruptVars>>
  \/ part = "keyboard" /\ KeyboardNext /\ UNCHANGED <<part, vars, shellVars, formatVars, interruptVars>>
  \/ part = "shell" /\ Shell!Next /\ UNCHANGED <<part, vars, keyboardVars, formatVars, interruptVars>>
  \/ part = "format" /\ Format!Next /\ UNCHANGED <<part, vars, keyboardVars, shellVars, interruptVars>>
  \/ part = "interrupts" /\ Interrupts!Next
     /\ UNCHANGED <<part, vars, keyboardVars, shellVars, formatVars>>

(* The fairness of Stream and of Interrupts. *)
StreamFairness == WF_vars(HandlerStep) /\ SF_vars(ReaderStep)

Runs(action) == part = "interrupts" /\ action

InterruptFairness ==
  /\ WF_interruptVars(Runs(Interrupts!Boot))
  /\ WF_interruptVars(Runs(Interrupts!DiskDone))
  /\ WF_interruptVars(Runs(Interrupts!DeviceReady))
  /\ \A line \in Interrupts!Lines : WF_interruptVars(Runs(Interrupts!Interrupt(line)))

AllSpec == AllInit /\ [][AllNext]_allVars /\ StreamFairness /\ InterruptFairness

-----------------------------------------------------------------------------
(* The properties of the parts, under names of their own. *)
LineAsSeen == Shell!LineAsSeen
TextRight == Format!TextRight

(* No interrupt line is held back for ever: neither controller keeps one   *)
(* in service, the start gets past every wait of its own, and the disk's   *)
(* answer comes through.                                                   *)
InterruptsAnswered ==
  /\ []Interrupts!NothingLeftInService
  /\ part = "interrupts" => Interrupts!StartEnds
  /\ Interrupts!DiskAnswers
=============================================================================
