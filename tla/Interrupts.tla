------------------------------ MODULE Interrupts ------------------------------
(***************************************************************************)
(* How the devices of the PIIX3 chip set are brought up and interrupts are *)
(* dispatched to their handlers: init.c, dev/dev.c, piix3.c, irq.c and the *)
(* part of ide.c that runs before there are threads.  Two 82C59s, the      *)
(* second behind line 2 of the first, hold back a line of lower priority   *)
(* until a handler says that it has ended.                                 *)
(***************************************************************************)
EXTENDS Naturals, Sequences, FiniteSets, FiniteSetsExt

CONSTANTS MaxEvents,    \* bound: keys pressed and timer ticks
          MaxCommands   \* bound: disk commands after the first

Timer == 0
Keyboard == 1
Cascade == 2
Disk == 14
Lines == {Timer, Keyboard, Disk}

VARIABLES step,      \* what k_Init does next
          takes,     \* the CPU takes interrupts
          requested, \* lines that have asked for an interrupt
          master, slave,   \* lines in service in each controller
          handlers,  \* lines with an entry in k_irq_handler_table
          devices,   \* k_dev_devices: name, device_status
          threads,   \* driver threads that StartDevice has created
          command,   \* the disk's command: "none", "sent" or "done"
          lost,      \* lines dispatched to no handler
          events, commands

vars == <<step, takes, requested, master, slave, handlers, devices, threads,
          command, lost, events, commands>>
controllers == <<requested, master, slave>>

Init == /\ step = "controllers" /\ takes = FALSE
        /\ requested = {} /\ master = {} /\ slave = {} /\ handlers = {}
        /\ devices = <<>> /\ threads = {} /\ command = "none" /\ lost = {}
        /\ events = 0 /\ commands = 0

-----------------------------------------------------------------------------
\* A device's line: a tick, a key, or the disk that has carried out its command.
Request(line) == requested' = requested \cup {line}

Event(line) == /\ events < MaxEvents /\ step # "controllers"
               /\ events' = events + 1 /\ Request(line)
               /\ UNCHANGED <<step, takes, master, slave, handlers, devices, threads,
                              command, lost, commands>>

DiskDone == /\ command = "sent" /\ Disk \notin requested \cup slave
            /\ Request(Disk)
            /\ UNCHANGED <<step, takes, master, slave, handlers, devices, threads,
                           command, lost, events, commands>>

\* A line is passed on when no other of its own or a higher priority is in service or
\* asks too.
Input(line) == IF line > 7 THEN Cascade ELSE line
Passes(line) == /\ line \in requested /\ slave \cap {line} = {}
                /\ \A other \in master : other > Input(line)
                /\ \A other \in requested : other >= line

\* k_PIIX3_ISA_EndOfInterrupt: each controller takes the highest line out of service.
WithoutHighest(set) == IF set = {} THEN {} ELSE set \ {Min(set)}
EndsSlave_Never(line) == FALSE
EndsSlave(line) == line > 7

\* k_irq_DispatchIRQ, with interrupts off from the gate to the iret.  A line without a
\* handler is not ended by anyone.
Interrupt(line) ==
  LET serviced == master \cup {Input(line)}
      cascaded == IF line > 7 THEN slave \cup {line} ELSE slave
  IN /\ takes /\ Passes(line)
     /\ requested' = requested \ {line}
     /\ IF line \in handlers
          THEN /\ master' = WithoutHighest(serviced)
               /\ slave' = IF EndsSlave(line) THEN WithoutHighest(cascaded) ELSE cascaded
               /\ command' = IF line = Disk THEN "done" ELSE command
               /\ UNCHANGED lost
          ELSE /\ master' = serviced /\ slave' = cascaded
               /\ lost' = lost \cup {line}
               /\ UNCHANGED command
     /\ UNCHANGED <<step, takes, handlers, devices, threads, events, commands>>

-----------------------------------------------------------------------------
\* k_dev_CreateDevice appends; k_dev_StartDevice starts no device without a driver.
Device(name) == [name |-> name, status |-> "not initialized"]
CreateDevice(name) == devices' = Append(devices, Device(name))
StartDevice(name) == threads' = IF name = "disk" THEN threads \cup {name} ELSE threads
SetInterruptHandler(line) == handlers' = handlers \cup {line}

At(now, next) == step = now /\ step' = next /\ UNCHANGED <<events, lost>>

\* The handler comes before the controllers are set up, which forget what they held.
InitControllers == /\ At("controllers", "disk")
                   /\ SetInterruptHandler(Timer)
                   /\ requested' = {} /\ master' = {} /\ slave' = {}
                   /\ UNCHANGED <<takes, devices, threads, command, commands>>

DiskHandlers == SetInterruptHandler(Disk)
CreateDisk == /\ At("disk", "identify")
              /\ CreateDevice("disk") /\ DiskHandlers
              /\ UNCHANGED <<controllers, takes, threads, command, commands>>

\* k_IDE_Identify lets interrupts in while it spins on the command's condition.
Opens_Late == takes
Opens == TRUE
Identify == /\ At("identify", "spin")
            /\ takes' = Opens /\ command' = "sent"
            /\ UNCHANGED <<controllers, handlers, devices, threads, commands>>

Identified == /\ At("spin", "keyboard") /\ command = "done"
              /\ takes' = FALSE /\ command' = "none" /\ StartDevice("disk")
              /\ UNCHANGED <<controllers, handlers, devices, commands>>

CreateKeyboard == /\ At("keyboard", "enable")
                  /\ CreateDevice("keyboard") /\ SetInterruptHandler(Keyboard)
                  /\ StartDevice("keyboard")
                  /\ UNCHANGED <<controllers, takes, command, commands>>

Enable == /\ At("enable", "main") /\ takes' = TRUE
          /\ UNCHANGED <<controllers, handlers, devices, threads, command, commands>>

Boot == InitControllers \/ CreateDisk \/ Identify \/ Identified \/ CreateKeyboard \/ Enable

\* The disk's thread, once it runs, and its commands, one by one.
DeviceReady == /\ step = "main" /\ "disk" \in threads /\ devices[1].status # "ready"
               /\ devices' = [devices EXCEPT ![1].status = "ready"]
               /\ UNCHANGED <<controllers, step, takes, handlers, threads, command, lost,
                              events, commands>>

SendCommand == /\ devices # <<>> /\ devices[1].status = "ready" /\ commands < MaxCommands
               /\ command # "sent"
               /\ command' = "sent" /\ commands' = commands + 1
               /\ UNCHANGED <<controllers, step, takes, handlers, devices, threads, lost, events>>

Next == \/ \E line \in {Timer, Keyboard} : Event(line)
        \/ \E line \in Lines : Interrupt(line)
        \/ DiskDone \/ Boot \/ DeviceReady \/ SendCommand

\* The CPU and the disk go on; nobody has to press a key.
Fairness == /\ WF_vars(Boot) /\ WF_vars(DiskDone) /\ WF_vars(DeviceReady)
            /\ \A line \in Lines : WF_vars(Interrupt(line))
Spec == Init /\ [][Next]_vars /\ Fairness

-----------------------------------------------------------------------------
\* When no handler runs, no line is held back: nothing is left in service in either
\* controller, unless a line was dispatched to no handler, and that is only a key.
NothingLeftInService ==
  /\ lost \subseteq {Keyboard}
  /\ lost = {} => master = {} /\ slave = {}

\* The start ends and every disk command is answered, however ticks and keys come in,
\* unless a key was pressed while there was no handler for it.  (Then its line stays in
\* service, and the disk's line behind it.)
StartEnds == <>(step = "main" \/ lost # {})
DiskAnswers == command = "sent" ~> (command # "sent" \/ lost # {})
=============================================================================
