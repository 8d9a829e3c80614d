-------------------------------- MODULE Kernel --------------------------------
(***************************************************************************)
(* kernelMain from its first line to its endless loop, on a machine whose  *)
(* PCI bus is not known in advance: the tables of tasks, interrupt         *)
(* handlers, drivers and timers, the interrupt controllers, the scheduler, *)
(* and the screen (Console), which the main loop, the tasks and the        *)
(* handlers print on.                                                      *)
(*                                                                         *)
(* All gates are interrupt gates: a handler, with everything it calls, is  *)
(* one step, and is taken between any two steps of what it interrupts.     *)
(* What a card's handler does with frames is in Network.                   *)
(***************************************************************************)
EXTENDS Console, Pci, FiniteSets

CONSTANTS
    CardLines,      \* interrupt lines the firmware may give a card
    Pushes,         \* displacements the mouse reports
    MaxCards,       \* cards on the bus (bound)
    MaxTasks,       \* entries of tasks (256)
    MaxTimers       \* sockets the application opens (bound)

ASSUME KernelAssumption ==
    /\ CardLines \subseteq 1 .. 15
    /\ Pushes \subseteq -128 .. 127
    /\ MaxTasks \in Nat /\ MaxTimers \in Nat /\ MaxCards \in Nat

TimerLine == 0
KeyboardLine == 1
MouseLine == 12
SyscallVector == 128    \* 0xA0, which the stub of int 0x80 passes on, less 0x20
Lines   == {TimerLine, KeyboardLine, MouseLine} \cup CardLines
Vectors == Lines \cup {SyscallVector}

(* Drivers and handlers; the cards are made by the search of the bus.      *)
Keyboard == [kind |-> "keyboard", line |-> KeyboardLine]
Mouse    == [kind |-> "mouse", line |-> MouseLine]
Timer    == [kind |-> "timer", line |-> TimerLine]
Syscall  == [kind |-> "syscall", line |-> SyscallVector]
None     == [kind |-> "none", line |-> -1]
Unset    == [kind |-> "garbage", line |-> -1]

(* A device of two functions and one of one: nothing, a bridge, or a card  *)
(* with a memory register and a port; at most MaxCards of them (bound).    *)
Bridge  == [Absent EXCEPT !.vendor = "other", !.header = 1]
Port(l) == 1000 + l
CardOn(l) ==
    [Absent EXCEPT !.vendor = "am79c973", !.line = l,
                   !.bars = [@ EXCEPT ![0] = [io |-> TRUE, address |-> Port(l)],
                                      ![1] = [io |-> FALSE, address |-> 7]]]
Functions == {Absent, Bridge} \cup {CardOn(l) : l \in CardLines}
Machines  ==
    {m \in {<<d, [multi |-> FALSE, functions |-> <<f>>]>> :
               d \in [multi : BOOLEAN, functions : [1 .. 2 -> Functions]],
               f \in Functions} :
        Len(SelectDrivers(m)) <= MaxCards}

Tasks == 1 .. MaxTasks

VARIABLES
    machine,            \* the devices on the PCI bus, till they are searched
    handlers,           \* the handler of each vector
    drivers, active,    \* the list of drivers, and those that were activated
    eth0,               \* what kernelMain takes for the card
    enabled,            \* interrupts are on
    inService,          \* lines of the interrupt controllers that await an EOI
    numTasks, currentTask,  \* currentTask = 0 stands for -1: none yet
    cpustate,           \* the frame that each task's cpustate points to
    running, place,     \* whose code the CPU executes (0: main), and where
    left,               \* history: where each task was interrupted
    stored, numTimers,  \* how far timers[] is filled, and its counter
    unset,              \* history: a tick called an entry that was not filled
    offset, push,       \* mouse: bytes of the packet so far, and buffer[1]
    sent, ack           \* the mouse's side: bytes sent, its answer to 0xF4

boot  == <<machine, handlers, drivers, active, eth0, enabled, numTasks>>
tasks == <<currentTask, cpustate, running, place, left>>
timer == <<stored, numTimers, unset>>
ps2   == <<offset, push, sent, ack>>
vars  == <<shared, locals, boot, tasks, inService, timer, ps2>>

Init ==
    /\ ConsoleInit /\ pc = "tasks"
    /\ machine \in Machines
    /\ handlers = [v \in Vectors |-> Unset]
    /\ drivers = <<>> /\ active = {} /\ eth0 = None
    /\ enabled = FALSE /\ inService = {}
    /\ numTasks = 0 /\ currentTask = 0
    /\ cpustate = [t \in Tasks |-> [thread |-> t, place |-> 0]]
    /\ running = 0 /\ place = 0 /\ left = [t \in Tasks |-> 0]
    /\ stored = 0 /\ numTimers = 0 /\ unset = FALSE
    /\ offset = 0 /\ push = 0 /\ sent = 0 /\ ack = FALSE

-----------------------------------------------------------------------------
(* Boot, with interrupts off.  What it prints only moves the cursor.       *)

Boot(from, to) ==
    /\ pc = from /\ pc' = to
    /\ UNCHANGED <<tasks, inService, tmp, at, swapped, screen, strayed>>

(* AddTask refuses when the table is full.                                 *)
AddTask ==
    /\ Boot("tasks", "tasks")
    /\ numTasks < MaxTasks
    /\ numTasks' = numTasks + 1
    /\ UNCHANGED <<machine, handlers, drivers, active, eth0, enabled,
                   cursor, timer, ps2>>

(* InterruptManager clears the table; SyscallHandler enters itself.        *)
MakeInterruptManager ==
    /\ Boot("tasks", "devices")
    /\ handlers' = [v \in Vectors |->
                       IF v = SyscallVector THEN Syscall ELSE None]
    /\ UNCHANGED <<machine, drivers, active, eth0, enabled, numTasks,
                   cursor, timer, ps2>>

(* Mutant: whoever is there stays.                                         *)
RegisteredFirst(table, new) ==
    [v \in Vectors |->
        LET mine == {n \in DOMAIN new : new[n].line = v}
        IN  IF mine = {} \/ table[v] # None THEN table[v] ELSE new[Min(mine)]]

(* An InterruptHandler enters itself in the table over whoever is there;   *)
(* AddDriver appends.                                                      *)
Registered(table, new) ==
    [v \in Vectors |->
        LET mine == {n \in DOMAIN new : new[n].line = v}
        IN  IF mine = {} THEN table[v] ELSE new[Max(mine)]]

Adds(new) ==
    /\ handlers' = Registered(handlers, new)
    /\ drivers' = drivers \o new
    /\ UNCHANGED <<active, eth0, enabled, numTasks, cursor, timer, ps2>>

MakeKeyboardAndMouse ==
    Boot("devices", "pci") /\ Adds(<<Keyboard, Mouse>>) /\ UNCHANGED machine

SearchPci ==
    LET found == SelectDrivers(machine) IN
    /\ Boot("pci", "timer")
    /\ \E port \in [DOMAIN found -> UNION {PortBases(found[n]) : n \in DOMAIN found}] :
          /\ \A n \in DOMAIN found : port[n] \in PortBases(found[n])
          /\ Adds([n \in DOMAIN found |->
                      [kind |-> "card", line |-> found[n].line,
                       port |-> port[n], id |-> n]])
    /\ machine' = <<>>

MakeTimer == Boot("timer", "activate") /\ Adds(<<Timer>>) /\ UNCHANGED machine

(* ActivateAll: the timer empties its table, the mouse driver starts a     *)
(* packet.  The mouse's answer to 0xF4 is read at once (mouse.cpp 64), or  *)
(* it comes later and is left for the first interrupt.                     *)
ActivateAll ==
    /\ Boot("activate", "card")
    /\ active' = {drivers[n] : n \in DOMAIN drivers}
    /\ numTimers' = 0 /\ offset' = 0 /\ ack' \in BOOLEAN
    /\ UNCHANGED <<machine, handlers, drivers, eth0, enabled, numTasks,
                   cursor, stored, unset, push, sent>>

(* eth0 = drvManager.drivers[2], whatever that is.                         *)
TakeCard ==
    /\ Boot("card", "sti")
    /\ eth0' = drivers[3]
    /\ UNCHANGED <<machine, handlers, drivers, active, enabled, numTasks,
                   cursor, timer, ps2>>

(* The providers of the network, Activate, and the y = 0 that starts       *)
(* clearscreen.  The cursor is where the messages of boot left it.         *)
ActivateInterrupts ==
    /\ Boot("sti", "row")
    /\ enabled' = TRUE
    /\ x' \in 0 .. Width - 1 /\ y' = 0
    /\ UNCHANGED <<machine, handlers, drivers, active, eth0, numTasks,
                   timer, ps2>>

Boots ==
    \/ AddTask \/ MakeInterruptManager \/ MakeKeyboardAndMouse \/ SearchPci
    \/ MakeTimer \/ ActivateAll \/ TakeCard \/ ActivateInterrupts

-----------------------------------------------------------------------------
(* The main loop: it prints, and opens sockets, whose Timer enters itself  *)
(* in timers[] and then counts itself.                                     *)

Prints == MainPrints /\ UNCHANGED timer

(* Mutant: the timer counts itself first.                                  *)
StoreTimerCounted ==
    /\ pc = "next" /\ numTimers < MaxTimers
    /\ numTimers' = numTimers + 1
    /\ Goto("count") /\ JustTest
    /\ UNCHANGED <<stored, unset>>

StoreTimer ==
    /\ pc = "next" /\ numTimers < MaxTimers
    /\ stored' = numTimers + 1
    /\ Goto("count") /\ JustTest
    /\ UNCHANGED <<numTimers, unset>>

CountTimer ==
    /\ pc = "count"
    /\ numTimers' = numTimers + 1
    /\ Goto("next") /\ JustTest
    /\ UNCHANGED <<stored, unset>>

MainLoop ==
    /\ enabled /\ running = 0
    /\ Prints \/ StoreTimer \/ CountTimer
    /\ UNCHANGED <<boot, tasks, inService, ps2>>

-----------------------------------------------------------------------------
(* Interrupts                                                              *)

(* KeyboardDriver: a key prints its character or its number; a release     *)
(* does nothing.                                                           *)
OnKey == /\ UNCHANGED shared \/ \E text \in Texts : PrintText(text)
         /\ UNCHANGED <<timer, ps2>>

(* TimerDriver: Expired of every timer counted.                            *)
OnTick == /\ unset' = (unset \/ numTimers > stored)
          /\ UNCHANGED <<shared, stored, numTimers, ps2>>

(* Mutant: the packet is read with x and y exchanged.                      *)
OnMouseByteSwapped(byte) ==
    /\ offset' = (offset + 1) % 3
    /\ push' = IF offset = 1 THEN byte ELSE 0
    /\ IF offset = 2 /\ (push # 0 \/ byte # 0)
       THEN OnMouseMove(byte, -push)
       ELSE UNCHANGED shared

(* MouseDriver: the third byte completes a packet.  The first one is only  *)
(* about buttons, to which MouseToConsole does not react.                  *)
OnMouseByte(byte) ==
    /\ offset' = (offset + 1) % 3
    /\ push' = IF offset = 1 THEN byte ELSE 0
    /\ IF offset = 2 /\ (push # 0 \/ byte # 0)
       THEN OnMouseMove(push, -byte)
       ELSE UNCHANGED shared

(* What the mouse sends: its answer 0xFA if nobody read it, then packets   *)
(* of flags (8: no button) and two displacements.                          *)
OnMouse ==
    /\ IF ack
       THEN OnMouseByte(Int8(250)) /\ ack' = FALSE /\ UNCHANGED sent
       ELSE /\ \E byte \in IF sent = 0 THEN {8} ELSE Pushes : OnMouseByte(byte)
            /\ sent' = (sent + 1) % 3 /\ UNCHANGED ack
    /\ UNCHANGED timer

(* A card's handler, and the message about an interrupt without a handler. *)
OnCard == /\ UNCHANGED shared \/ \E text \in Texts : PrintText(text)
          /\ UNCHANGED <<timer, ps2>>

Unhandled(v) ==
    /\ IF v = TimerLine THEN UNCHANGED shared ELSE PrintText("message")
    /\ UNCHANGED <<timer, ps2>>

OnSyscall == /\ \E text \in Texts : PrintText(text)
             /\ UNCHANGED <<timer, ps2>>

Handle(v) ==
    CASE handlers[v].kind = "keyboard" -> OnKey
      [] handlers[v].kind = "mouse"    -> OnMouse
      [] handlers[v].kind = "timer"    -> OnTick
      [] handlers[v].kind = "card"     -> OnCard
      [] handlers[v].kind = "syscall"  -> OnSyscall
      [] OTHER -> Unhandled(v)

(* Schedule saves the frame of the task that was interrupted, if there is  *)
(* one, and goes on with the next.  The frame of main is dropped.          *)
Frame == [thread |-> running, place |-> place]

Saved == IF currentTask = 0 THEN cpustate
         ELSE [cpustate EXCEPT ![currentTask] = Frame]

(* Mutant: after the last task there is no first one.                      *)
FollowingLast == IF currentTask < numTasks THEN currentTask + 1 ELSE currentTask

Following == (currentTask % numTasks) + 1

(* Mutant: the frame is saved for the task that comes next.                *)
ScheduleLate ==
    IF numTasks = 0 THEN UNCHANGED <<currentTask, cpustate, running, place>>
    ELSE /\ cpustate' = IF currentTask = 0 THEN cpustate
                        ELSE [cpustate EXCEPT ![Following] = Frame]
         /\ currentTask' = Following
         /\ running' = cpustate'[Following].thread
         /\ place' = cpustate'[Following].place

Schedule ==
    IF numTasks = 0 THEN UNCHANGED <<currentTask, cpustate, running, place>>
    ELSE /\ cpustate' = Saved
         /\ currentTask' = Following
         /\ running' = Saved[Following].thread
         /\ place' = Saved[Following].place

(* The two controllers.  A line waits while its controller serves one of   *)
(* its rank or above; the second controller hangs on line 2 of the first.  *)
Blocked(l) ==
    \/ \E s \in inService : (s < 8) = (l < 8) /\ s <= l
    \/ l >= 8 /\ \E s \in inService : s <= 2

Requested(l) == inService \cup (IF l < 8 THEN {l} ELSE {2, l})

(* An EOI ends the service of the highest rank.                            *)
Ended(lines, chip) ==
    IF lines \cap chip = {} THEN lines ELSE lines \ {Min(lines \cap chip)}

Acknowledged(lines, l) ==
    IF l < 8 THEN Ended(lines, 0 .. 7)
             ELSE Ended(Ended(lines, 0 .. 7), 8 .. 15)

(* With the frame of main its place in printf and its registers are lost.  *)
LeavesMain ==
    IF running = 0 /\ running' # 0
    THEN pc' = "lost" /\ tmp' = 0 /\ at' = 0 /\ swapped' = FALSE
    ELSE UNCHANGED locals

(* DoHandleInterrupt for a line: the handler, the scheduler, the EOIs.     *)
Interrupt(l) ==
    /\ enabled /\ ~Blocked(l)
    /\ Handle(l)
    /\ left' = IF running = 0 THEN left ELSE [left EXCEPT ![running] = place]
    /\ IF l = TimerLine THEN Schedule
       ELSE UNCHANGED <<currentTask, cpustate, running, place>>
    /\ LeavesMain
    /\ inService' = Acknowledged(Requested(l), l)
    /\ UNCHANGED boot

(* A task computes, and asks for a system call, which acknowledges nothing *)
(* and does not schedule.                                                  *)
TaskComputes ==
    /\ running # 0 /\ place = 0
    /\ place' = 1
    /\ UNCHANGED <<shared, locals, boot, currentTask, cpustate, running, left,
                   inService, timer, ps2>>

TaskCalls ==
    /\ running # 0 /\ place = 1
    /\ Handle(SyscallVector)
    /\ place' = 0
    /\ UNCHANGED <<locals, boot, currentTask, cpustate, running, left, inService>>

Next ==
    \/ Boots
    \/ MainLoop
    \/ \E l \in Lines : Interrupt(l)
    \/ TaskComputes \/ TaskCalls

Spec == Init /\ [][Next]_vars

(* Boot goes on, and the timer interrupts for ever.                        *)
Fairness == WF_vars(Boots) /\ WF_vars(Interrupt(TimerLine))

FairSpec == Spec /\ Fairness

-----------------------------------------------------------------------------
(* Properties                                                              *)

TypeOK ==
    /\ handlers \in [Vectors -> {drivers[n] : n \in DOMAIN drivers}
                                   \cup {None, Unset, Syscall}]
    /\ enabled \in BOOLEAN
    /\ inService \in SUBSET (0 .. 15)
    /\ numTasks \in 0 .. MaxTasks /\ currentTask \in 0 .. numTasks
    /\ running \in 0 .. numTasks /\ place \in 0 .. 1
    /\ cpustate \in [Tasks -> [thread : 0 .. MaxTasks, place : 0 .. 1]]
    /\ left \in [Tasks -> 0 .. 1]
    /\ stored \in 0 .. MaxTimers /\ numTimers \in 0 .. MaxTimers
    /\ offset \in 0 .. 2 /\ sent \in 0 .. 2 /\ ack \in BOOLEAN

(* When interrupts come on, every driver is activated and stands in the    *)
(* handler table, unless a later one has the same line; drivers[2] is the  *)
(* first card of the bus if there is one, with its own port; and from then *)
(* on no line of the interrupt controllers waits for an EOI between        *)
(* handlers.                                                               *)
Cards == {n \in DOMAIN drivers : drivers[n].kind = "card"}

EveryDriverIsHeard ==
    /\ TypeOK
    /\ enabled =>
        /\ \A n \in DOMAIN drivers :
              /\ drivers[n] \in active
              /\ \/ handlers[drivers[n].line] = drivers[n]
                 \/ \E m \in DOMAIN drivers :
                       m > n /\ drivers[m].line = drivers[n].line
        /\ Cards # {} => eth0 = drivers[Min(Cards)] /\ eth0.port = Port(eth0.line)
        /\ inService = {}

(* A task that does not run has its own frame saved, as it was when it was *)
(* interrupted; main runs until the first tick that finds a task, and then *)
(* never again.                                                            *)
FramesAreOwn ==
    /\ running = currentTask
    /\ \A t \in Tasks \ {running} :
          cpustate[t] = [thread |-> t, place |-> left[t]]

(* The tick only calls timers that were entered, and forgets none that was *)
(* counted.                                                                *)
NoWildTimer == ~unset /\ numTimers <= stored /\ stored <= numTimers + 1

(* While the driver is in step with the mouse, its cursor goes the way the *)
(* mouse was pushed; only a push right whose sum leaves the int8_t takes   *)
(* it against the push, to the left edge.                                  *)
AsPushed ==
    IF mouse.x + push < 128
    THEN /\ push >= 0 => mouse'.x >= mouse.x
         /\ push <= 0 => mouse'.x <= mouse.x
    ELSE mouse'.x = 0

MovesAsPushed ==
    [][offset = 2 /\ offset' = 0 /\ sent = 2 /\ ~ack => AsPushed]_vars

(* With tasks, each one runs again and again.                              *)
EveryTaskRuns == \A t \in Tasks : (enabled /\ t <= numTasks) ~> (running = t)
===============================================================================
