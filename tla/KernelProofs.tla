----------------------------- MODULE KernelProofs -----------------------------
(***************************************************************************)
(* What holds of Kernel for every screen, every number of tasks, timers    *)
(* and cards, and whatever lies on the bus: the screen shows one mouse     *)
(* cursor and is written at most one row and one cell too far, every driver*)
(* is heard, the tick calls no timer that was not entered, each task keeps *)
(* its own frame, and the cursor follows the mouse.                        *)
(***************************************************************************)
EXTENDS Kernel, TLAPS, WellFoundedInduction

(* What the steps of boot, which are named by pc, have in common.          *)
Booting == {"tasks", "devices", "pci", "timer", "activate", "card", "sti"}

(* A step of boot is a step of Boot, and enables interrupts at its end.    *)
LEMMA BootSteps ==
    ASSUME Boots
    PROVE  /\ pc \in Booting
           /\ \/ pc' \in Booting /\ enabled' = enabled
              \/ pc' = "row" /\ enabled' = TRUE
           /\ UNCHANGED <<tasks, inService, tmp, at, swapped, screen, strayed>>
           /\ UNCHANGED <<stored, unset, push, sent>>
           /\ numTimers' \in {numTimers, 0} /\ offset' \in {offset, 0}
<1> USE DEF Boot, Booting, timer, ps2
<1>1. CASE AddTask
  BY <1>1 DEF AddTask
<1>2. CASE MakeInterruptManager
  BY <1>2 DEF MakeInterruptManager
<1>3. CASE MakeKeyboardAndMouse
  BY <1>3 DEF MakeKeyboardAndMouse, Adds
<1>4. CASE SearchPci
  BY <1>4 DEF SearchPci, Adds
<1>5. CASE MakeTimer
  BY <1>5 DEF MakeTimer, Adds
<1>6. CASE ActivateAll
  BY <1>6 DEF ActivateAll
<1>7. CASE TakeCard
  BY <1>7 DEF TakeCard
<1>8. CASE ActivateInterrupts
  BY <1>8 DEF ActivateInterrupts
<1> QED BY <1>1, <1>2, <1>3, <1>4, <1>5, <1>6, <1>7, <1>8 DEF Boots

(* A handler is one of six.                                                *)
LEMMA HandlerCases ==
    ASSUME NEW v, Handle(v)
    PROVE  OnKey \/ OnMouse \/ OnTick \/ OnCard \/ OnSyscall \/ Unhandled(v)
BY DEF Handle

(* What a handler prints or does with the mouse, it does to the screen, and *)
(* it leaves the main loop's registers alone.                              *)
LEMMA HandlerSteps ==
    ASSUME NEW v, Handle(v)
    PROVE  /\ \/ UNCHANGED shared
              \/ \E text \in Texts : PrintText(text)
              \/ \E dx, dy : OnMouseMove(dx, dy)
           /\ UNCHANGED <<stored, numTimers>>
           /\ ~unset /\ ~(numTimers > stored) => ~unset'
<1>1. CASE OnKey \/ OnCard \/ OnSyscall
  BY <1>1 DEF OnKey, OnCard, OnSyscall, timer
<1>2. CASE OnMouse
  BY <1>2 DEF OnMouse, OnMouseByte, timer
<1>3. CASE OnTick
  BY <1>3 DEF OnTick
<1>4. CASE Unhandled(v)
  BY <1>4 DEF Unhandled, Texts, timer
<1> QED BY <1>1, <1>2, <1>3, <1>4, HandlerCases

-----------------------------------------------------------------------------
(* The screen                                                              *)

(* Until a handler comes in between, the cell that was looked up is the    *)
(* one that is about to be written, with its own colours.                  *)
HoldsItsCell ==
    pc \in {"write", "blank"} => /\ at = Cell(x, y)
                                /\ swapped = (at \in inverted)

ScreenInv == ~torn => inverted = {MouseCell} /\ HoldsItsCell

LEMMA PrintsKeep ==
    ASSUME ScreenInv, MainPrints
    PROVE  ScreenInv'
<1> USE DEF ScreenInv, HoldsItsCell, MouseCell, cursor, screen
<1>1. CASE NextCharacter
  BY <1>1 DEF NextCharacter, LookUp, SetX, SetY, Goto
<1>2. CASE PutCharacter
  BY <1>2 DEF PutCharacter, Store, Load, SetX, Goto
<1>3. CASE NextLine
  BY <1>3 DEF NextLine, Load, SetX, SetY, JustTest, Goto
<1>4. CASE Clear
  BY <1>4 DEF Clear, LookUp, Store, Load, SetX, SetY, Goto
<1> QED BY <1>1, <1>2, <1>3, <1>4 DEF MainPrints

LEMMA HandlersKeep ==
    ASSUME ScreenInv, NEW v, Handle(v),
           pc' = "lost" \/ UNCHANGED locals
    PROVE  ScreenInv'
<1> USE DEF ScreenInv, HoldsItsCell, MouseCell, cursor, screen, shared, locals
<1>1. CASE UNCHANGED shared
  BY <1>1
<1>2. ASSUME NEW text \in Texts, PrintText(text) PROVE ScreenInv'
  BY <1>2 DEF PrintText, Interrupted
<1>3. ASSUME NEW dx, NEW dy, OnMouseMove(dx, dy) PROVE ScreenInv'
  <2> DEFINE to == [x |-> Clamp(Int8(mouse.x + dx), Width),
                    y |-> Clamp(Int8(mouse.y + dy), Height)]
  <2>1. /\ mouse' = to
        /\ inverted' = Toggle(Toggle(inverted, MouseCell), Cell(to.x, to.y))
        /\ torn' = (torn \/ pc \in {"write", "blank"})
        /\ UNCHANGED cursor
    BY <1>3 DEF OnMouseMove, Interrupted
  <2>2. MouseCell' = Cell(to.x, to.y)
    BY <2>1 DEF Cell
  <2>3. ~torn' => ~torn /\ pc \notin {"write", "blank"}
    BY <2>1
  <2>4. \A c, d : Toggle(Toggle({c}, c), d) = {d}
    BY DEF Toggle
  <2> QED BY <2>1, <2>2, <2>3, <2>4
<1> QED BY <1>1, <1>2, <1>3, HandlerSteps

(* One cell shows the mouse, and it is where the mouse is, until a handler *)
(* comes between the look-up of a cell and the writing of it.              *)
THEOREM CursorIsOne == Spec => []OneCursor
<1>1. Init => ScreenInv
  BY DEF Init, ConsoleInit, ScreenInv, HoldsItsCell
<1>2. ScreenInv /\ [Next]_vars => ScreenInv'
  <2> SUFFICES ASSUME ScreenInv, [Next]_vars PROVE ScreenInv'
    OBVIOUS
  <2>1. CASE Boots
    BY <2>1, BootSteps DEF Booting, ScreenInv, HoldsItsCell, MouseCell, screen, Cell
  <2>2. CASE MainLoop
    <3>1. CASE Prints
      BY <3>1, PrintsKeep DEF Prints
    <3>2. CASE StoreTimer \/ CountTimer
      BY <3>2 DEF StoreTimer, CountTimer, JustTest, Goto, ScreenInv,
                  HoldsItsCell, MouseCell, screen, cursor, Cell
    <3> QED BY <2>2, <3>1, <3>2 DEF MainLoop
  <2>3. ASSUME NEW l \in Lines, Interrupt(l) PROVE ScreenInv'
    BY <2>3, HandlersKeep DEF Interrupt, LeavesMain
  <2>4. CASE TaskComputes
    BY <2>4 DEF TaskComputes, ScreenInv, HoldsItsCell, MouseCell, screen,
                cursor, shared, locals, Cell
  <2>5. CASE TaskCalls
    BY <2>5, HandlersKeep DEF TaskCalls
  <2>6. CASE UNCHANGED vars
    BY <2>6 DEF vars, ScreenInv, HoldsItsCell, MouseCell, screen, cursor,
                shared, locals, Cell
  <2> QED BY <2>1, <2>2, <2>3, <2>4, <2>5, <2>6 DEF Next
<1>3. ScreenInv => OneCursor
  BY DEF ScreenInv, OneCursor
<1> QED BY <1>1, <1>2, <1>3, PTL DEF Spec

-----------------------------------------------------------------------------
(* Boot and timers                                                         *)

(* Boot runs with interrupts off, and alone.  The mouse has sent nothing   *)
(* yet, no socket has a timer, and nothing is in the scheduler's tables.   *)
BootAlone ==
    /\ enabled \in BOOLEAN
    /\ enabled <=> pc \notin Booting
    /\ ~enabled => /\ stored = 0 /\ numTimers = 0 /\ offset = 0 /\ push = 0
                   /\ currentTask = 0 /\ running = 0

LEMMA InitBoot == Init => BootAlone
BY DEF Init, BootAlone, Booting

(* The labels of the main loop are none of those of boot.                  *)
LEMMA LoopLabels ==
    ASSUME MainLoop
    PROVE  pc' \notin Booting /\ UNCHANGED <<boot, tasks, inService, ps2>>
<1> USE DEF Booting, Goto
<1>1. CASE Prints
  BY <1>1 DEF MainLoop, Prints, MainPrints, NextCharacter, PutCharacter, NextLine, Clear
<1>2. CASE StoreTimer \/ CountTimer
  BY <1>2 DEF MainLoop, StoreTimer, CountTimer
<1> QED BY <1>1, <1>2 DEF MainLoop

LEMMA NextBoot == BootAlone /\ [Next]_vars => BootAlone'
<1> SUFFICES ASSUME BootAlone, [Next]_vars PROVE BootAlone'
  OBVIOUS
<1>1. CASE Boots
  <2>1. enabled = FALSE
    BY <1>1, BootSteps DEF BootAlone
  <2>2. /\ UNCHANGED <<stored, push, currentTask, running>>
        /\ numTimers' \in {numTimers, 0} /\ offset' \in {offset, 0}
    BY <1>1, BootSteps DEF tasks
  <2>3. CASE pc' \in Booting /\ enabled' = enabled
    BY <2>1, <2>2, <2>3 DEF BootAlone
  <2>4. CASE pc' = "row" /\ enabled' = TRUE
    BY <2>4 DEF BootAlone, Booting
  <2> QED BY <1>1, <2>3, <2>4, BootSteps
<1>2. CASE MainLoop
  BY <1>2, LoopLabels DEF BootAlone, boot, MainLoop
<1>3. ASSUME NEW l \in Lines, Interrupt(l) PROVE BootAlone'
  BY <1>3 DEF BootAlone, Interrupt, LeavesMain, locals, boot, Booting
<1>4. CASE TaskComputes \/ TaskCalls
  BY <1>4 DEF BootAlone, TaskComputes, TaskCalls, locals, boot
<1>5. CASE UNCHANGED vars
  BY <1>5 DEF BootAlone, vars, locals, boot, tasks, timer, ps2
<1> QED BY <1>1, <1>2, <1>3, <1>4, <1>5 DEF Next

(* Until interrupts come on, nothing runs but boot.                        *)
THEOREM BootIsAlone == Spec => []BootAlone
<1> QED BY InitBoot, NextBoot, PTL DEF Spec

(* What is counted was entered, and at most one timer is not counted yet.  *)
TimerInv ==
    /\ unset = FALSE
    /\ numTimers \in Nat /\ stored \in {numTimers, numTimers + 1}
    /\ pc = "count" => stored = numTimers + 1

LEMMA MainTimers ==
    ASSUME TimerInv, MainLoop
    PROVE  TimerInv'
<1>1. CASE Prints
  <2>1. pc' # "count"
    BY <1>1 DEF Prints, MainPrints, NextCharacter, PutCharacter, NextLine, Clear, Goto
  <2> QED BY <1>1, <2>1 DEF Prints, timer, TimerInv
<1>2. CASE StoreTimer
  BY <1>2 DEF StoreTimer, TimerInv, Goto
<1>3. CASE CountTimer
  BY <1>3 DEF CountTimer, TimerInv, Goto
<1> QED BY <1>1, <1>2, <1>3 DEF MainLoop

LEMMA HandlerTimers ==
    ASSUME TimerInv, NEW v, Handle(v), pc' = "lost" \/ UNCHANGED locals
    PROVE  TimerInv'
<1>1. ~(numTimers > stored) /\ ~unset
  BY DEF TimerInv
<1>2. UNCHANGED <<stored, numTimers>> /\ ~unset'
  BY <1>1, HandlerSteps
<1>3. unset' \in BOOLEAN
  BY <1>1, HandlerCases
     DEF OnKey, OnMouse, OnTick, OnCard, OnSyscall, Unhandled, timer, TimerInv
<1> QED BY <1>2, <1>3 DEF TimerInv, locals

LEMMA InitTimers == Init => TimerInv
BY DEF Init, TimerInv

LEMMA NextTimers == BootAlone /\ TimerInv /\ [Next]_vars => TimerInv'
<1> SUFFICES ASSUME BootAlone, TimerInv, [Next]_vars PROVE TimerInv'
  OBVIOUS
<1>1. CASE Boots
  <2>1. stored = 0 /\ numTimers = 0
    BY <1>1, BootSteps DEF BootAlone
  <2> QED BY <1>1, <2>1, BootSteps DEF TimerInv, Booting
<1>2. CASE MainLoop
  BY <1>2, MainTimers
<1>3. ASSUME NEW l \in Lines, Interrupt(l) PROVE TimerInv'
  BY <1>3, HandlerTimers DEF Interrupt, LeavesMain
<1>4. CASE TaskComputes
  BY <1>4 DEF TaskComputes, TimerInv, timer, locals
<1>5. CASE TaskCalls
  BY <1>5, HandlerTimers DEF TaskCalls
<1>6. CASE UNCHANGED vars
  BY <1>6 DEF vars, TimerInv, timer, locals
<1> QED BY <1>1, <1>2, <1>3, <1>4, <1>5, <1>6 DEF Next

(* The tick calls no timer that was not entered, and forgets none that was *)
(* counted.                                                                *)
THEOREM TimersAreTame == Spec => []NoWildTimer
<1>1. TimerInv => NoWildTimer
  BY DEF TimerInv, NoWildTimer
<1> QED BY <1>1, InitTimers, NextTimers, BootIsAlone, PTL DEF Spec

-----------------------------------------------------------------------------
(* Tasks                                                                   *)

(* The scheduler's tables.                                                 *)
TaskTypes ==
    /\ numTasks \in 0 .. MaxTasks /\ currentTask \in 0 .. numTasks
    /\ DOMAIN cpustate = Tasks /\ DOMAIN left = Tasks
    /\ cpustate = [t \in Tasks |-> cpustate[t]]
    /\ left = [t \in Tasks |-> left[t]]

TaskInv == TaskTypes /\ FramesAreOwn

(* The next task is one of the tasks.                                      *)
LEMMA FollowingIsTask ==
    ASSUME TaskTypes, numTasks # 0
    PROVE  Following \in 1 .. numTasks /\ Following \in Tasks
<1>1. \A n \in Nat \ {0}, c \in Nat : (c % n) + 1 \in 1 .. n
  BY SMT
<1>2. numTasks \in Nat \ {0} /\ currentTask \in Nat /\ MaxTasks \in Nat
  BY KernelAssumption DEF TaskTypes
<1> QED BY <1>1, <1>2 DEF Following, Tasks, TaskTypes

(* The frame of the task that is left is saved as its own, and that of the *)
(* next one is taken up.                                                   *)
LEMMA ScheduleKeeps ==
    ASSUME TaskInv, Schedule, UNCHANGED numTasks,
           left' = IF running = 0 THEN left ELSE [left EXCEPT ![running] = place]
    PROVE  TaskInv'
<1>1. CASE numTasks = 0
  <2>1. running = 0 /\ UNCHANGED <<currentTask, cpustate, running, place, left>>
    BY <1>1 DEF Schedule, TaskInv, TaskTypes, FramesAreOwn
  <2> QED BY <2>1 DEF TaskInv, TaskTypes, FramesAreOwn
<1>2. CASE numTasks # 0
  <2> DEFINE f == Following
  <2>1. f \in 1 .. numTasks /\ f \in Tasks
    BY <1>2, FollowingIsTask DEF TaskInv
  <2>2. /\ cpustate' = Saved /\ currentTask' = f
        /\ running' = Saved[f].thread
    BY <1>2 DEF Schedule
  <2>3. currentTask # 0 => currentTask \in Tasks
    BY KernelAssumption DEF TaskInv, TaskTypes, Tasks
  <2>4. \A t \in Tasks : Saved[t] = [thread |-> t, place |-> left'[t]]
    <3>1. CASE currentTask = 0
      BY <3>1 DEF Saved, TaskInv, FramesAreOwn, Tasks
    <3>2. CASE currentTask # 0
      BY <2>3, <3>2 DEF Saved, Frame, TaskInv, TaskTypes, FramesAreOwn
    <3> QED BY <3>1, <3>2
  <2>5. DOMAIN Saved = Tasks /\ Saved = [t \in Tasks |-> Saved[t]]
    BY DEF Saved, TaskInv, TaskTypes
  <2>6. DOMAIN left' = Tasks /\ left' = [t \in Tasks |-> left'[t]]
    BY DEF TaskInv, TaskTypes
  <2> HIDE DEF f
  <2>7. running' = f
    <3>1. \A t, p : [thread |-> t, place |-> p].thread = t
      OBVIOUS
    <3>2. Saved[f] = [thread |-> f, place |-> left'[f]]
      BY <2>1, <2>4
    <3> QED BY <2>2, <3>1, <3>2
  <2>8. TaskTypes'
    BY <2>1, <2>2, <2>5, <2>6 DEF TaskTypes, TaskInv, Tasks
  <2>9. FramesAreOwn'
    BY <2>2, <2>4, <2>7 DEF FramesAreOwn, Tasks
  <2> QED BY <2>8, <2>9 DEF TaskInv
<1> QED BY <1>1, <1>2

LEMMA InitTasks == Init => TaskInv
BY KernelAssumption DEF Init, TaskInv, TaskTypes, FramesAreOwn, Tasks

LEMMA NextTasks == BootAlone /\ TaskInv /\ [Next]_vars => TaskInv'
<1> SUFFICES ASSUME BootAlone, TaskInv, [Next]_vars PROVE TaskInv'
  OBVIOUS
<1>1. CASE Boots
  <2>1. UNCHANGED tasks /\ currentTask = 0
    BY <1>1, BootSteps DEF BootAlone
  <2>2. numTasks' \in 0 .. MaxTasks
    <3>1. numTasks' = numTasks \/ (numTasks < MaxTasks /\ numTasks' = numTasks + 1)
      BY <1>1
         DEF Boots, AddTask, MakeInterruptManager, MakeKeyboardAndMouse, SearchPci,
             MakeTimer, ActivateAll, TakeCard, ActivateInterrupts, Adds
    <3>2. \A m \in Nat : \A n \in 0 .. m : n < m => n + 1 \in 0 .. m
      OBVIOUS
    <3> QED BY <3>1, <3>2, KernelAssumption DEF TaskInv, TaskTypes
  <2> QED BY <2>1, <2>2 DEF TaskInv, TaskTypes, FramesAreOwn, tasks
<1>2. CASE MainLoop
  BY <1>2, LoopLabels DEF TaskInv, TaskTypes, FramesAreOwn, tasks, boot
<1>3. ASSUME NEW l \in Lines, Interrupt(l) PROVE TaskInv'
  <2>1. CASE Schedule
    BY <1>3, <2>1, ScheduleKeeps DEF Interrupt, boot
  <2>2. CASE UNCHANGED <<currentTask, cpustate, running, place>>
    <3>1. UNCHANGED numTasks
      BY <1>3 DEF Interrupt, boot
    <3>2. left' = IF running = 0 THEN left ELSE [left EXCEPT ![running] = place]
      BY <1>3 DEF Interrupt
    <3> QED BY <2>2, <3>1, <3>2 DEF TaskInv, TaskTypes, FramesAreOwn
  <2> QED BY <1>3, <2>1, <2>2 DEF Interrupt
<1>4. CASE TaskComputes \/ TaskCalls
  BY <1>4 DEF TaskComputes, TaskCalls, TaskInv, TaskTypes, FramesAreOwn, boot
<1>5. CASE UNCHANGED vars
  BY <1>5 DEF vars, TaskInv, TaskTypes, FramesAreOwn, tasks, boot
<1> QED BY <1>1, <1>2, <1>3, <1>4, <1>5 DEF Next

(* Each task that does not run has its own frame, as it was interrupted.   *)
THEOREM FramesKept == Spec => []FramesAreOwn
<1>1. TaskInv => FramesAreOwn
  BY DEF TaskInv
<1> QED BY <1>1, InitTasks, NextTasks, BootIsAlone, PTL DEF Spec

-----------------------------------------------------------------------------
(* The mouse                                                               *)

LEMMA ScreenSize == Width \in Int /\ 1 <= Width /\ Width <= 127
BY ScreenAssumption

(* An int8_t holds what fits it, and a clamped number is on the screen and *)
(* on the same side of where the cursor was as the sum.                    *)
LEMMA Int8Fits ==
    /\ \A n \in -128 .. 127 : Int8(n) = n
    /\ \A n \in Int : Int8(n) \in -128 .. 127
<1>1. \A n \in Int : n >= -128 /\ n <= 127 => (n + 128) % 256 = n + 128
  BY SMT
<1>2. \A n \in Int : (n + 128) % 256 \in 0 .. 255
  BY SMT
<1>3. \A n \in Int : Int8(n) \in -128 .. 127
  <2> SUFFICES ASSUME NEW n \in Int PROVE Int8(n) \in -128 .. 127
    OBVIOUS
  <2> DEFINE m == (n + 128) % 256
  <2>1. m \in 0 .. 255
    BY <1>2
  <2>2. Int8(n) = m - 128
    BY DEF Int8
  <2> HIDE DEF m
  <2> QED BY <2>1, <2>2
<1> QED BY <1>1, <1>3 DEF Int8

LEMMA ClampOnScreen == \A n \in Int : Clamp(n, Width) \in 0 .. Width - 1
BY ScreenSize DEF Clamp

LEMMA WrapsToTheEdge == \A n \in 128 .. 255 : Clamp(Int8(n), Width) = 0
<1> TAKE n \in 128 .. 255
<1>1. (n + 128) % 256 = n - 128
  BY SMT
<1>2. Int8(n) \in Int /\ Int8(n) < 0
  BY <1>1 DEF Int8
<1> QED BY <1>2, ScreenSize DEF Clamp

LEMMA ClampKeepsSide ==
    ASSUME NEW mx \in 0 .. Width - 1, NEW n \in Int
    PROVE  /\ n >= 0 => Clamp(mx + n, Width) >= mx
           /\ n <= 0 => Clamp(mx + n, Width) <= mx
BY ScreenSize DEF Clamp

(* What the mouse driver holds.                                            *)
MouseInv == mouse.x \in 0 .. Width - 1 /\ push \in -128 .. 127

LEMMA MouseMoves ==
    ASSUME NEW dx, NEW dy, OnMouseMove(dx, dy)
    PROVE  mouse'.x = Clamp(Int8(mouse.x + dx), Width)
BY DEF OnMouseMove

(* Bytes and what a byte does.                                             *)
LEMMA MouseBytes ==
    ASSUME OnMouse
    PROVE  \E byte \in -128 .. 127 :
              /\ OnMouseByte(byte)
              /\ ~ack /\ sent # 0 => byte \in Pushes
<1>1. Int8(250) \in -128 .. 127
  BY Int8Fits
<1> QED BY <1>1, KernelAssumption DEF OnMouse

LEMMA HandlerMouse ==
    ASSUME MouseInv, NEW v, Handle(v)
    PROVE  MouseInv'
<1>1. CASE OnKey \/ OnCard \/ OnSyscall \/ OnTick \/ Unhandled(v)
  BY <1>1 DEF OnKey, OnCard, OnSyscall, OnTick, Unhandled, ps2, PrintText,
              shared, screen, MouseInv
<1>2. CASE OnMouse
  <2>1. PICK byte \in -128 .. 127 : OnMouseByte(byte)
    BY <1>2, MouseBytes
  <2>2. push' \in -128 .. 127
    <3>1. push' = byte \/ push' = 0
      BY <2>1 DEF OnMouseByte
    <3> QED BY <3>1
  <2>3. mouse'.x \in 0 .. Width - 1
    <3>1. CASE UNCHANGED shared
      BY <3>1 DEF shared, screen, MouseInv
    <3>2. CASE OnMouseMove(push, -byte)
      <4>1. mouse.x + push \in Int
        BY ScreenSize DEF MouseInv
      <4>2. Int8(mouse.x + push) \in Int
        BY <4>1, Int8Fits
      <4> QED BY <3>2, <4>2, MouseMoves, ClampOnScreen
    <3> QED BY <2>1, <3>1, <3>2 DEF OnMouseByte
  <2> QED BY <2>2, <2>3 DEF MouseInv
<1> QED BY <1>1, <1>2, HandlerCases

LEMMA NextMouse == MouseInv /\ [Next]_vars => MouseInv'
<1> SUFFICES ASSUME MouseInv, [Next]_vars PROVE MouseInv'
  OBVIOUS
<1>1. CASE Boots
  BY <1>1, BootSteps DEF MouseInv, screen
<1>2. CASE MainLoop
  <2>1. UNCHANGED mouse
    BY <1>2 DEF MainLoop, Prints, MainPrints, NextCharacter, PutCharacter,
                NextLine, Clear, StoreTimer, CountTimer, LookUp, Store, Load,
                SetX, SetY, JustTest, screen
  <2>2. UNCHANGED push
    BY <1>2, LoopLabels DEF ps2
  <2> QED BY <2>1, <2>2 DEF MouseInv
<1>3. ASSUME NEW l \in Lines, Interrupt(l) PROVE MouseInv'
  BY <1>3, HandlerMouse DEF Interrupt
<1>4. CASE TaskComputes
  BY <1>4 DEF TaskComputes, MouseInv, shared, screen, ps2
<1>5. CASE TaskCalls
  BY <1>5, HandlerMouse DEF TaskCalls
<1>6. CASE UNCHANGED vars
  BY <1>6 DEF vars, MouseInv, shared, screen, ps2
<1> QED BY <1>1, <1>2, <1>3, <1>4, <1>5, <1>6 DEF Next

(* The third byte of a packet moves the cursor the way the mouse was       *)
(* pushed, unless the sum wraps.                                           *)
LEMMA PacketMoves ==
    ASSUME MouseInv, OnMouse, offset = 2
    PROVE  AsPushed
<1>1. PICK byte \in -128 .. 127 : OnMouseByte(byte)
  BY MouseBytes
<1>2. mouse.x \in Int /\ push \in Int
  BY ScreenSize DEF MouseInv
<1>3. CASE UNCHANGED shared /\ push = 0
  <2>1. mouse'.x = mouse.x
    BY <1>3 DEF shared, screen
  <2>2. mouse.x + push < 128
    BY <1>3, ScreenSize DEF MouseInv
  <2> QED BY <1>2, <2>1, <2>2 DEF AsPushed
<1>4. CASE OnMouseMove(push, -byte)
  <2> DEFINE m == mouse.x
  <2>1. m \in 0 .. 126 /\ push \in -128 .. 127
    BY ScreenSize DEF MouseInv
  <2>2. mouse'.x = Clamp(Int8(m + push), Width)
    BY <1>4, MouseMoves
  <2>3. CASE m + push < 128
    <3>1. m + push \in -128 .. 127
      <4> HIDE DEF m
      <4> QED BY <2>1, <2>3
    <3>2. mouse'.x = Clamp(m + push, Width)
      BY <2>2, <3>1, Int8Fits
    <3> QED BY <1>2, <2>3, <3>2, ClampKeepsSide DEF MouseInv, AsPushed
  <2>4. CASE ~(m + push < 128)
    <3>1. m + push \in 128 .. 255
      <4> HIDE DEF m
      <4> QED BY <2>1, <2>4
    <3>2. mouse'.x = 0
      BY <2>2, <3>1, WrapsToTheEdge
    <3> QED BY <2>4, <3>2 DEF AsPushed
  <2> QED BY <2>3, <2>4
<1> QED BY <1>1, <1>3, <1>4 DEF OnMouseByte

(* While the driver is in step with the mouse, the cursor goes the way the *)
(* mouse was pushed, and to the left edge where the int8_t wraps           *)
(* (kernel.cpp 148-150).                                                   *)
THEOREM CursorFollows == Spec => MovesAsPushed
<1>1. Init => MouseInv
  <2>1. ASSUME Init PROVE mouse.x = Width \div 2 /\ push = 0
    BY <2>1 DEF Init, ConsoleInit
  <2>2. Width \div 2 \in 0 .. Width - 1
    BY ScreenSize
  <2> QED BY <2>1, <2>2 DEF MouseInv
<1>2. ASSUME BootAlone, MouseInv, [Next]_vars
      PROVE  [offset = 2 /\ offset' = 0 /\ sent = 2 /\ ~ack => AsPushed]_vars
  <2> SUFFICES ASSUME offset = 2, offset' = 0
               PROVE  AsPushed
    OBVIOUS
  <2>1. CASE Boots
    BY <1>2, <2>1, BootSteps DEF BootAlone
  <2>2. CASE MainLoop
    BY <2>2, LoopLabels DEF ps2
  <2>3. ASSUME NEW v, Handle(v)
        PROVE  AsPushed
    <3>1. CASE OnMouse
      BY <1>2, <3>1, PacketMoves
    <3>2. CASE UNCHANGED offset
      BY <3>2
    <3> QED BY <2>3, <3>2, <3>1, HandlerCases
            DEF OnKey, OnTick, OnCard, OnSyscall, Unhandled, ps2
  <2>4. CASE TaskComputes \/ UNCHANGED vars
    BY <2>4 DEF TaskComputes, vars, ps2
  <2> QED BY <1>2, <2>1, <2>2, <2>3, <2>4 DEF Next, Interrupt, TaskCalls
<1> QED BY <1>1, <1>2, NextMouse, BootIsAlone, PTL DEF Spec, MovesAsPushed
-----------------------------------------------------------------------------
(* Functions that are defined by recursion on a number, as End and the     *)
(* search of the bus are.  A set that holds 0, and with each number the    *)
(* next, holds them all; so the values may be built one after another.     *)
Smaller == OpToRel(<, Nat)

LEMMA SetInduction ==
    ASSUME NEW N \in Nat, NEW S, 0 \in S,
           \A n \in 1 .. N : n - 1 \in S => n \in S
    PROVE  0 .. N \subseteq S
<1> DEFINE Missing == (0 .. N) \ S
<1> SUFFICES ASSUME Missing # {} PROVE FALSE
  OBVIOUS
<1>1. Missing \in SUBSET Nat
  OBVIOUS
<1>2. IsWellFoundedOn(Smaller, Nat)
  BY NatLessThanWellFounded, Zenon DEF Smaller
<1>3. PICK m \in Missing : \A n \in Missing : ~ (<<n, m>> \in Smaller)
  BY <1>1, <1>2, WFMin, Zenon
<1>4. \A n \in Missing : ~ (n < m)
  <2> TAKE n \in Missing
  <2>1. m \in Nat /\ n \in Nat
    OBVIOUS
  <2>2. n < m => <<n, m>> \in Smaller
    BY <2>1, Zenon DEF Smaller, OpToRel
  <2> QED BY <1>3, <2>2
<1>5. m \in 1 .. N /\ m - 1 \in 0 .. N
  OBVIOUS
<1>6. m - 1 \in S
  BY <1>4, <1>5
<1> QED BY <1>5, <1>6

Steps(F, V, N) == \A n \in 1 .. N : \A v \in V : F[n][v] \in V

LEMMA Iterates ==
    ASSUME NEW V, NEW v0 \in V, NEW N \in Nat, NEW F, Steps(F, V, N)
    PROVE  \E g \in [0 .. N -> V] :
              g[0] = v0 /\ \A n \in 1 .. N : g[n] = F[n][g[n - 1]]
<1> DEFINE Built(n, g) == g[0] = v0 /\ \A i \in 1 .. n : g[i] = F[i][g[i - 1]]
           S == {n \in 0 .. N : \E g \in [0 .. N -> V] : Built(n, g)}
<1>1. 0 \in S
  <2> DEFINE g == [i \in 0 .. N |-> v0]
  <2>1. g \in [0 .. N -> V] /\ Built(0, g)
    OBVIOUS
  <2> HIDE DEF g, Built
  <2> QED BY <2>1
<1>2. ASSUME NEW n \in 1 .. N, n - 1 \in S
      PROVE  n \in S
  <2>1. PICK g \in [0 .. N -> V] : Built(n - 1, g)
    BY <1>2
  <2> DEFINE k == [g EXCEPT ![n] = F[n][g[n - 1]]]
  <2>2. n - 1 \in 0 .. N /\ n \in 0 .. N /\ n - 1 # n
    OBVIOUS
  <2>3. F[n][g[n - 1]] \in V
    BY <2>2 DEF Steps
  <2>4. k \in [0 .. N -> V] /\ k[n] = F[n][g[n - 1]]
    BY <2>2, <2>3
  <2>5. \A i \in 0 .. N : i # n => k[i] = g[i]
    OBVIOUS
  <2> HIDE DEF k
  <2>6. k[0] = v0
    BY <2>1, <2>5
  <2>7. \A i \in 1 .. n : k[i] = F[i][k[i - 1]]
    <3> TAKE i \in 1 .. n
    <3>1. i \in 0 .. N /\ i - 1 \in 0 .. N /\ i - 1 # n
      OBVIOUS
    <3>2. k[i - 1] = g[i - 1]
      BY <2>5, <3>1
    <3>3. CASE i = n
      BY <2>4, <3>2, <3>3
    <3>4. CASE i # n
      <4>1. i \in 1 .. n - 1
        BY <3>4
      <4> QED BY <2>1, <2>5, <3>1, <3>2, <3>4, <4>1
    <3> QED BY <3>3, <3>4
  <2> QED BY <2>2, <2>4, <2>6, <2>7
<1> HIDE DEF S
<1>3. 0 .. N \subseteq S
  BY <1>1, <1>2, SetInduction
<1>4. N \in S
  BY <1>3
<1> QED BY <1>4 DEF S

-----------------------------------------------------------------------------
(* The cursor                                                              *)

LEMMA Sizes ==
    /\ Width \in Nat /\ Height \in Nat /\ Width >= 1 /\ Height >= 1
    /\ LongText \in Nat /\ LongText >= 1
BY ScreenAssumption

Cursors  == [x : Nat, y : Nat]
OnScreen == [x : 0 .. Width - 1, y : 0 .. Height - 1]

(* From wherever the cursor is, one character brings it on the screen.     *)
LEMMA AdvanceLands ==
    ASSUME NEW c \in Cursors, NEW char
    PROVE  Advance(c, char) \in OnScreen
<1> DEFINE d == IF char = "\n" THEN [x |-> 0, y |-> c.y + 1]
                               ELSE [x |-> c.x + 1, y |-> c.y]
           w == Wrapped(d)
<1>1. d \in Cursors
  BY DEF Cursors
<1> HIDE DEF d
<1>2. w \in Cursors /\ w.x < Width
  BY <1>1, Sizes DEF Wrapped, Cursors
<1>3. Advance(c, char) = Cleared(w)
  BY DEF Advance, d
<1> HIDE DEF w
<1>4. Cleared(w) \in OnScreen
  BY <1>2, Sizes DEF Cleared, Cursors, OnScreen
<1> QED BY <1>3, <1>4

Here == [x |-> x, y |-> y]

IsAfter(f) ==
    f = [n \in 0 .. LongText |-> IF n = 0 THEN Here ELSE Advance(f[n - 1], "c")]

LEMMA OnScreenIsCursor == OnScreen \subseteq Cursors
BY Sizes DEF OnScreen, Cursors

(* A text ends on the screen.                                              *)
LEMMA EndLands ==
    ASSUME x \in Nat, y \in Nat, NEW text \in Texts
    PROVE  End(text) \in OnScreen
<1> DEFINE after == CHOOSE f : IsAfter(f)
<1>1. Here \in Cursors
  BY DEF Here, Cursors
<1>2. \E f : IsAfter(f)
  <2> DEFINE F == [n \in 1 .. LongText |-> [c \in Cursors |-> Advance(c, "c")]]
  <2>2. \A n \in 1 .. LongText : \A c \in Cursors : F[n][c] = Advance(c, "c")
    OBVIOUS
  <2> HIDE DEF F
  <2>1. Steps(F, Cursors, LongText)
    BY <2>2, AdvanceLands, OnScreenIsCursor DEF Steps
  <2>3. PICK g \in [0 .. LongText -> Cursors] :
           g[0] = Here /\ \A n \in 1 .. LongText : g[n] = F[n][g[n - 1]]
    <3>1. LongText \in Nat
      BY Sizes
    <3> QED BY ONLY <1>1, <2>1, <3>1, Iterates
  <2>4. ASSUME NEW n \in 0 .. LongText
        PROVE  g[n] = IF n = 0 THEN Here ELSE Advance(g[n - 1], "c")
    <3>1. CASE n = 0
      BY <2>3, <3>1
    <3>2. CASE n # 0
      <4>1. n \in 1 .. LongText /\ n - 1 \in 0 .. LongText
        BY <3>2, Sizes
      <4>2. g[n] = F[n][g[n - 1]] /\ g[n - 1] \in Cursors
        BY <2>3, <4>1
      <4> QED BY <2>2, <3>2, <4>1, <4>2
    <3> QED BY <3>1, <3>2
  <2>5. g = [n \in 0 .. LongText |-> g[n]]
    OBVIOUS
  <2>6. g = [n \in 0 .. LongText |-> IF n = 0 THEN Here ELSE Advance(g[n - 1], "c")]
    BY <2>4, <2>5
  <2> QED BY <2>6 DEF IsAfter
<1>3. IsAfter(after)
  BY <1>2
<1>4. End(text) = CASE text = "newline" -> Advance(Here, "\n")
                    [] text = "key"     -> after[1]
                    [] text = "message" -> after[LongText]
  BY Zenon DEF End, IsAfter, Here
<1> HIDE DEF after
<1>5. \A n \in 0 .. LongText :
         after[n] = IF n = 0 THEN Here ELSE Advance(after[n - 1], "c")
  BY <1>3, Zenon DEF IsAfter
<1> DEFINE S == {n \in 0 .. LongText : after[n] \in Cursors}
<1>6. 0 .. LongText \subseteq S
  <2>1. 0 \in S
    BY <1>1, <1>5, Sizes
  <2>2. ASSUME NEW n \in 1 .. LongText, n - 1 \in S
        PROVE  n \in S
    <3>1. n \in 0 .. LongText /\ n # 0 /\ after[n - 1] \in Cursors
      BY <2>2, Sizes
    <3>2. after[n] \in Cursors
      BY <1>5, <3>1, AdvanceLands, OnScreenIsCursor
    <3> QED BY <3>1, <3>2
  <2> HIDE DEF S
  <2> QED BY <2>1, <2>2, Sizes, SetInduction
<1>7. ASSUME NEW n \in 1 .. LongText
      PROVE  after[n] \in OnScreen
  <2>1. n \in 0 .. LongText /\ n # 0 /\ n - 1 \in 0 .. LongText
    BY Sizes
  <2>2. after[n - 1] \in Cursors
    BY <1>6, <2>1
  <2> QED BY <1>5, <2>1, <2>2, AdvanceLands
<1>8. 1 \in 1 .. LongText /\ LongText \in 1 .. LongText
  BY Sizes
<1>9. Advance(Here, "\n") \in OnScreen
  BY <1>1, AdvanceLands
<1> QED BY <1>4, <1>7, <1>8, <1>9 DEF Texts

(* The cursor is on the screen, or the main loop has just set x or y, and  *)
(* one of them is beyond by one.  Whoever interrupts it there prints from  *)
(* there, and leaves the cursor on the screen.                             *)
OnOrBeside ==
    /\ x \in 0 .. Width /\ y \in 0 .. Height
    /\ \/ x < Width /\ y < Height
       \/ pc = "rightEdge" /\ (x < Width \/ y < Height)
       \/ pc = "lastRow" /\ x < Width
       \/ pc = "home" /\ x < Width
       \/ pc = "column" /\ y < Height
       \/ pc = "addRow" /\ y < Height
       \/ pc = "row"
       \/ pc = "lost"

LastCell == Width * (Height + 1)

NearInv ==
    /\ OnOrBeside
    /\ tmp \in Nat
    /\ pc = "addX" => tmp < Width
    /\ pc = "addColumn" => tmp < Width
    /\ pc = "addY" => tmp < Height
    /\ pc = "addRow" => tmp < Height
    /\ at \in 0 .. LastCell
    /\ ~ strayed

LEMMA CellsAreNear ==
    ASSUME NEW cx \in 0 .. Width, NEW cy \in 0 .. Height
    PROVE  /\ Cell(cx, cy) \in 0 .. LastCell
           /\ ~ Beyond(Cell(cx, cy))
<1>1. \A w, a, b \in Nat : a <= b => w * a <= w * b
  BY SMT
<1>2. \A w, a \in Nat : w * a \in Nat
  BY SMT
<1>3. cx \in Nat /\ cy \in Nat /\ cx <= Width /\ cy <= Height
  BY Sizes
<1>4. Width * (Height + 1) = Width * Height + Width
  BY Sizes
<1>5. Width * cy <= Width * Height /\ Width * cy \in Nat /\ Width * Height \in Nat
  BY <1>1, <1>2, <1>3, Sizes
<1> DEFINE a == Width * cy
           b == Width * Height
<1>6. a + cx \in 0 .. b + Width /\ ~ (a + cx > b + Width)
  <2> HIDE DEF a, b
  <2> QED BY <1>3, <1>5, Sizes DEF a, b
<1> QED BY <1>4, <1>6 DEF Cell, Beyond, LastCell

LEMMA AtIsNear ==
    ASSUME NEW cell \in 0 .. LastCell
    PROVE  ~ Beyond(cell)
<1>1. LastCell \in Nat
  BY Sizes DEF LastCell
<1> QED BY <1>1 DEF Beyond, LastCell

(* The steps of printf in the main loop.                                   *)
LEMMA LookUpNear ==
    ASSUME OnOrBeside, LookUp
    PROVE  at' \in 0 .. LastCell /\ UNCHANGED <<x, y, tmp, strayed>>
BY CellsAreNear DEF LookUp, OnOrBeside, cursor

LEMMA StoreNear ==
    ASSUME NearInv, Store
    PROVE  at' = 0 /\ ~ strayed' /\ UNCHANGED <<x, y, tmp>>
<1>1. \A cell \in {at, Cell(x, y)} : ~ Beyond(cell)
  BY CellsAreNear, AtIsNear DEF NearInv, OnOrBeside
<1> QED BY <1>1 DEF Store, cursor, NearInv

LEMMA PrintsNear ==
    ASSUME NearInv, MainPrints
    PROVE  NearInv'
<1> USE Sizes
<1>0. 0 \in 0 .. LastCell
  BY DEF LastCell
<1>1. CASE NextCharacter
  <2>1. CASE LookUp /\ Goto("write")
    BY <1>1, <2>1, LookUpNear
       DEF NextCharacter, NearInv, OnOrBeside, Goto
  <2>2. CASE (SetX(0) /\ Goto("loadY")) \/ (SetY(0) /\ Goto("row"))
    BY <1>1, <2>2
       DEF NextCharacter, NearInv, OnOrBeside, Goto, SetX, SetY
  <2> QED BY <1>1, <2>1, <2>2 DEF NextCharacter
<1>2. CASE PutCharacter
  <2>1. CASE pc = "write" /\ Store /\ Goto("loadX")
    BY <1>0, <2>1, StoreNear DEF NearInv, OnOrBeside, Goto
  <2>2. CASE pc = "loadX" /\ Load(x) /\ Goto("addX")
    BY <2>2 DEF NearInv, OnOrBeside, Goto, Load, cursor
  <2>3. CASE pc = "addX" /\ SetX(tmp + 1) /\ Goto("rightEdge")
    BY <2>3 DEF NearInv, OnOrBeside, Goto, SetX
  <2> QED BY <1>2, <2>1, <2>2, <2>3 DEF PutCharacter
<1>3. CASE NextLine
  <2>1. CASE pc = "rightEdge" /\ x >= Width /\ SetX(0) /\ Goto("loadY")
    BY <2>1 DEF NearInv, OnOrBeside, Goto, SetX
  <2>2. CASE pc = "rightEdge" /\ x < Width /\ JustTest /\ Goto("lastRow")
    BY <2>2 DEF NearInv, OnOrBeside, Goto, JustTest, cursor
  <2>3. CASE pc = "loadY" /\ Load(y) /\ Goto("addY")
    BY <2>3 DEF NearInv, OnOrBeside, Goto, Load, cursor
  <2>4. CASE pc = "addY" /\ SetY(tmp + 1) /\ Goto("rightEdge")
    BY <2>4 DEF NearInv, OnOrBeside, Goto, SetY
  <2>5. CASE pc = "lastRow" /\ y >= Height /\ SetY(0) /\ Goto("row")
    BY <2>5 DEF NearInv, OnOrBeside, Goto, SetY
  <2>6. CASE pc = "lastRow" /\ y < Height /\ JustTest /\ Goto("next")
    BY <2>6 DEF NearInv, OnOrBeside, Goto, JustTest, cursor
  <2> QED BY <1>3, <2>1, <2>2, <2>3, <2>4, <2>5, <2>6 DEF NextLine
<1>4. CASE Clear
  <2>1. CASE pc = "row" /\ y < Height /\ SetX(0) /\ Goto("column")
    BY <2>1 DEF NearInv, OnOrBeside, Goto, SetX
  <2>2. CASE pc = "row" /\ y >= Height /\ SetX(0) /\ Goto("home")
    BY <2>2 DEF NearInv, OnOrBeside, Goto, SetX
  <2>3. CASE pc = "column" /\ x < Width /\ LookUp /\ Goto("blank")
    BY <2>3, LookUpNear DEF NearInv, OnOrBeside, Goto
  <2>4. CASE pc = "column" /\ x >= Width /\ Load(y) /\ Goto("addRow")
    BY <2>4 DEF NearInv, OnOrBeside, Goto, Load, cursor
  <2>5. CASE pc = "blank" /\ Store /\ Goto("loadColumn")
    BY <1>0, <2>5, StoreNear DEF NearInv, OnOrBeside, Goto
  <2>6. CASE pc = "loadColumn" /\ Load(x) /\ Goto("addColumn")
    BY <2>6 DEF NearInv, OnOrBeside, Goto, Load, cursor
  <2>7. CASE pc = "addColumn" /\ SetX(tmp + 1) /\ Goto("column")
    BY <2>7 DEF NearInv, OnOrBeside, Goto, SetX
  <2>8. CASE pc = "addRow" /\ SetY(tmp + 1) /\ Goto("row")
    BY <2>8 DEF NearInv, OnOrBeside, Goto, SetY
  <2>9. CASE pc = "home" /\ SetY(0) /\ Goto("next")
    BY <2>9 DEF NearInv, OnOrBeside, Goto, SetY
  <2> QED BY <1>4, <2>1, <2>2, <2>3, <2>4, <2>5, <2>6, <2>7, <2>8, <2>9 DEF Clear
<1> QED BY <1>1, <1>2, <1>3, <1>4 DEF MainPrints

(* A handler leaves the cursor where it was, or on the screen.             *)
LEMMA HandlersPrintNear ==
    ASSUME NearInv, NEW v, Handle(v),
           (pc' = "lost" /\ tmp' = 0 /\ at' = 0) \/ UNCHANGED locals
    PROVE  NearInv'
<1> USE Sizes
<1>0. 0 \in 0 .. LastCell
  BY DEF LastCell
<1>1. /\ ~ strayed'
      /\ UNCHANGED cursor \/ (x' \in 0 .. Width - 1 /\ y' \in 0 .. Height - 1)
  <2>1. CASE UNCHANGED shared
    BY <2>1 DEF shared, NearInv
  <2>2. ASSUME NEW text \in Texts, PrintText(text)
        PROVE  ~ strayed' /\ x' \in 0 .. Width - 1 /\ y' \in 0 .. Height - 1
    <3>1. x \in 0 .. Width /\ y \in 0 .. Height /\ x \in Nat /\ y \in Nat /\ ~ strayed
      BY DEF NearInv, OnOrBeside
    <3>2. End(text) \in OnScreen
      BY <3>1, EndLands
    <3>3. ~ Beyond(Cell(x, y))
      BY <3>1, CellsAreNear
    <3> QED BY <2>2, <3>1, <3>2, <3>3 DEF PrintText, OnScreen
  <2>3. ASSUME NEW dx, NEW dy, OnMouseMove(dx, dy) PROVE UNCHANGED cursor /\ ~ strayed'
    BY <2>3 DEF OnMouseMove, NearInv
  <2> QED BY <2>1, <2>2, <2>3, HandlerSteps
<1>2. CASE UNCHANGED locals
  <2>1. pc' = pc /\ tmp' = tmp /\ at' = at
    BY <1>2 DEF locals
  <2> QED BY <1>1, <2>1 DEF NearInv, OnOrBeside, cursor
<1>3. CASE pc' = "lost" /\ tmp' = 0 /\ at' = 0
  BY <1>0, <1>1, <1>3 DEF NearInv, OnOrBeside, cursor
<1> QED BY <1>2, <1>3

LEMMA InitNear == Init => NearInv
<1> SUFFICES ASSUME Init PROVE NearInv
  OBVIOUS
<1>1. 0 \in 0 .. LastCell
  BY Sizes DEF LastCell
<1> QED BY <1>1, Sizes
        DEF Init, ConsoleInit, NearInv, OnOrBeside

(* The messages of boot are not steps of their own: the cursor is at home  *)
(* till interrupts come on.                                                *)
LEMMA BootNear ==
    ASSUME NearInv, Boots
    PROVE  NearInv'
<1>1. /\ pc \in Booting /\ (pc' \in Booting \/ pc' = "row")
      /\ UNCHANGED <<tmp, at, strayed>>
  BY BootSteps
<1>2. UNCHANGED cursor \/ (x' \in 0 .. Width - 1 /\ y' = 0)
  BY DEF Boots, AddTask, MakeInterruptManager, MakeKeyboardAndMouse, SearchPci,
         MakeTimer, ActivateAll, TakeCard, ActivateInterrupts, Adds
<1>3. OnOrBeside'
  <2>1. x < Width /\ y < Height
    BY <1>1 DEF NearInv, OnOrBeside, Booting
  <2>2. x' \in 0 .. Width /\ y' \in 0 .. Height /\ x' < Width /\ y' < Height
    BY <1>2, <2>1, Sizes DEF cursor, NearInv, OnOrBeside
  <2> QED BY <1>1, <2>2 DEF OnOrBeside
<1> QED BY <1>1, <1>3 DEF NearInv, Booting

(* Whoever prints in between, the main loop and the handlers write at most *)
(* one row and one cell below the screen, and the cursor is on the screen  *)
(* whenever the main loop is between two characters (kernel.cpp 35-85).    *)
THEOREM ScreenIsRespected == Spec => []PrintsNearTheScreen
<1>1. Init => NearInv
  BY InitNear
<1>2. NearInv /\ [Next]_vars => NearInv'
  <2> SUFFICES ASSUME NearInv, [Next]_vars PROVE NearInv'
    OBVIOUS
  <2>1. CASE Boots
    BY <2>1, BootNear
  <2>2. CASE MainLoop
    <3>1. CASE Prints
      BY <3>1, PrintsNear DEF Prints
    <3>2. CASE StoreTimer \/ CountTimer
      BY <3>2 DEF StoreTimer, CountTimer, JustTest, Goto, NearInv, OnOrBeside,
                  cursor
    <3> QED BY <2>2, <3>1, <3>2 DEF MainLoop
  <2>3. ASSUME NEW l \in Lines, Interrupt(l) PROVE NearInv'
    BY <2>3, HandlersPrintNear DEF Interrupt, LeavesMain
  <2>4. CASE TaskComputes
    BY <2>4 DEF TaskComputes, NearInv, OnOrBeside, cursor, shared, locals
  <2>5. CASE TaskCalls
    BY <2>5, HandlersPrintNear DEF TaskCalls
  <2>6. CASE UNCHANGED vars
    BY <2>6 DEF vars, NearInv, OnOrBeside, cursor, shared, locals
  <2> QED BY <2>1, <2>2, <2>3, <2>4, <2>5, <2>6 DEF Next
<1>3. NearInv => PrintsNearTheScreen
  BY DEF NearInv, OnOrBeside, PrintsNearTheScreen
<1> QED BY <1>1, <1>2, <1>3, PTL DEF Spec

-----------------------------------------------------------------------------
(* The search of the bus                                                   *)

CardFunctions == {CardOn(l) : l \in CardLines}

(* The greatest number of a set.                                           *)
LEMMA Greatest ==
    ASSUME NEW N \in Nat, NEW T \in SUBSET (1 .. N), T # {}
    PROVE  Max(T) \in T /\ \A t \in T : t <= Max(T)
<1> DEFINE Tops(n) == \E m \in T : m <= n /\ \A t \in T : t <= n => t <= m
           S == {n \in 0 .. N : (\E t \in T : t <= n) => Tops(n)}
<1>1. 0 \in S
  OBVIOUS
<1>2. ASSUME NEW n \in 1 .. N, n - 1 \in S
      PROVE  n \in S
  <2>1. CASE n \in T
    BY <2>1
  <2>2. CASE n \notin T
    <3>1. \A t \in T : t <= n <=> t <= n - 1
      BY <2>2
    <3> QED BY <1>2, <3>1
  <2> QED BY <2>1, <2>2
<1> HIDE DEF S
<1>3. N \in S
  BY <1>1, <1>2, SetInduction
<1>4. PICK m \in T : \A t \in T : t <= m
  <2>1. \A t \in T : t <= N
    OBVIOUS
  <2>2. \E t \in T : t <= N
    BY <2>1
  <2>3. Tops(N)
    BY <1>3, <2>2 DEF S
  <2> QED BY <2>1, <2>3
<1>5. \E m_1 \in T : \A t \in T : m_1 >= t
  BY <1>4
<1>6. Max(T) \in T /\ \A t \in T : Max(T) >= t
  BY <1>5, Zenon DEF Max
<1>7. \A t \in T : t \in Int
  OBVIOUS
<1> QED BY <1>6, <1>7

(* The lesser of two numbers.                                              *)
LEMMA LesserOfTwo ==
    ASSUME NEW a \in Nat, NEW b \in Nat
    PROVE  Min({a, b}) \in {a, b} /\ Min({a, b}) <= b
<1>1. \E m \in {a, b} : \A t \in {a, b} : m =< t
  OBVIOUS
<1>2. Min({a, b}) \in {a, b} /\ \A t \in {a, b} : Min({a, b}) =< t
  BY <1>1, Zenon DEF Min
<1> QED BY <1>2

(* The search of one device.                                               *)
IsSearch(f, device, visited) ==
    f = [n \in 0 .. visited |->
            IF n = 0 THEN <<>>
            ELSE IF HasDriver(device.functions[n])
                 THEN Append(f[n - 1], device.functions[n])
                 ELSE f[n - 1]]

IsDevice(device) ==
    \E k \in Nat : device.functions \in [1 .. k -> Functions] /\ Len(device.functions) = k

LEMMA DriversAreCards ==
    ASSUME NEW device, IsDevice(device)
    PROVE  DriversOf(device) \in Seq(CardFunctions)
<1> DEFINE fs      == device.functions
           V       == Seq(CardFunctions)
           visited == Min({NumFunctions(device), Len(fs)})
           upTo    == CHOOSE f : IsSearch(f, device, visited)
<1>0. PICK k \in Nat : fs \in [1 .. k -> Functions] /\ Len(fs) = k
  BY DEF IsDevice
<1>1. visited \in Nat /\ visited <= k
  BY <1>0, LesserOfTwo DEF NumFunctions
<1>2. DriversOf(device) = upTo[visited]
  BY Zenon DEF DriversOf, IsSearch
<1>3. \A n \in 1 .. k : HasDriver(fs[n]) => fs[n] \in CardFunctions
  <2> TAKE n \in 1 .. k
  <2>1. fs[n] \in Functions
    BY <1>0
  <2>2. fs[n] = Absent \/ fs[n] = Bridge \/ fs[n] \in CardFunctions
    BY <2>1 DEF Functions, CardFunctions
  <2>3. Absent.vendor = "none" /\ Bridge.vendor = "other"
    BY DEF Absent, Bridge
  <2> QED BY <2>2, <2>3 DEF HasDriver
<1> HIDE DEF visited, upTo, fs
<1>4. \E f : IsSearch(f, device, visited)
  <2> DEFINE F == [n \in 1 .. visited |->
                     [v \in V |-> IF HasDriver(fs[n]) THEN Append(v, fs[n]) ELSE v]]
  <2>1. \A n \in 1 .. visited : \A v \in V :
           F[n][v] = IF HasDriver(fs[n]) THEN Append(v, fs[n]) ELSE v
    OBVIOUS
  <2> HIDE DEF F
  <2>2. Steps(F, V, visited)
    <3> SUFFICES ASSUME NEW n \in 1 .. visited, NEW v \in V
                 PROVE  F[n][v] \in V
      BY DEF Steps
    <3>1. n \in 1 .. k
      BY <1>1
    <3>2. HasDriver(fs[n]) => fs[n] \in CardFunctions
      BY <1>3, <3>1
    <3>3. F[n][v] = IF HasDriver(fs[n]) THEN Append(v, fs[n]) ELSE v
      BY <2>1
    <3> QED BY <3>2, <3>3
  <2>3. <<>> \in V
    OBVIOUS
  <2>4. visited \in Nat
    BY <1>1
  <2> HIDE DEF V
  <2>5. PICK g \in [0 .. visited -> V] :
           g[0] = <<>> /\ \A n \in 1 .. visited : g[n] = F[n][g[n - 1]]
    BY ONLY <2>2, <2>3, <2>4, Iterates
  <2>6. ASSUME NEW n \in 0 .. visited
        PROVE  g[n] = IF n = 0 THEN <<>>
                      ELSE IF HasDriver(fs[n]) THEN Append(g[n - 1], fs[n])
                                               ELSE g[n - 1]
    <3>1. CASE n = 0
      BY <2>5, <3>1
    <3>2. CASE n # 0
      <4>1. n \in 1 .. visited /\ n - 1 \in 0 .. visited
        BY <2>4, <3>2
      <4>2. g[n] = F[n][g[n - 1]] /\ g[n - 1] \in V
        BY <2>5, <4>1
      <4> QED BY <2>1, <3>2, <4>1, <4>2
    <3> QED BY <3>1, <3>2
  <2>7. g = [n \in 0 .. visited |-> g[n]]
    OBVIOUS
  <2>8. g = [n \in 0 .. visited |->
                IF n = 0 THEN <<>>
                ELSE IF HasDriver(fs[n]) THEN Append(g[n - 1], fs[n])
                                         ELSE g[n - 1]]
    BY <2>6, <2>7
  <2> QED BY <2>8 DEF IsSearch, fs
<1>5. IsSearch(upTo, device, visited)
  BY <1>4, Zenon DEF upTo
<1>6. \A n \in 0 .. visited :
         upTo[n] = IF n = 0 THEN <<>>
                   ELSE IF HasDriver(fs[n]) THEN Append(upTo[n - 1], fs[n])
                                            ELSE upTo[n - 1]
  BY <1>5, Zenon DEF IsSearch, fs
<1> DEFINE S == {n \in 0 .. visited : upTo[n] \in V}
<1>7. 0 \in S
  <2>1. 0 \in 0 .. visited
    BY <1>1
  <2>2. upTo[0] = <<>>
    BY <1>6, <2>1
  <2>3. upTo[0] \in V
    BY <2>2
  <2> HIDE DEF V
  <2> QED BY <2>1, <2>3
<1>8. ASSUME NEW n \in 1 .. visited, n - 1 \in S
      PROVE  n \in S
  <2>1. n \in 1 .. k /\ n \in 0 .. visited /\ n # 0 /\ upTo[n - 1] \in V
    BY <1>1, <1>8
  <2>2. HasDriver(fs[n]) => fs[n] \in CardFunctions
    BY <1>3, <2>1
  <2>3. upTo[n] = IF HasDriver(fs[n]) THEN Append(upTo[n - 1], fs[n])
                                      ELSE upTo[n - 1]
    BY <1>6, <2>1
  <2>4. upTo[n] \in V
    BY <2>1, <2>2, <2>3
  <2> QED BY <2>1, <2>4
<1> HIDE DEF S
<1>9. visited \in S
  <2>1. visited \in Nat
    BY <1>1
  <2>2. 0 .. visited \subseteq S
    BY ONLY <1>7, <1>8, <2>1, SetInduction
  <2> QED BY <2>1, <2>2
<1> QED BY <1>2, <1>9 DEF S

(* Two sequences, one after the other.                                     *)
IsFlat(f, seqs) ==
    f = [i \in 1 .. Len(seqs) |-> IF i = 1 THEN seqs[i] ELSE f[i - 1] \o seqs[i]]

LEMMA FlattenTwo ==
    ASSUME NEW V, NEW s, NEW r \in Seq(V), NEW t \in Seq(V),
           Len(s) = 2, s[1] = r, s[2] = t
    PROVE  FlattenSeq(s) = r \o t
<1> DEFINE flat == CHOOSE f : IsFlat(f, s)
           g    == [i \in 1 .. 2 |-> IF i = 1 THEN r ELSE r \o t]
<1>1. g[1] = r /\ g[2] = r \o t
  OBVIOUS
<1>2. g = [i \in 1 .. 2 |-> IF i = 1 THEN s[i] ELSE g[i - 1] \o s[i]]
  <2>1. \A i \in 1 .. 2 : g[i] = IF i = 1 THEN s[i] ELSE g[i - 1] \o s[i]
    <3> TAKE i \in 1 .. 2
    <3>1. CASE i = 1
      BY <1>1, <3>1
    <3>2. CASE i = 2
      <4>1. i - 1 = 1
        BY <3>2
      <4> HIDE DEF g
      <4> QED BY <1>1, <3>2, <4>1
    <3> QED BY <3>1, <3>2
  <2>2. g = [i \in 1 .. 2 |-> g[i]]
    OBVIOUS
  <2> HIDE DEF g
  <2> QED BY <2>1, <2>2
<1> HIDE DEF g
<1>3. IsFlat(flat, s)
  <2>1. IsFlat(g, s)
    BY <1>2 DEF IsFlat
  <2> QED BY <2>1, Zenon
<1>4. FlattenSeq(s) = flat[Len(s)]
  <2>1. Len(s) # 0
    OBVIOUS
  <2> QED BY <2>1, Zenon DEF FlattenSeq, IsFlat
<1> HIDE DEF flat
<1>5. \A i \in 1 .. 2 : flat[i] = IF i = 1 THEN s[i] ELSE flat[i - 1] \o s[i]
  BY <1>3 DEF IsFlat
<1>6. flat[1] = r
  BY <1>5
<1>7. flat[2] = flat[2 - 1] \o s[2]
  BY <1>5
<1>8. 2 - 1 = 1
  OBVIOUS
<1> QED BY <1>4, <1>6, <1>7, <1>8

(* Whatever the machine, the search finds cards.                           *)
LEMMA SearchFindsCards ==
    ASSUME NEW m \in Machines
    PROVE  SelectDrivers(m) \in Seq(CardFunctions)
<1>1. PICK d \in [multi : BOOLEAN, functions : [1 .. 2 -> Functions]],
           f \in Functions :
         m = <<d, [multi |-> FALSE, functions |-> <<f>>]>>
  BY DEF Machines
<1> DEFINE e == [multi |-> FALSE, functions |-> <<f>>]
           s == [n \in DOMAIN m |-> DriversOf(m[n])]
<1>2. DriversOf(d) \in Seq(CardFunctions)
  <2>1. d.functions \in [1 .. 2 -> Functions] /\ Len(d.functions) = 2
    OBVIOUS
  <2>2. IsDevice(d)
    BY <2>1 DEF IsDevice
  <2> QED BY <2>2, DriversAreCards
<1>3. DriversOf(e) \in Seq(CardFunctions)
  <2>1. e.functions \in [1 .. 1 -> Functions] /\ Len(e.functions) = 1
    OBVIOUS
  <2>2. IsDevice(e)
    BY <2>1 DEF IsDevice
  <2> QED BY <2>2, DriversAreCards
<1>4. DOMAIN m = 1 .. 2 /\ m[1] = d /\ m[2] = e
  BY <1>1
<1> HIDE DEF e
<1>5. Len(s) = 2 /\ s[1] = DriversOf(d) /\ s[2] = DriversOf(e)
  BY <1>4
<1> HIDE DEF s
<1>6. FlattenSeq(s) = DriversOf(d) \o DriversOf(e)
  BY <1>2, <1>3, <1>5, FlattenTwo
<1>7. SelectDrivers(m) = FlattenSeq(s)
  BY Zenon DEF SelectDrivers, s
<1> QED BY <1>2, <1>3, <1>6, <1>7

(* The port of a card is that of its only I/O register.                    *)
LEMMA CardPort ==
    ASSUME NEW l \in CardLines
    PROVE  CardOn(l).line = l /\ PortBases(CardOn(l)) = {Port(l)}
<1> DEFINE c == CardOn(l)
<1>1. /\ c.line = l /\ c.header = 0
      /\ c.bars = [n \in 0 .. 5 |->
                     IF n = 0 THEN [io |-> TRUE, address |-> Port(l)]
                     ELSE IF n = 1 THEN [io |-> FALSE, address |-> 7]
                     ELSE [io |-> FALSE, address |-> 0]]
  <2> DEFINE none == [n \in 0 .. 5 |-> [io |-> FALSE, address |-> 0]]
             own  == [none EXCEPT ![0] = [io |-> TRUE, address |-> Port(l)],
                                  ![1] = [io |-> FALSE, address |-> 7]]
  <2>1. own = [n \in 0 .. 5 |-> IF n = 0 THEN [io |-> TRUE, address |-> Port(l)]
                                ELSE IF n = 1 THEN [io |-> FALSE, address |-> 7]
                                ELSE [io |-> FALSE, address |-> 0]]
    <3>1. DOMAIN none = 0 .. 5 /\ \A n \in 0 .. 5 : none[n] = [io |-> FALSE, address |-> 0]
      OBVIOUS
    <3> HIDE DEF none
    <3>2. DOMAIN own = 0 .. 5 /\ own = [n \in 0 .. 5 |-> own[n]]
      BY <3>1
    <3>3. own[0] = [io |-> TRUE, address |-> Port(l)]
      <4> DEFINE r0 == [io |-> TRUE, address |-> Port(l)]
                 one == [none EXCEPT ![0] = r0]
      <4> HIDE DEF r0
      <4>1. 0 \in DOMAIN none /\ 0 # 1
        BY <3>1
      <4>2. one[0] = r0 /\ DOMAIN one = DOMAIN none
        BY <4>1
      <4>3. own = [one EXCEPT ![1] = [io |-> FALSE, address |-> 7]]
        BY DEF r0
      <4> HIDE DEF one, own
      <4>4. own[0] = r0
        BY <4>1, <4>2, <4>3
      <4> QED BY <4>4 DEF r0
    <3>4. own[1] = [io |-> FALSE, address |-> 7]
      BY <3>1
    <3>5. \A n \in 0 .. 5 : n # 0 /\ n # 1 => own[n] = none[n]
      BY <3>1
    <3> HIDE DEF own
    <3> QED BY <3>1, <3>2, <3>3, <3>4, <3>5
  <2>2. Absent = [vendor |-> "none", line |-> 0, header |-> 0, bars |-> none]
    BY DEF Absent
  <2>3. c = [Absent EXCEPT !.vendor = "am79c973", !.line = l,
                           !.bars = [Absent.bars EXCEPT
                                        ![0] = [io |-> TRUE, address |-> Port(l)],
                                        ![1] = [io |-> FALSE, address |-> 7]]]
    BY DEF CardOn
  <2>4. Absent.bars = none
    BY <2>2
  <2> HIDE DEF none, c
  <2>5. c = [Absent EXCEPT !.vendor = "am79c973", !.line = l, !.bars = own]
    BY <2>3, <2>4
  <2> HIDE DEF own
  <2>6. c.line = l /\ c.header = 0 /\ c.bars = own
    BY <2>2, <2>5
  <2> QED BY <2>1, <2>6
<1>2. l \in Nat
  BY KernelAssumption
<1>3. Port(l) # 0
  BY <1>2 DEF Port
<1> HIDE DEF c
<1>4. MaxBars(c.header) = 6
  BY <1>1 DEF MaxBars
<1>5. \A n \in 0 .. 5 : HasPort(c, n) <=> n = 0
  BY <1>1, <1>3, <1>4 DEF HasPort
<1>6. {n \in 0 .. 5 : HasPort(c, n)} = {0}
  BY <1>5
<1>7. Max({0}) = 0
  BY DEF Max
<1>8. c.bars[0].address = Port(l)
  BY <1>1
<1>9. PortBases(c) = {Port(l)}
  BY <1>4, <1>6, <1>7, <1>8 DEF PortBases
<1> QED BY <1>1, <1>9 DEF c

-----------------------------------------------------------------------------
(* The drivers                                                             *)

(* What the search appends: a card's handler with the card's own port.     *)
CardDrivers == {[kind |-> "card", line |-> l, port |-> Port(l), id |-> n] :
                   l \in CardLines, n \in Nat}
AllDrivers  == {Keyboard, Mouse, Timer} \cup CardDrivers

LEMMA DriverLines ==
    /\ \A d \in AllDrivers : d.line \in Vectors
    /\ \A d \in CardDrivers : d.kind = "card" /\ d.port = Port(d.line)
    /\ \A d \in {Keyboard, Mouse, Timer} : d.kind # "card"
<1>1. Keyboard.line = 1 /\ Mouse.line = 12 /\ Timer.line = 0
  BY DEF Keyboard, Mouse, Timer, KeyboardLine, MouseLine, TimerLine
<1>2. Keyboard.kind = "keyboard" /\ Mouse.kind = "mouse" /\ Timer.kind = "timer"
  BY DEF Keyboard, Mouse, Timer
<1>3. \A d \in CardDrivers : d.line \in CardLines /\ d.kind = "card" /\ d.port = Port(d.line)
  BY DEF CardDrivers
<1>4. {0, 1, 12} \cup CardLines \subseteq Vectors
  BY DEF Vectors, Lines, TimerLine, KeyboardLine, MouseLine
<1> QED BY <1>1, <1>2, <1>3, <1>4 DEF AllDrivers

(* Who was registered is in the table, unless a later one has its line.    *)
Heard ==
    \A n \in DOMAIN drivers :
       \/ handlers[drivers[n].line] = drivers[n]
       \/ \E m \in DOMAIN drivers : m > n /\ drivers[m].line = drivers[n].line

HandlersTyped ==
    handlers \in [Vectors -> {drivers[n] : n \in DOMAIN drivers}
                                \cup {None, Unset, Syscall}]

LEMMA AddsHeard ==
    ASSUME drivers \in Seq(AllDrivers), Heard, HandlersTyped,
           NEW new \in Seq(AllDrivers), Adds(new)
    PROVE  drivers' \in Seq(AllDrivers) /\ Heard' /\ HandlersTyped'
<1> DEFINE N == Len(drivers)
           K == Len(new)
           mine(v) == {k \in DOMAIN new : new[k].line = v}
<1>1. /\ drivers' = drivers \o new /\ drivers' \in Seq(AllDrivers)
      /\ N \in Nat /\ K \in Nat
      /\ DOMAIN drivers = 1 .. N /\ DOMAIN new = 1 .. K /\ DOMAIN drivers' = 1 .. N + K
      /\ \A n \in 1 .. N : drivers'[n] = drivers[n]
      /\ \A k \in 1 .. K : drivers'[N + k] = new[k] /\ N + k \in 1 .. N + K
  BY DEF Adds
<1>2. \A v \in Vectors :
         handlers'[v] = IF mine(v) = {} THEN handlers[v] ELSE new[Max(mine(v))]
  BY DEF Adds, Registered
<1>3. \A v : mine(v) # {} =>
         Max(mine(v)) \in mine(v) /\ \A k \in mine(v) : k <= Max(mine(v))
  <2> SUFFICES ASSUME NEW v, mine(v) # {}
               PROVE  Max(mine(v)) \in mine(v) /\ \A k \in mine(v) : k <= Max(mine(v))
    OBVIOUS
  <2> DEFINE T == mine(v)
  <2>1. T \in SUBSET (1 .. K) /\ T # {}
    BY <1>1
  <2>2. K \in Nat
    BY <1>1
  <2> HIDE DEF T, K
  <2>3. Max(T) \in T /\ \A t \in T : t <= Max(T)
    BY ONLY <2>1, <2>2, Greatest
  <2> QED BY <2>3 DEF T
<1>4. \A n \in 1 .. N : drivers[n] \in AllDrivers
  BY <1>1
<1>5. \A k \in 1 .. K : new[k] \in AllDrivers
  BY <1>1
<1>6. \A k \in 1 .. K : k \in mine(new[k].line)
  BY <1>1
<1>7. \A v : mine(v) \subseteq 1 .. K /\ \A k \in mine(v) : new[k].line = v
  BY <1>1
<1> HIDE DEF N, K, mine
<1>8. ASSUME NEW n \in 1 .. N + K
      PROVE  \/ handlers'[drivers'[n].line] = drivers'[n]
             \/ \E m \in 1 .. N + K : m > n /\ drivers'[m].line = drivers'[n].line
  <2> DEFINE v == drivers'[n].line
  <2>1. CASE n \in 1 .. N
    <3>1. drivers'[n] = drivers[n] /\ v \in Vectors
      BY <1>1, <1>4, <2>1, DriverLines
    <3>2. CASE \E m \in DOMAIN drivers : m > n /\ drivers[m].line = v
      <4>1. PICK m \in 1 .. N : m > n /\ drivers[m].line = v
        BY <1>1, <3>2
      <4>2. m \in 1 .. N + K /\ drivers'[m] = drivers[m]
        BY <1>1
      <4> QED BY <4>1, <4>2
    <3>3. CASE handlers[v] = drivers[n]
      <4>1. CASE mine(v) = {}
        BY <1>2, <3>1, <3>3, <4>1
      <4>2. CASE mine(v) # {}
        <5>1. PICK k \in mine(v) : k \in 1 .. K /\ new[k].line = v
          BY <1>7, <4>2
        <5>2. N + k \in 1 .. N + K /\ drivers'[N + k] = new[k]
          BY <1>1, <5>1
        <5>3. N + k > n
          BY <1>1, <2>1, <5>1
        <5> QED BY <5>1, <5>2, <5>3
      <4> QED BY <4>1, <4>2
    <3>4. \/ handlers[v] = drivers[n]
          \/ \E m \in DOMAIN drivers : m > n /\ drivers[m].line = v
      <4>1. n \in DOMAIN drivers
        BY <1>1, <2>1
      <4>2. drivers[n].line = v
        BY <3>1
      <4> HIDE DEF v
      <4> QED BY <4>1, <4>2 DEF Heard
    <3> QED BY <3>2, <3>3, <3>4
  <2>2. CASE n \notin 1 .. N
    <3> DEFINE k == n - N
               top == Max(mine(v))
    <3>1. k \in 1 .. K /\ n = N + k
      BY <1>1, <2>2
    <3>2. drivers'[n] = new[k]
      BY <1>1, <3>1
    <3>3. k \in mine(v)
      BY <1>6, <3>1, <3>2
    <3>4. top \in 1 .. K /\ k <= top /\ new[top].line = v
      BY <1>3, <1>7, <3>3
    <3>5. v \in Vectors
      BY <1>5, <3>1, <3>2, DriverLines
    <3>6. handlers'[v] = new[top]
      BY <1>2, <3>3, <3>5
    <3> HIDE DEF top, k
    <3>7. CASE top = k
      BY <3>2, <3>6, <3>7
    <3>8. CASE top # k
      <4>1. N + top \in 1 .. N + K /\ drivers'[N + top] = new[top]
        BY <1>1, <3>4
      <4>2. N + top > n
        BY <1>1, <3>1, <3>4, <3>8
      <4> QED BY <3>4, <4>1, <4>2
    <3> QED BY <3>7, <3>8
  <2> QED BY <2>1, <2>2
<1>9. Heard'
  BY <1>1, <1>8 DEF Heard
<1>10. HandlersTyped'
  <2> DEFINE H == {drivers'[n] : n \in DOMAIN drivers'} \cup {None, Unset, Syscall}
  <2>1. ASSUME NEW v \in Vectors PROVE handlers'[v] \in H
    <3>1. CASE mine(v) = {}
      <4>1. handlers[v] \in {drivers[n] : n \in DOMAIN drivers} \cup {None, Unset, Syscall}
        BY DEF HandlersTyped
      <4>2. {drivers[n] : n \in DOMAIN drivers} \subseteq {drivers'[n] : n \in DOMAIN drivers'}
        <5>1. \A n \in 1 .. N : n \in 1 .. N + K
          BY <1>1
        <5> QED BY <1>1, <5>1
      <4> QED BY <1>2, <3>1, <4>1, <4>2
    <3>2. CASE mine(v) # {}
      <4>1. Max(mine(v)) \in 1 .. K
        BY <1>3, <1>7, <3>2
      <4>2. new[Max(mine(v))] \in {drivers'[n] : n \in DOMAIN drivers'}
        BY <1>1, <4>1
      <4> QED BY <1>2, <3>2, <4>2
    <3> QED BY <3>1, <3>2
  <2>2. handlers' = [v \in Vectors |-> handlers'[v]]
    BY DEF Adds, Registered
  <2> HIDE DEF H
  <2>3. handlers' \in [Vectors -> H]
    BY <2>1, <2>2
  <2> QED BY <2>3 DEF HandlersTyped, H
<1> QED BY <1>1, <1>9, <1>10

(* What the list holds, step by step of boot; whoever is in it when the    *)
(* interrupts come on is active, and the third is taken for the card.      *)
Devices == <<Keyboard, Mouse>>

DriversInv ==
    /\ drivers \in Seq(AllDrivers) /\ Heard /\ HandlersTyped
    /\ pc \in {"tasks", "devices", "pci"} => machine \in Machines
    /\ pc \in {"tasks", "devices"} => drivers = <<>>
    /\ pc = "pci" => drivers = Devices
    /\ pc = "timer" => \E cards \in Seq(CardDrivers) : drivers = Devices \o cards
    /\ pc \notin {"tasks", "devices", "pci", "timer"} =>
          \E cards \in Seq(CardDrivers) : drivers = (Devices \o cards) \o <<Timer>>
    /\ pc \notin {"tasks", "devices", "pci", "timer", "activate"} =>
          active = {drivers[n] : n \in DOMAIN drivers}
    /\ pc \notin {"tasks", "devices", "pci", "timer", "activate", "card"} =>
          eth0 = drivers[3]

LEMMA InitDrivers == Init => DriversInv
<1> SUFFICES ASSUME Init PROVE DriversInv
  OBVIOUS
<1>1. drivers = <<>> /\ pc = "tasks" /\ machine \in Machines
  BY DEF Init
<1>2. HandlersTyped
  BY DEF Init, HandlersTyped
<1>3. Heard
  BY <1>1 DEF Heard
<1> QED BY <1>1, <1>2, <1>3 DEF DriversInv

LEMMA BootDrivers ==
    ASSUME DriversInv, Boots
    PROVE  DriversInv'
<1>1. CASE AddTask
  BY <1>1 DEF AddTask, Boot, DriversInv, Heard, HandlersTyped
<1>2. CASE MakeInterruptManager
  <2>1. drivers = <<>> /\ drivers' = <<>> /\ machine' = machine /\ pc = "tasks" /\ pc' = "devices"
    BY <1>2 DEF MakeInterruptManager, Boot, DriversInv
  <2>2. HandlersTyped'
    BY <1>2 DEF MakeInterruptManager, HandlersTyped
  <2>3. Heard'
    BY <2>1 DEF Heard
  <2> QED BY <2>1, <2>2, <2>3 DEF DriversInv
<1>3. CASE MakeKeyboardAndMouse
  <2>1. /\ Adds(Devices) /\ machine' = machine
        /\ pc = "devices" /\ pc' = "pci" /\ drivers = <<>>
    BY <1>3 DEF MakeKeyboardAndMouse, Boot, DriversInv, Devices
  <2>2. Devices \in Seq(AllDrivers)
    BY DEF Devices, AllDrivers
  <2>3. drivers' \in Seq(AllDrivers) /\ Heard' /\ HandlersTyped'
    BY <2>1, <2>2, AddsHeard DEF DriversInv
  <2>4. drivers' = Devices
    BY <2>1, <2>2 DEF Adds
  <2> QED BY <2>1, <2>3, <2>4 DEF DriversInv
<1>4. CASE SearchPci
  <2> DEFINE found == SelectDrivers(machine)
  <2>1. pc = "pci" /\ pc' = "timer" /\ drivers = Devices
    BY <1>4 DEF SearchPci, Boot, DriversInv
  <2>2. found \in Seq(CardFunctions)
    <3>1. machine \in Machines
      BY <2>1 DEF DriversInv
    <3> QED BY <3>1, SearchFindsCards
  <2>3. PICK port \in [DOMAIN found -> UNION {PortBases(found[n]) : n \in DOMAIN found}] :
          /\ \A n \in DOMAIN found : port[n] \in PortBases(found[n])
          /\ Adds([n \in DOMAIN found |->
                      [kind |-> "card", line |-> found[n].line,
                       port |-> port[n], id |-> n]])
    BY <1>4 DEF SearchPci
  <2> DEFINE new == [n \in DOMAIN found |->
                        [kind |-> "card", line |-> found[n].line,
                         port |-> port[n], id |-> n]]
  <2> HIDE DEF found
  <2>4. new \in Seq(CardDrivers)
    <3>1. ASSUME NEW n \in 1 .. Len(found) PROVE new[n] \in CardDrivers
      <4>1. PICK l \in CardLines : found[n] = CardOn(l)
        BY <2>2 DEF CardFunctions
      <4>2. n \in DOMAIN found /\ n \in Nat
        BY <2>2
      <4>3. found[n].line = l /\ port[n] = Port(l)
        BY <2>3, <4>1, <4>2, CardPort
      <4>4. new[n] = [kind |-> "card", line |-> l, port |-> Port(l), id |-> n]
        BY <4>2, <4>3
      <4> QED BY <4>2, <4>4 DEF CardDrivers
    <3>2. Len(found) \in Nat /\ DOMAIN found = 1 .. Len(found)
      BY <2>2
    <3>3. new = [n \in 1 .. Len(found) |-> new[n]]
      BY <3>2
    <3> HIDE DEF new
    <3> QED BY <3>1, <3>2, <3>3
  <2>5. Adds(new)
    BY <2>3
  <2> HIDE DEF new
  <2>6. new \in Seq(AllDrivers)
    BY <2>4 DEF AllDrivers
  <2>7. drivers' \in Seq(AllDrivers) /\ Heard' /\ HandlersTyped'
    BY <2>5, <2>6, AddsHeard DEF DriversInv
  <2>8. drivers' = Devices \o new
    BY <2>1, <2>5 DEF Adds
  <2> QED BY <2>1, <2>4, <2>7, <2>8 DEF DriversInv
<1>5. CASE MakeTimer
  <2>1. Adds(<<Timer>>) /\ pc = "timer" /\ pc' = "activate"
    BY <1>5 DEF MakeTimer, Boot
  <2>2. <<Timer>> \in Seq(AllDrivers)
    BY DEF AllDrivers
  <2>3. drivers' \in Seq(AllDrivers) /\ Heard' /\ HandlersTyped'
    BY <2>1, <2>2, AddsHeard DEF DriversInv
  <2>4. \E cards \in Seq(CardDrivers) : drivers' = (Devices \o cards) \o <<Timer>>
    <3>1. PICK cards \in Seq(CardDrivers) : drivers = Devices \o cards
      BY <2>1 DEF DriversInv
    <3>2. drivers' = drivers \o <<Timer>>
      BY <2>1 DEF Adds
    <3> QED BY <3>1, <3>2
  <2> QED BY <2>1, <2>3, <2>4 DEF DriversInv
<1>6. CASE ActivateAll
  BY <1>6 DEF ActivateAll, Boot, DriversInv, Heard, HandlersTyped
<1>7. CASE TakeCard
  BY <1>7 DEF TakeCard, Boot, DriversInv, Heard, HandlersTyped
<1>8. CASE ActivateInterrupts
  BY <1>8 DEF ActivateInterrupts, Boot, DriversInv, Heard, HandlersTyped
<1> QED BY <1>1, <1>2, <1>3, <1>4, <1>5, <1>6, <1>7, <1>8 DEF Boots

(* The list, the table and what was activated stay as they are, once the   *)
(* interrupts are on.                                                      *)
LEMMA NextDrivers == BootAlone /\ BootAlone' /\ DriversInv /\ [Next]_vars => DriversInv'
<1> SUFFICES ASSUME BootAlone, BootAlone', DriversInv, [Next]_vars PROVE DriversInv'
  OBVIOUS
<1>1. CASE Boots
  BY <1>1, BootDrivers
<1>2. CASE UNCHANGED boot /\ enabled
  <2>1. pc \notin Booting /\ pc' \notin Booting
    BY <1>2 DEF BootAlone, boot
  <2> QED BY <1>2, <2>1 DEF boot, DriversInv, Heard, HandlersTyped, Booting
<1>3. MainLoop => UNCHANGED boot /\ enabled
  BY LoopLabels DEF MainLoop
<1>4. \A l \in Lines : Interrupt(l) => UNCHANGED boot /\ enabled
  BY DEF Interrupt
<1>5. TaskComputes \/ TaskCalls => UNCHANGED boot /\ enabled
  BY DEF TaskComputes, TaskCalls, BootAlone
<1>6. CASE UNCHANGED vars
  BY <1>6 DEF vars, locals, boot, DriversInv, Heard, HandlersTyped
<1> QED BY <1>1, <1>2, <1>3, <1>4, <1>5, <1>6 DEF Next

THEOREM DriversListed == Spec => []DriversInv
<1> QED BY InitDrivers, NextDrivers, BootIsAlone, PTL DEF Spec

-----------------------------------------------------------------------------
(* Types, and the lines that wait                                          *)

(* A handler begins and ends with no line in service.                      *)
LEMMA LinesEnd ==
    ASSUME NEW l \in Lines, inService = {}
    PROVE  Acknowledged(Requested(l), l) = {}
<1>1. l \in 0 .. 15
  BY KernelAssumption DEF Lines, TimerLine, KeyboardLine, MouseLine
<1>2. \A n \in Int : Min({n}) = n
  BY DEF Min
<1>3. CASE l < 8
  <2>1. Requested(l) = {l} /\ {l} \cap (0 .. 7) = {l}
    <3>1. Requested(l) = {l}
      BY <1>3, Zenon DEF Requested
    <3>2. l \in 0 .. 7
      BY <1>1, <1>3
    <3> QED BY <3>1, <3>2
  <2>2. Ended({l}, 0 .. 7) = {}
    BY <1>1, <1>2, <2>1 DEF Ended
  <2> QED BY <1>3, <2>1, <2>2 DEF Acknowledged
<1>4. CASE l >= 8
  <2>1. /\ Requested(l) = {2, l} /\ {2, l} \cap (0 .. 7) = {2}
        /\ {l} \cap (8 .. 15) = {l} /\ {2, l} \ {2} = {l}
    <3>1. ~(l < 8) /\ l # 2 /\ l \in 8 .. 15 /\ l \notin 0 .. 7 /\ 2 \in 0 .. 7
      BY <1>1, <1>4
    <3>2. Requested(l) = {2, l}
      BY <3>1, Zenon DEF Requested
    <3> QED BY <3>1, <3>2
  <2>2. Ended({2, l}, 0 .. 7) = {l}
    BY <1>2, <2>1 DEF Ended
  <2>3. Ended({l}, 8 .. 15) = {}
    BY <1>1, <1>2, <2>1 DEF Ended
  <2> QED BY <1>1, <1>4, <2>1, <2>2, <2>3 DEF Acknowledged
<1> QED BY <1>1, <1>3, <1>4

FramesTyped ==
    /\ running \in 0 .. MaxTasks /\ place \in 0 .. 1
    /\ cpustate \in [Tasks -> [thread : 0 .. MaxTasks, place : 0 .. 1]]
    /\ left \in [Tasks -> 0 .. 1]

TypesInv ==
    /\ inService = {} /\ FramesTyped
    /\ stored \in 0 .. MaxTimers
    /\ offset \in 0 .. 2 /\ sent \in 0 .. 2 /\ ack \in BOOLEAN

LEMMA InitTypes == Init => TypesInv
<1> SUFFICES ASSUME Init PROVE TypesInv
  OBVIOUS
<1>1. cpustate \in [Tasks -> [thread : 0 .. MaxTasks, place : 0 .. 1]]
  <2>1. \A t \in Tasks : [thread |-> t, place |-> 0] \in [thread : 0 .. MaxTasks, place : 0 .. 1]
    BY KernelAssumption DEF Tasks
  <2> QED BY <2>1 DEF Init
<1>2. left \in [Tasks -> 0 .. 1]
  BY DEF Init
<1>3. running \in 0 .. MaxTasks /\ place \in 0 .. 1
  BY KernelAssumption DEF Init
<1>4. stored \in 0 .. MaxTimers /\ offset \in 0 .. 2 /\ sent \in 0 .. 2
  BY KernelAssumption DEF Init
<1>5. inService = {} /\ ack \in BOOLEAN
  BY DEF Init
<1> QED BY <1>1, <1>2, <1>3, <1>4, <1>5 DEF TypesInv, FramesTyped

(* The mouse driver counts to three, and so does the mouse.                *)
LEMMA HandlerTypes ==
    ASSUME NEW v, Handle(v), offset \in 0 .. 2, sent \in 0 .. 2, ack \in BOOLEAN
    PROVE  offset' \in 0 .. 2 /\ sent' \in 0 .. 2 /\ ack' \in BOOLEAN
<1>1. CASE OnMouse
  <2>1. \A n \in 0 .. 2 : (n + 1) % 3 \in 0 .. 2
    OBVIOUS
  <2>2. offset' = (offset + 1) % 3
    BY <1>1 DEF OnMouse, OnMouseByte
  <2>3. (ack' = FALSE /\ sent' = sent) \/ (sent' = (sent + 1) % 3 /\ ack' = ack)
    BY <1>1 DEF OnMouse
  <2> QED BY <2>1, <2>2, <2>3
<1>2. CASE OnKey \/ OnTick \/ OnCard \/ OnSyscall \/ Unhandled(v)
  BY <1>2 DEF OnKey, OnTick, OnCard, OnSyscall, Unhandled, ps2
<1> QED BY <1>1, <1>2, HandlerCases

LEMMA InterruptFrames ==
    ASSUME TaskInv, FramesTyped, NEW l, Interrupt(l)
    PROVE  FramesTyped'
<1>1. left' \in [Tasks -> 0 .. 1]
  BY DEF Interrupt, FramesTyped
<1>2. CASE UNCHANGED <<currentTask, cpustate, running, place>>
  BY <1>1, <1>2 DEF FramesTyped
<1>3. CASE Schedule /\ numTasks = 0
  BY <1>1, <1>3 DEF Schedule, FramesTyped
<1>4. CASE Schedule /\ numTasks # 0
  <2> DEFINE Frames == [thread : 0 .. MaxTasks, place : 0 .. 1]
  <2>1. Frame \in Frames
    BY DEF Frame, FramesTyped
  <2>2. Saved \in [Tasks -> Frames]
    <3> HIDE DEF Frames
    <3>1. cpustate \in [Tasks -> Frames]
      BY DEF FramesTyped, Frames
    <3> QED BY <2>1, <3>1 DEF Saved
  <2>3. Following \in Tasks
    BY <1>4, FollowingIsTask DEF TaskInv
  <2>4. Saved[Following] \in Frames
    BY <2>2, <2>3
  <2>5. Saved[Following].thread \in 0 .. MaxTasks /\ Saved[Following].place \in 0 .. 1
    BY <2>4
  <2>6. /\ cpustate' = Saved /\ running' = Saved[Following].thread
        /\ place' = Saved[Following].place
    BY <1>4 DEF Schedule
  <2> QED BY <1>1, <2>2, <2>5, <2>6 DEF FramesTyped
<1> QED BY <1>2, <1>3, <1>4 DEF Interrupt

LEMMA NextTypes ==
    BootAlone /\ TimerInv /\ TaskInv /\ TypesInv /\ [Next]_vars => TypesInv'
<1> SUFFICES ASSUME BootAlone, TimerInv, TaskInv, TypesInv, [Next]_vars
             PROVE  TypesInv'
  OBVIOUS
<1>1. CASE Boots
  <2>1. UNCHANGED <<tasks, inService, stored, sent>> /\ offset' \in {offset, 0}
    BY <1>1, BootSteps
  <2>2. ack' \in BOOLEAN
    BY <1>1 DEF Boots, AddTask, MakeInterruptManager, MakeKeyboardAndMouse, SearchPci,
                MakeTimer, ActivateAll, TakeCard, ActivateInterrupts, Adds, ps2, TypesInv
  <2> QED BY <2>1, <2>2 DEF TypesInv, FramesTyped, tasks
<1>2. CASE MainLoop
  <2>1. UNCHANGED <<tasks, inService, ps2>>
    BY <1>2, LoopLabels
  <2>2. stored' \in 0 .. MaxTimers
    <3>1. CASE Prints \/ CountTimer
      BY <3>1 DEF Prints, CountTimer, timer, TypesInv
    <3>2. CASE StoreTimer
      BY <3>2, KernelAssumption DEF StoreTimer, TimerInv
    <3> QED BY <1>2, <3>1, <3>2 DEF MainLoop
  <2> QED BY <2>1, <2>2 DEF TypesInv, FramesTyped, tasks, ps2
<1>3. ASSUME NEW l \in Lines, Interrupt(l) PROVE TypesInv'
  <2>1. FramesTyped'
    BY <1>3, InterruptFrames DEF TypesInv
  <2>2. inService' = {}
    BY <1>3, LinesEnd DEF Interrupt, TypesInv
  <2>3. Handle(l)
    BY <1>3 DEF Interrupt
  <2>4. stored' = stored
    BY <2>3, HandlerSteps
  <2>5. offset' \in 0 .. 2 /\ sent' \in 0 .. 2 /\ ack' \in BOOLEAN
    BY <2>3, HandlerTypes DEF TypesInv
  <2> QED BY <2>1, <2>2, <2>4, <2>5 DEF TypesInv
<1>4. CASE TaskComputes
  BY <1>4 DEF TaskComputes, TypesInv, FramesTyped, timer, ps2
<1>5. CASE TaskCalls
  <2>1. Handle(SyscallVector)
    BY <1>5 DEF TaskCalls
  <2>2. stored' = stored
    BY <2>1, HandlerSteps
  <2>3. offset' \in 0 .. 2 /\ sent' \in 0 .. 2 /\ ack' \in BOOLEAN
    BY <2>1, HandlerTypes DEF TypesInv
  <2> QED BY <1>5, <2>2, <2>3 DEF TaskCalls, TypesInv, FramesTyped
<1>6. CASE UNCHANGED vars
  BY <1>6 DEF vars, TypesInv, FramesTyped, tasks, timer, ps2
<1> QED BY <1>1, <1>2, <1>3, <1>4, <1>5, <1>6 DEF Next

-----------------------------------------------------------------------------
(* The first card is the third driver, if there is a card.                 *)
LEMMA ThirdIsCard ==
    ASSUME NEW cards \in Seq(CardDrivers),
           drivers = (Devices \o cards) \o <<Timer>>, Cards # {}
    PROVE  Min(Cards) = 3 /\ drivers[3] \in CardDrivers
<1> DEFINE K == Len(cards)
<1>1. /\ K \in Nat /\ DOMAIN drivers = 1 .. K + 3
      /\ drivers[1] = Keyboard /\ drivers[2] = Mouse /\ drivers[K + 3] = Timer
      /\ \A n \in 3 .. K + 2 : drivers[n] = cards[n - 2] /\ n - 2 \in 1 .. K
  BY DEF Devices
<1> HIDE DEF K
<1>2. \A n \in Cards : n \in 3 .. K + 2
  <2> TAKE n \in Cards
  <2>1. n \in 1 .. K + 3 /\ drivers[n].kind = "card"
    BY <1>1 DEF Cards
  <2>2. n # 1 /\ n # 2 /\ n # K + 3
    BY <1>1, <2>1, DriverLines
  <2> QED BY <1>1, <2>1, <2>2
<1>3. 3 \in 3 .. K + 2
  BY <1>1, <1>2
<1>4. cards[1] \in CardDrivers /\ drivers[3] = cards[1]
  <2>1. 3 - 2 = 1 /\ 1 \in 1 .. K
    BY <1>1, <1>3
  <2> QED BY <1>1, <1>3, <2>1 DEF K
<1>5. 3 \in Cards
  BY <1>1, <1>3, <1>4, DriverLines DEF Cards
<1>6. \A n \in Cards : n \in Int /\ 3 =< n
  BY <1>1, <1>2
<1>7. Min(Cards) \in Cards /\ \A n \in Cards : Min(Cards) =< n
  BY <1>5, <1>6, Zenon DEF Min
<1>8. Min(Cards) = 3
  BY <1>5, <1>6, <1>7
<1> QED BY <1>4, <1>8

(* When interrupts come on, every driver is active and in the table,       *)
(* unless a later one has its line; drivers[2] is the first card, with its *)
(* own port; and no line waits for an EOI between handlers, whatever the   *)
(* machine has on its bus (kernel.cpp 277-330, pci.cpp 69-115,             *)
(* driver.cpp 34-44, interrupts.cpp 15-20).                                *)
THEOREM DriversAreHeard == Spec => []EveryDriverIsHeard
<1>1. BootAlone /\ TimerInv /\ TaskInv /\ TypesInv /\ DriversInv => EveryDriverIsHeard
  <2> SUFFICES ASSUME BootAlone, TimerInv, TaskInv, TypesInv, DriversInv
               PROVE  EveryDriverIsHeard
    OBVIOUS
  <2>1. TypeOK
    <3>1. handlers \in [Vectors -> {drivers[n] : n \in DOMAIN drivers}
                                      \cup {None, Unset, Syscall}]
      BY DEF DriversInv, HandlersTyped
    <3>2. enabled \in BOOLEAN /\ inService \in SUBSET (0 .. 15)
      BY DEF BootAlone, TypesInv
    <3>3. /\ numTasks \in 0 .. MaxTasks /\ currentTask \in 0 .. numTasks
          /\ running \in 0 .. numTasks
      BY DEF TaskInv, TaskTypes, FramesAreOwn
    <3>4. numTimers \in 0 .. MaxTimers
      BY KernelAssumption DEF TimerInv, TypesInv
    <3> QED BY <3>1, <3>2, <3>3, <3>4 DEF TypesInv, FramesTyped, TypeOK
  <2>2. ASSUME enabled
        PROVE  /\ \A n \in DOMAIN drivers :
                     /\ drivers[n] \in active
                     /\ \/ handlers[drivers[n].line] = drivers[n]
                        \/ \E m \in DOMAIN drivers :
                              m > n /\ drivers[m].line = drivers[n].line
               /\ Cards # {} => eth0 = drivers[Min(Cards)] /\ eth0.port = Port(eth0.line)
               /\ inService = {}
    <3>1. pc \notin Booting
      BY <2>2 DEF BootAlone
    <3>2. /\ active = {drivers[n] : n \in DOMAIN drivers} /\ eth0 = drivers[3]
          /\ \E cards \in Seq(CardDrivers) : drivers = (Devices \o cards) \o <<Timer>>
      BY <3>1 DEF DriversInv, Booting
    <3>3. Cards # {} => eth0 = drivers[Min(Cards)] /\ eth0.port = Port(eth0.line)
      BY <3>2, ThirdIsCard, DriverLines
    <3>4. Heard
      BY DEF DriversInv
    <3> QED BY <3>2, <3>3, <3>4 DEF Heard, TypesInv
  <2> QED BY <2>1, <2>2 DEF EveryDriverIsHeard
<1> QED BY <1>1, InitTimers, NextTimers, InitTasks, NextTasks, InitTypes, NextTypes,
           BootIsAlone, DriversListed, PTL DEF Spec
=============================================================================
