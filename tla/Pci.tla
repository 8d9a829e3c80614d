--------------------------------- MODULE Pci ---------------------------------
(***************************************************************************)
(* What SelectDrivers finds on the PCI bus.  A machine is a sequence of    *)
(* devices in the order of bus and device number, each with the bit of its *)
(* header that says it has several functions, and the functions that       *)
(* answer.  Port I/O is abstracted to reading these records.               *)
(***************************************************************************)
EXTENDS Integers, Sequences, FiniteSetsExt, SequencesExt

Garbage == -1       \* what an uninitialised field may hold

(* A function's record: vendor and device (as one name), the interrupt     *)
(* line, the type of the header, and six base address registers, each with *)
(* its I/O bit and address.  A register that is not implemented reads 0.   *)
Absent == [vendor |-> "none", line |-> 0, header |-> 0,
           bars |-> [n \in 0 .. 5 |-> [io |-> FALSE, address |-> 0]]]

(* DeviceHasFunctions                                                      *)
NumFunctions(device) == IF device.multi THEN 8 ELSE 1

(* GetBaseAddressRegister: beyond the registers of this type of header the *)
(* result is returned as the stack left it, and the address of a memory    *)
(* register is never set.                                                  *)
MaxBars(header) == 6 - 4 * header

HasPort(f, n) == /\ n < MaxBars(f.header)
                 /\ f.bars[n].io /\ f.bars[n].address # 0

(* The last I/O register with an address gives the port, unless garbage    *)
(* comes after it; without one portBase is not initialised.                *)
PortBases(f) ==
    LET ports == {n \in 0 .. 5 : HasPort(f, n)}
        last  == IF ports = {} THEN Garbage ELSE f.bars[Max(ports)].address
    IN  IF MaxBars(f.header) < 6 THEN {last, Garbage} ELSE {last}

(* GetDriver: the one card the kernel has a driver for; malloc gives the   *)
(* driver its memory at boot.                                              *)
HasDriver(f) == f.vendor = "am79c973"

(* The functions of a device that the loop visits and that get a driver,   *)
(* and those of the whole machine, in the order of the search.             *)
DriversOf(device) ==
    LET visited == Min({NumFunctions(device), Len(device.functions)})
        upTo[n \in 0 .. visited] ==
            IF n = 0 THEN <<>>
            ELSE IF HasDriver(device.functions[n])
                 THEN Append(upTo[n - 1], device.functions[n])
                 ELSE upTo[n - 1]
    IN  upTo[visited]

SelectDrivers(machine) ==
    FlattenSeq([d \in DOMAIN machine |-> DriversOf(machine[d])])
=============================================================================
