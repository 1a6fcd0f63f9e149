------------------------------ MODULE DevIndex ------------------------------
(***************************************************************************)
(* Two places of the kernel turn a device into an index of device_sem[]:   *)
(* Do_IO_Device computes it from the address of the command register the   *)
(* process writes, deviceInterrupt from the interrupt line and the device  *)
(* number.  A process woken by an interrupt is the one that asked for the  *)
(* operation only if the two computations agree.                           *)
(***************************************************************************)
EXTENDS Integers

DEV_REG_START == 268435540        \* 0x10000054, the first device register
DEV_REG_SIZE  == 16               \* bytes of one device's registers

\* The interrupt lines that carry devices, the devices of a line, and the
\* line of the terminals, whose register block holds two sub-devices.
Line     == 3..7
Number   == 0..7
TERMLINE == 7

\* A unit executes one operation at a time: a disk, flash, network or printer
\* device is one unit, a terminal is a receiver and a transmitter.
UnitsOf(line) == IF line = TERMLINE THEN {"recv", "transm"} ELSE {"dtp"}

DEV_REG_ADDR(line, dev) ==
  DEV_REG_START + (line - 3) * 8 * DEV_REG_SIZE + dev * DEV_REG_SIZE

\* The register a process passes to DOIO to start an operation of the unit.
CommandAddr(line, dev, unit) ==
  DEV_REG_ADDR(line, dev) + (IF unit = "transm" THEN 12 ELSE 4)

DEV_POSITION(T) == (T - DEV_REG_START) \div (DEV_REG_SIZE \div 2)

\* Do_IO_Device: the position counts half register blocks, so it is halved
\* for the lines with one semaphore per device and shifted for the terminals.
CommandSem(T) ==
  IF DEV_POSITION(T) > 63 THEN DEV_POSITION(T) - 32 ELSE DEV_POSITION(T) \div 2

\* The reading of term_is_recv that its comment in the code gives.
Fault_InterruptSem(line, dev, unit) ==
  8 * (line - 3) + (IF line = TERMLINE THEN 2 * dev ELSE dev)
                 + (IF unit = "recv" THEN 1 ELSE 0)

\* deviceInterrupt: sem_num.  The code's term_is_recv is 1 when it serves the
\* transmitter.
InterruptSem(line, dev, unit) ==
  8 * (line - 3) + (IF line = TERMLINE THEN 2 * dev ELSE dev)
                 + (IF unit = "transm" THEN 1 ELSE 0)
=============================================================================
