------------------------------ MODULE MCKernel ------------------------------
(* Small instances of the nucleus for TLC. *)
EXTENDS KernelProps, TLC

CONSTANTS p1, p2, p3, p4

\* A printer and a terminal; the terminal's block holds two units.
PrinterAndTerminal == {<<6, 1>>, <<7, 1>>}
Terminal == {<<7, 1>>}
NoDevice == {}

Low     == {0}
LowHigh == {0, 1}

NoSupport  == {FALSE}
AnySupport == BOOLEAN

\* Control blocks are interchangeable but for the first process's.
Interchangeable == Permutations(Pcb \ {Root})

\* soft_count has no upper bound when processes share devices: the handler of
\* DOIO counts a caller it did not block.
MaxSoft == 2
SoftBounded == soft_count \in -MaxSoft..MaxSoft
=============================================================================
