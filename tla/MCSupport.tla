------------------------------ MODULE MCSupport -----------------------------
(* Small instances of the support level for TLC. *)
EXTENDS SupportProps, Testers

CONSTANTS p1, p2, p3, p4,
          pr1, pr2, pr3, fl1, fl2, fl3, tw1, tw2, tw3, tr1, tr2, tr3, main, swap

First(units) == SubSeq(units, 1, UPROCMAX)

Printers  == First(<<pr1, pr2, pr3>>)
Flashes   == First(<<fl1, fl2, fl3>>)
Writers   == First(<<tw1, tw2, tw3>>)
Readers   == First(<<tr1, tr2, tr3>>)
Semaphores ==
  Range(Printers) \cup Range(Flashes) \cup Range(Writers) \cup Range(Readers) \cup {main, swap}

FlashesAndDisk == {<<4, a - 1>> : a \in 1..UPROCMAX} \cup {<<3, 7>>}

NoPrio       == {}
WithSupport  == {TRUE}
SupportLevel == {"CREATEPROCESS", "TERMSELF", "PASSEREN", "VERHOGEN", "DOIO", "TRAP"}

TestPrograms == {fibEight, fibEleven, strConcat, terminalReader, printerTest,
                 terminalTest2, terminalTest3, terminalTest4, terminalTest5}

\* A service that returns, and one that ends in a trap.
AnyRequest == {<<"GETTOD", "WRITEPRINTER">>}

\* Nobody, as the code is; or one U-proc too.
LastLoaded == {{}, {UPROCMAX}}
FirstLoaded == {{}, {1}}

Children == Permutations(Pcb \ {Root})
=============================================================================
