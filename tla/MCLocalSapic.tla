---------------------------- MODULE MCLocalSapic ----------------------------
(* Small instances of LocalSapic for TLC.                                  *)
EXTENDS LocalSapicPort

Tpr(mmi, mic) == [mmi |-> mmi, mic |-> mic]
Xtp(disable, priority) == [disable |-> disable, priority |-> priority]
Ras(kind, arg) == [kind |-> kind, arg |-> arg]
Psr(I, IC, MC) == [i : I, ic : IC, mc : MC]

NoRas == {}
ResetLid == {<<0, 0>>}

\* The external interrupt controller of one processor.
IrqTpr == {Tpr(FALSE, 0), Tpr(FALSE, 1), Tpr(TRUE, 0)}
IrqPsr == Psr(BOOLEAN, BOOLEAN, {FALSE})

\* Special interrupts and machine checks of one processor (a fault clears
\* PSR.ic with machine checks unmasked as well as masked).
SpecialPsr == Psr({FALSE}, {TRUE}, BOOLEAN) \union Psr({FALSE}, {FALSE}, {TRUE})
SpecialRas == {Ras("MCA", 1), Ras("INIT", 1), Ras("INIT_ENTRY", 1), Ras("CMC", 0)}

\* Two processors that may come to share an identifier.
SmpXtp == {Xtp(FALSE, 0), Xtp(FALSE, 1)}
SmpLid == {<<0, 0>>, <<1, 0>>}
SmpPsr == Psr(BOOLEAN, {TRUE}, {FALSE})
=============================================================================
