------------------------------ MODULE Interrupt ------------------------------
(***************************************************************************)
(* How an interrupt vector reaches its handler after idt_init of           *)
(* kernel/interrupt.c (c9) and timer_init's register_handler (c13).        *)
(*                                                                         *)
(* pic_init programs the two 8259As with ten outb's; the 8259 takes ICW1   *)
(* on its control port, then ICW2 (the vector base), ICW3 and ICW4 on its  *)
(* data port, and after that a data-port byte is OCW1, the mask.  The CPU  *)
(* looks a vector up in the IDT, whose limit lidt sets to sizeof(idt) - 1; *)
(* a vector past the limit raises #GP (13) instead.  Every entry of        *)
(* intr_entry_table calls idt_table[vector], which exception_init fills    *)
(* with general_intr_handler.                                              *)
(***************************************************************************)
EXTENDS Integers, SequencesExt

IDT_DESC_CNT == 33     \* 0x21
GATE_DESC_SIZE == 8    \* sizeof(struct gate_desc)
PIC_M_CTRL == 32
PIC_M_DATA == 33
PIC_S_CTRL == 160
PIC_S_DATA == 161
NoVector == -1

\* pic_init's outb(port, byte) calls, in order.
PicInitWrites ==
    << <<PIC_M_CTRL, 17>>, <<PIC_M_DATA, 32>>, <<PIC_M_DATA, 4>>, <<PIC_M_DATA, 1>>,
       <<PIC_S_CTRL, 17>>, <<PIC_S_DATA, 40>>, <<PIC_S_DATA, 2>>, <<PIC_S_DATA, 1>>,
       <<PIC_M_DATA, 254>>, <<PIC_S_DATA, 255>> >>

Bit(x, i) == (x \div 2^i) % 2

\* One 8259A: what it expects next on its data port, the vector base
\* (ICW2 with the low three bits cleared), and the interrupt mask (IMR).
PicReset == [next |-> "ocw1", base |-> 0, imr |-> 255, single |-> FALSE,
             icw4 |-> FALSE]

\* A byte written to the chip's control port (ICW1: bit 4 set) or data port.
PicWrite(chip, isCtrl, b) ==
    CASE isCtrl /\ Bit(b, 4) = 1 ->
             [chip EXCEPT !.next = "icw2", !.imr = 0,
                          !.single = (Bit(b, 1) = 1), !.icw4 = (Bit(b, 0) = 1)]
      [] isCtrl -> chip
      [] chip.next = "icw2" ->
             [chip EXCEPT !.base = b - (b % 8),
                          !.next = IF chip.single
                                   THEN (IF chip.icw4 THEN "icw4" ELSE "ocw1")
                                   ELSE "icw3"]
      [] chip.next = "icw3" ->
             [chip EXCEPT !.next = IF chip.icw4 THEN "icw4" ELSE "ocw1"]
      [] chip.next = "icw4" -> [chip EXCEPT !.next = "ocw1"]
      [] OTHER -> [chip EXCEPT !.imr = b]

\* The master and the slave after the writes of ws.
PicAfter(ws) ==
    LET step(pics, w) ==
            [m |-> IF w[1] \in {PIC_M_CTRL, PIC_M_DATA}
                   THEN PicWrite(pics.m, w[1] = PIC_M_CTRL, w[2]) ELSE pics.m,
             s |-> IF w[1] \in {PIC_S_CTRL, PIC_S_DATA}
                   THEN PicWrite(pics.s, w[1] = PIC_S_CTRL, w[2]) ELSE pics.s]
    IN  FoldLeft(step, [m |-> PicReset, s |-> PicReset], ws)

\* The vector the master raises for its line irq (0..7), or NoVector when
\* the line is masked.
IrqVector(pics, irq) ==
    IF Bit(pics.m.imr, irq) = 0 THEN pics.m.base + irq ELSE NoVector

\* idt_table after exception_init and timer_init's register_handler(0x20).
IdtTable == [v \in 0 .. IDT_DESC_CNT - 1 |->
                 IF v = 32 THEN "intr_timer_handler" ELSE "general_intr_handler"]

\* lidt with limit sizeof(idt) - 1; a gate past the limit gives #GP.
IdtLimit == IDT_DESC_CNT * GATE_DESC_SIZE - 1
Delivered(v) == IF v * GATE_DESC_SIZE + 7 > IdtLimit THEN 13 ELSE v

\* The handler a vector ends in.  general_intr_handler returns at once for
\* the spurious 0x27 and 0x2f; for anything else it prints the exception
\* and spins with interrupts off (while(1)).
Handler(v) ==
    LET d == Delivered(v)
    IN  IF IdtTable[d] = "general_intr_handler"
        THEN (IF d \in {39, 47} THEN "ignored" ELSE "hang")
        ELSE IdtTable[d]
=============================================================================
