----------------------------- MODULE MCServices -----------------------------
(***************************************************************************)
(* Services on small machines.                                             *)
(***************************************************************************)
EXTENDS Services

Hello == [name |-> "hello", resources |-> <<{"MEM"}>>]
Serial == [name |-> "serial", resources |-> <<{"IRQ"}, {"MEM"}>>]
Broken == [name |-> "hello", resources |-> <<{"IRQ"}>>]

HelloDriver == [name |-> "hello", irq |-> NoIrq]
SerialDriver == [name |-> "serial", irq |-> 48]

\* The repository's own board; one whose tables overflow and whose drivers use interrupts.
MCBoards ==
    {[devices |-> <<Hello>>, initcalls |-> <<HelloDriver>>],
     [devices |-> <<Broken, Serial, Hello>>,
      initcalls |-> <<SerialDriver, NoDriver, HelloDriver, SerialDriver>>]}

=============================================================================
