------------------------------ MODULE MC_Consen ------------------------------
(* Six pairs of task lists; modbus_bool has two bytes, modbus_word two      *)
(* words. The replies of com1 may be out of step by one.                    *)
EXTENDS Consen

bits(num, offset)      == [cmd |-> "bits", num |-> num, offset |-> offset]
registers(num, offset) == [cmd |-> "registers", num |-> num, offset |-> offset]
writes                 == [cmd |-> "write", num |-> 1, offset |-> 0]

MCOwed == [com1 |-> 1, com2 |-> 0]

MCLayouts ==
  { \* two readers of bits, in bytes of their own
    [com1 |-> <<bits(2, 0), writes>>, com2 |-> <<bits(1, 9)>>],
    \* the first fills its byte, and the second is in the byte behind
    [com1 |-> <<bits(2, 6)>>, com2 |-> <<bits(1, 8)>>],
    \* a byte shared by two tasks of a line, and one task across two bytes
    [com1 |-> <<bits(3, 6), bits(1, 9)>>, com2 |-> <<registers(2, 0)>>],
    \* the last bits of modbus_bool, and registers
    [com1 |-> <<bits(1, 14), bits(1, 15)>>, com2 |-> <<registers(1, 0)>>],
    [com1 |-> <<bits(1, 15)>>, com2 |-> <<registers(1, 0), registers(1, 1)>>],
    \* one line alone
    [com1 |-> <<bits(2, 7), registers(1, 0), bits(1, 6)>>, com2 |-> << >>] }

=============================================================================
