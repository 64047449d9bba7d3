------------------------------- MODULE Bytes --------------------------------
(* The bytes of which keys and packets are made.  *)
EXTENDS Integers

CONSTANT Base     \* number of values of a byte, 256 in the code

Byte == 0 .. (Base - 1)
=============================================================================
