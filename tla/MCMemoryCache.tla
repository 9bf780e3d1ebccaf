---------------------------- MODULE MCMemoryCache ----------------------------
(* TLC instances of MemoryCache: two keys, one text value, integers that       *)
(* overflow after one increment (Modulus 2), and half seconds (Ticks 2).     *)
EXTENDS MemoryCache
=============================================================================
