-------------------------- MODULE WrappingIntegers --------------------------
(***************************************************************************)
(* libsponge/wrapping_integers.cc: conversion between the 32-bit sequence  *)
(* numbers of the TCP header and the 64-bit "absolute" sequence numbers    *)
(* that TCPSender and TCPReceiver compute with.                            *)
(*                                                                         *)
(* M stands for 2^32.  The 64-bit side is not wrapped: the code overflows  *)
(* it only after 2^64 - 2^32 bytes of one connection.                      *)
(***************************************************************************)
EXTENDS Integers

CONSTANT M

ASSUME MAssumption == M \in Nat /\ M >= 4 /\ M % 2 = 0

\* The values of the class WrappingInt32.
WrappingInt32 == 0 .. M - 1

wrap(n, isn) == (isn + n) % M

\* A mistake: the number just below the checkpoint's multiple of M is tried
\* even when there is none.
unwrapBelowZero(n, isn, checkpoint) ==
  LET num  == (n - isn) % M
      base == (checkpoint \div M) * M
      ret  == base + num
  IN  IF ret > checkpoint
      THEN IF ret - checkpoint > checkpoint - ret + M THEN ret - M ELSE ret
      ELSE IF checkpoint - ret > ret + M - checkpoint THEN ret + M ELSE ret

\* A mistake: the number above is never tried.
unwrapNeverAbove(n, isn, checkpoint) ==
  LET num  == (n - isn) % M
      base == (checkpoint \div M) * M
      ret  == base + num
  IN  IF ret > M - 1 /\ ret - checkpoint > checkpoint - ret + M
      THEN ret - M
      ELSE ret

unwrap(n, isn, checkpoint) ==
  LET num  == (n - isn) % M
      base == (checkpoint \div M) * M
      ret  == base + num
  IN  IF ret > checkpoint
      THEN IF ret > M - 1 /\ ret - checkpoint > checkpoint - ret + M
           THEN ret - M
           ELSE ret
      ELSE IF checkpoint - ret > ret + M - checkpoint
           THEN ret + M
           ELSE ret
=============================================================================
