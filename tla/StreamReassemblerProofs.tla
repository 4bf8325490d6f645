---------------------- MODULE StreamReassemblerProofs ----------------------
(***************************************************************************)
(* The safety of a StreamReassembler, for every capacity, every stream and *)
(* every substring of it, however far past the window.                     *)
(***************************************************************************)
EXTENDS StreamReassembler, ReassemblerProofs

\* The inductive invariant.
AInv == OfStream(reasm, StreamLen)

\* A new reassembler has it.
LEMMA InitAInv == Init => AInv
  BY ReassemblerAssumption, NewOfStream DEF Init, AInv

\* Every call of push_substring and every read keeps it.
LEMMA StepAInv == AInv /\ [Next]_reasm => AInv'
<1> SUFFICES ASSUME AInv, [Next]_reasm PROVE AInv'
  OBVIOUS
<1>1. OfStream(reasm, StreamLen) /\ StreamLen \in Nat /\ Capacity \in Nat
  BY ReassemblerAssumption DEF AInv
<1>2. ASSUME NEW index \in 0 .. StreamLen, NEW n \in 0 .. StreamLen - index,
             NEW eof \in BOOLEAN, push_substring(index, n, eof)
      PROVE  AInv'
  <2> DEFINE t == PushSubstring(reasm, Bytes(index, n), index, eof)
  <2>1. reasm' = t /\ (eof => index + n = StreamLen)
    BY <1>2 DEF push_substring
  <2> HIDE DEF t
  <2>2. index \in Nat /\ n \in Nat /\ index .. index + n - 1 \subseteq 0 .. StreamLen - 1
    BY <1>1
  <2>3. OfStream(t, StreamLen)
    BY <1>1, <2>1, <2>2, PushOfStream DEF t
  <2> QED BY <2>1, <2>3 DEF AInv
<1>3. ASSUME NEW len \in 1 .. Capacity, read(len)
      PROVE  AInv'
  <2> DEFINE t == [reasm EXCEPT !.output = Popped(@, len)]
  <2>1. reasm' = t /\ len \in 1 .. Len(reasm.output.buf)
    BY <1>3 DEF read
  <2> HIDE DEF t
  <2>2. len \in Nat /\ len <= Len(reasm.output.buf)
    BY <1>1, <2>1
  <2>3. OfStream(t, StreamLen)
    BY <1>1, <2>2, ReadOfStream DEF t
  <2> QED BY <2>1, <2>3 DEF AInv
<1>4. CASE UNCHANGED reasm
  BY <1>4 DEF AInv
<1> QED BY <1>2, <1>3, <1>4, Zenon DEF Next

\* The invariant says what the runs check.
LEMMA AInvSafe == AInv => Separated /\ CountedOnce /\ InPlace /\ EndsWhenComplete
<1> SUFFICES ASSUME AInv PROVE Separated /\ CountedOnce /\ InPlace /\ EndsWhenComplete
  OBVIOUS
<1>1. /\ RInv(reasm) /\ LoopInv(reasm)
      /\ reasm.output.ended <=> reasm.eof /\ reasm.nidx = StreamLen
  BY DEF AInv, OfStream, RInv
<1>2. Separated
  BY <1>1 DEF Separated, GapsBetween, RInv, LoopInv, Stored
<1>3. CountedOnce
  BY <1>1 DEF CountedOnce, LoopInv, Counted
<1>4. InPlace
  BY <1>1 DEF InPlace, BytesInPlace, LoopInv, Stored, Assembled
<1> QED BY <1>1, <1>2, <1>3, <1>4, Zenon DEF EndsWhenComplete

\* Whatever the capacity and the stream, and however substrings overlap, repeat, come out
\* of order or reach past the window, push_substring keeps what waits in _mp merged and
\* beyond _nidx, counts every waiting byte once, delivers every byte in its place and ends
\* the output with the last one.
THEOREM ReassemblerSafe ==
  Spec => [](Separated /\ CountedOnce /\ InPlace /\ EndsWhenComplete)
  BY InitAInv, StepAInv, AInvSafe, PTL DEF Spec
=============================================================================
