---------------------------- MODULE Reassembler ----------------------------
(***************************************************************************)
(* The class StreamReassembler of libsponge/stream_reassembler.cc.  A      *)
(* record r holds the members without their underscore; _mp is a function  *)
(* from the index of a stored substring to the substring, and _capacity is *)
(* the capacity of _output, which the constructor sets to the same value.  *)
(*                                                                         *)
(* The bytes are Bytes(i, n): the code never looks at one, and a substring *)
(* says which part of the sender's stream it is.                           *)
(***************************************************************************)
EXTENDS ByteStreams, FiniteSetsExt

NewReassembler(capacity) ==
  [output |-> NewStream(capacity), mp |-> <<>>, nidx |-> 0,
   eof |-> FALSE, eidx |-> 0, unassembled_bytes |-> 0]

\* A mistake: the bytes that were assembled before are written again.
AssembleAll(r, data, index) ==
  [r EXCEPT !.output = Written(@, data), !.nidx = @ + Accepted(r.output, data)]

\* Write the part of data, which starts at index <= _nidx, that is new.
Assemble(r, data, index) ==
  LET new == SubSeq(data, r.nidx - index + 1, Len(data))
  IN  [r EXCEPT !.output = Written(@, new),
                !.nidx = @ + Accepted(r.output, new)]

\* A mistake: _unassembled_bytes still counts what was erased.
EraseUncounted(r, key) == [r EXCEPT !.mp = Restrict(@, DOMAIN @ \ {key})]

Erase(r, key) ==
  [r EXCEPT !.unassembled_bytes = @ - Len(r.mp[key]),
            !.mp = Restrict(@, DOMAIN @ \ {key})]

\* A mistake: a substring that starts right at _nidx is left in _mp.
TakePassed(r) ==
  LET key == Min(DOMAIN r.mp)
  IN  IF DOMAIN r.mp # {} /\ key < r.nidx
      THEN Erase(Assemble(r, r.mp[key], key), key)
      ELSE r

\* One turn of the loop over _mp: the first substring, if _nidx has reached it, is
\* written and erased, also when _output has no room for it.
Take(r) ==
  LET key == Min(DOMAIN r.mp)
  IN  IF DOMAIN r.mp # {} /\ key <= r.nidx
      THEN Erase(Assemble(r, r.mp[key], key), key)
      ELSE r

\* The loop: every turn erases an entry.
Drain(r) ==
  LET turn[k \in Nat] == IF k = 0 THEN r ELSE Take(turn[k - 1])
  IN  turn[Cardinality(DOMAIN r.mp)]

\* The bytes of str that are stored: `room` is a size_t, so a negative room is
\* a huge one.
StoreSize(room, str) == IF room < 0 THEN Len(str) ELSE min(room, Len(str))

\* A mistake: substrings are merged only when they overlap.
Overlaps(index, str, key) == key < index + Len(str)

\* The loop that merges what comes after str goes on to this key.
Touches(index, str, key) == key <= index + Len(str)

\* While w.str, which starts at w.index, is merged with what is stored in w.r: one
\* turn of the loop that takes the first substring at or after w.index.
Absorb(w) ==
  LET after == {key \in DOMAIN w.r.mp : key >= w.index}
      key   == Min(after)
      next  == w.r.mp[key]
  IN  IF after # {} /\ Touches(w.index, w.str, key)
      THEN [index |-> w.index,
            str   |-> w.str \o SubSeq(next, w.index + Len(w.str) - key + 1, Len(next)),
            r     |-> Erase(w.r, key)]
      ELSE w

AbsorbAll(w) ==
  LET turn[k \in Nat] == IF k = 0 THEN w ELSE Absorb(turn[k - 1])
  IN  turn[Cardinality(DOMAIN w.r.mp)]

\* Merge w.str with the last substring before it, if that one reaches it.
JoinLast(w) ==
  LET before == {key \in DOMAIN w.r.mp : key < w.index}
      key    == Max(before)
      last   == w.r.mp[key]
      end    == key + Len(last)
  IN  IF before # {} /\ end >= w.index
      THEN [index |-> key,
            str   |-> last \o SubSeq(w.str, end - w.index + 1, Len(w.str)),
            r     |-> Erase(w.r, key)]
      ELSE w

\* std::map::emplace
emplace(mp, index, str) ==
  [key \in DOMAIN mp \cup {index} |-> IF key \in DOMAIN mp THEN mp[key] ELSE str]

\* Store what there is room for.
Keep(w) ==
  LET room == w.r.output.capacity - w.r.unassembled_bytes - Len(w.r.output.buf)
      n    == StoreSize(room, w.str)
  IN  [w.r EXCEPT !.unassembled_bytes = @ + n,
                  !.mp = emplace(@, w.index, SubSeq(w.str, 1, n))]

\* Merge data, which starts at index > _nidx, with the substrings it touches:
\* first those after it in the order of their keys, then the one before it.
Store(r, data, index) ==
  Keep(JoinLast(AbsorbAll([index |-> index, str |-> data, r |-> r])))

\* A mistake: the end mark is taken for the end of the stream.
MarkSeen(r) == r.eof

Complete(r) == r.eof /\ r.nidx >= r.eidx

\* Note where the stream ends.
Mark(r, end) == [r EXCEPT !.eidx = end, !.eof = TRUE]

\* What becomes of data: it is stored, or it is assembled with what is stored, or it
\* has no byte that is new.
Merged(r, data, index) ==
  IF index > r.nidx THEN Store(r, data, index)
  ELSE IF Len(data) > r.nidx - index THEN Drain(Assemble(r, data, index))
  ELSE r

\* _output ends with the last byte.
Finish(r) == IF Complete(r) THEN [r EXCEPT !.output = Ended(@)] ELSE r

PushSubstring(r, data, index, eof) ==
  Finish(Merged(IF eof THEN Mark(r, index + Len(data)) ELSE r, data, index))

-----------------------------------------------------------------------------
\* The indices the stored substring with this key covers.
Span(r, key) == key .. key + Len(r.mp[key]) - 1

\* The indices of the bytes that are stored and not yet assembled.
Held(r) == UNION {Span(r, key) : key \in DOMAIN r.mp}

\* The indices of all the bytes that arrived and were not discarded.
Have(r) == 0 .. r.nidx - 1 \cup Held(r)

\* One past the last index that fits the capacity: the right edge of the window.
Edge(r) == r.nidx + RemainingCapacity(r.output)

\* What is kept in _mp lies beyond _nidx and is merged: between two entries, and
\* before the first, at least one byte is missing.
GapsBetween(r) ==
  /\ \A key \in DOMAIN r.mp : key > r.nidx
  /\ \A k1, k2 \in DOMAIN r.mp : k1 < k2 => k1 + Len(r.mp[k1]) < k2

\* Every byte is where the sender put it: in _mp at its index, and in _output
\* as the bytes just before _nidx.
BytesInPlace(r) ==
  /\ \A key \in DOMAIN r.mp : r.mp[key] = Bytes(key, Len(r.mp[key]))
  /\ r.output.buf = Bytes(r.nidx - Len(r.output.buf), Len(r.output.buf))
  /\ r.output.written = r.nidx % UIntMod
=============================================================================
