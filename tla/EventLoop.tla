----------------------------- MODULE EventLoop -----------------------------
(***************************************************************************)
(* libsponge/util/eventloop.cc.  A loop is the record [pc, rules, todo,    *)
(* ready]: the rules that are not cancelled, and between poll and the end  *)
(* of wait_next_event the rules still to be looked at and those poll found *)
(* ready.  The rules belong to an owner, whose state `x` is what their     *)
(* callbacks change; one rule is one number.                               *)
(***************************************************************************)
EXTENDS Naturals, Sequences

CONSTANTS Reads(_),         \* Rule::direction is Direction::In
          AtEof(_, _),      \* Rule::fd has met the end of its input
          Closed(_, _),     \* Rule::fd is closed
          Interest(_, _),   \* Rule::interest
          Cancel(_, _)      \* Rule::cancel, what it makes of the owner's state

NewLoop(rules) == [pc |-> "poll", rules |-> rules, todo |-> <<>>, ready |-> {}]

\* The pollfd of each rule: the rules left, and those whose events are asked for.
RECURSIVE SetUp(_, _)
SetUp(x, rules) ==
  IF rules = <<>> THEN [owner |-> x, rules |-> <<>>, events |-> {}]
  ELSE LET r == Head(rules)
       IN  IF (Reads(r) /\ AtEof(x, r)) \/ Closed(x, r)
           THEN SetUp(Cancel(x, r), Tail(rules))
           ELSE LET rest == SetUp(x, Tail(rules))
                IN  [rest EXCEPT !.rules = <<r>> \o @,
                                 !.events = IF Interest(x, r) THEN @ \cup {r} ELSE @]

SomethingToPoll(setup) == setup.events # {}

\* What poll finds: `ready` and `hup` are the rules whose descriptor is ready for
\* their direction, and those whose descriptor has hung up.  A rule that is ready
\* has its callback called, one that has only hung up is cancelled.
Polled(setup, ready, hup) ==
  [pc |-> "results", rules |-> setup.rules, ready |-> ready \cap setup.events,
   todo |-> SelectSeq(setup.rules, LAMBDA r : r \in setup.events \cap (ready \cup hup))]

\* The rule whose turn it is in the loop through the poll results.
Turn(loop) == Head(loop.todo)
MustCancel(loop) == Turn(loop) \notin loop.ready

\* The loop after the callback of that rule, or after it is cancelled and erased.
Advanced(loop) == [loop EXCEPT !.todo = Tail(@)]
Erased(loop) == [loop EXCEPT !.todo = Tail(@), !.rules = SelectSeq(@, LAMBDA r : r # Turn(loop))]

\* The exception after a callback: it neither read nor wrote the descriptor, and
\* the rule is as interested as before.
BusyWait(x, r, serviced) == ~serviced /\ Interest(x, r)
=============================================================================
