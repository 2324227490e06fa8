------------------------------- MODULE Splice -------------------------------
(***************************************************************************)
(* splice_with_idle: the two pumps that join the two streams of a chain,   *)
(* and the watchdog that ends it when it is idle.                          *)
(*                                                                         *)
(* Bytes are counted in units, of which each end sends at most ToSend.     *)
(* Time is relative, so it needs no bound: what the code reads as `last`   *)
(* and as the end of a sleep are here the time since the one and the time  *)
(* to the other.  Timers fire on time: the clock does not move past the    *)
(* watchdog's wake-up, nor past a pump that has something to do.           *)
(***************************************************************************)
EXTENDS Naturals

CONSTANTS
    ToSend,     \* the units each end has for the other, at most
    Chunk,      \* the units one read returns, at most
    Window,     \* the units a stream takes before its peer reads them
    Idle,       \* idle_timeout_ms
    MinTick     \* the shortest sleep of the watchdog, 10 ms

ASSUME SizesArePositive ==
    /\ ToSend \in Nat /\ Chunk \in Nat \ {0} /\ Window \in Nat \ {0}
    /\ Idle \in Nat \ {0} /\ MinTick \in Nat \ {0}

Ways == {"ab", "ba"}
Other(way) == IF way = "ab" THEN "ba" ELSE "ab"

VARIABLES
    sent,       \* way -> units its sender has written
    shut,       \* way -> whether its sender has shut down its write side
    arrived,    \* way -> units waiting to be read by the pump
    buffer,     \* way -> units read and not yet written
    pump,       \* way -> "reading", "writing", "shutting" or "done"
    written,    \* way -> units the receiver has not taken yet
    delivered,  \* way -> units the receiver has taken
    quiet,      \* time since `last`, the shared clock, was stamped
    nap,        \* time left of the watchdog's sleep
    outcome     \* "running", or how the splice returned

pipes == <<sent, shut, arrived, buffer, pump, written, delivered>>
time == <<quiet, nap>>
vars == <<pipes, time, outcome>>

\* The watchdog is polled, not reset: a quarter of the window at a time.
Tick == IF Idle \div 4 > MinTick THEN Idle \div 4 ELSE MinTick

---------------------------------------------------------------------------
Init ==
    /\ sent = [w \in Ways |-> 0] /\ shut = [w \in Ways |-> FALSE]
    /\ arrived = [w \in Ways |-> 0] /\ buffer = [w \in Ways |-> 0]
    /\ pump = [w \in Ways |-> "reading"]
    /\ written = [w \in Ways |-> 0] /\ delivered = [w \in Ways |-> 0]
    /\ quiet = 0 /\ nap = Tick
    /\ outcome = "running"

Running == outcome = "running"

---------------------------------------------------------------------------
\* The two ends of the chain.

Send(w) ==
    /\ Running /\ ~shut[w] /\ sent[w] < ToSend
    /\ sent' = [sent EXCEPT ![w] = @ + 1]
    /\ arrived' = [arrived EXCEPT ![w] = @ + 1]
    /\ UNCHANGED <<shut, buffer, pump, written, delivered, time, outcome>>

\* The sender is done and says so; the other way stays open.
ShutDown(w) ==
    /\ Running /\ ~shut[w]
    /\ shut' = [shut EXCEPT ![w] = TRUE]
    /\ UNCHANGED <<sent, arrived, buffer, pump, written, delivered, time, outcome>>

\* The receiver reads what was written to it, now or long after the splice.
Take(w) ==
    /\ written[w] > 0
    /\ written' = [written EXCEPT ![w] = @ - 1]
    /\ delivered' = [delivered EXCEPT ![w] = @ + 1]
    /\ UNCHANGED <<sent, shut, arrived, buffer, pump, time, outcome>>

---------------------------------------------------------------------------
\* pump, one direction of the splice.

\* A read stamps the shared clock.
Read(w) ==
    /\ Running /\ pump[w] = "reading"
    /\ \E n \in 1..Chunk :
          /\ n <= arrived[w]
          /\ arrived' = [arrived EXCEPT ![w] = @ - n]
          /\ buffer' = [buffer EXCEPT ![w] = n]
    /\ pump' = [pump EXCEPT ![w] = "writing"]
    /\ quiet' = 0
    /\ UNCHANGED <<sent, shut, written, delivered, nap, outcome>>

\* write_all, as far as the receiver's window lets it; it does not stamp.
Write(w) ==
    /\ Running /\ pump[w] = "writing" /\ written[w] < Window
    /\ written' = [written EXCEPT ![w] = @ + 1]
    /\ buffer' = [buffer EXCEPT ![w] = @ - 1]
    /\ pump' = [pump EXCEPT ![w] = IF buffer[w] = 1 THEN "reading" ELSE "writing"]
    /\ UNCHANGED <<sent, shut, arrived, delivered, time, outcome>>

\* End of file: the write side is about to be shut down.
EndOfFile(w) ==
    /\ Running /\ pump[w] = "reading" /\ arrived[w] = 0 /\ shut[w]
    /\ pump' = [pump EXCEPT ![w] = "shutting"]
    /\ UNCHANGED <<sent, shut, arrived, buffer, written, delivered, time, outcome>>

\* Mutation: the splice is over with the first direction that ends.
FinishOnEither(w) ==
    /\ Running /\ pump[w] = "shutting"
    /\ pump' = [pump EXCEPT ![w] = "done"]
    /\ outcome' = "both"
    /\ UNCHANGED <<sent, shut, arrived, buffer, written, delivered, time>>

\* shutdown returns, which a receiver may hold up like any write and whose
\* failure is ignored; the splice is over if the other direction is over too.
Finish(w) ==
    /\ Running /\ pump[w] = "shutting"
    /\ pump' = [pump EXCEPT ![w] = "done"]
    /\ outcome' = IF pump[Other(w)] = "done" THEN "both" ELSE outcome
    /\ UNCHANGED <<sent, shut, arrived, buffer, written, delivered, time>>

\* A read or a write fails: try_join returns at once.
Break(w) ==
    /\ Running /\ pump[w] \in {"reading", "writing"}
    /\ outcome' = "broken"
    /\ UNCHANGED <<pipes, time>>

---------------------------------------------------------------------------
\* Mutation: the watchdog sleeps the whole window between looks.
WatchEveryWindow ==
    /\ Running /\ nap = 0
    /\ IF quiet >= Idle
          THEN outcome' = "idle" /\ UNCHANGED nap
          ELSE nap' = Idle /\ UNCHANGED outcome
    /\ UNCHANGED <<pipes, quiet>>

\* Mutation: a direction that is stuck in a write does not count as idle.
WatchReadersOnly ==
    /\ Running /\ nap = 0
    /\ IF quiet >= Idle /\ \A w \in Ways : pump[w] # "writing"
          THEN outcome' = "idle" /\ UNCHANGED nap
          ELSE nap' = Tick /\ UNCHANGED outcome
    /\ UNCHANGED <<pipes, quiet>>

\* The watchdog wakes and looks at the clock.
Watch ==
    /\ Running /\ nap = 0
    /\ IF quiet >= Idle
          THEN outcome' = "idle" /\ UNCHANGED nap
          ELSE nap' = Tick /\ UNCHANGED outcome
    /\ UNCHANGED <<pipes, quiet>>

\* A pump whose read or write would return at once.
Ready(w) == \/ pump[w] = "reading" /\ (arrived[w] > 0 \/ shut[w])
            \/ pump[w] = "writing" /\ written[w] < Window

\* Past the longest time the splice can be quiet for, no more is counted.
Later(clock) == IF clock < 2 * (Idle + Tick) THEN clock + 1 ELSE clock

Pass ==
    /\ Running /\ nap > 0 /\ \A w \in Ways : ~Ready(w)
    /\ nap' = nap - 1
    /\ quiet' = Later(quiet)
    /\ UNCHANGED <<pipes, outcome>>

Next == \/ \E w \in Ways : \/ Send(w) \/ ShutDown(w) \/ Take(w)
                           \/ Read(w) \/ Write(w) \/ EndOfFile(w) \/ Finish(w) \/ Break(w)
        \/ Watch \/ Pass

Spec == Init /\ [][Next]_vars

\* The runtime polls what is ready, a pump or the watchdog, and time goes on.
\* Neither the ends of the chain nor the network owe the splice anything.
FairSpec ==
    /\ Spec /\ WF_vars(Watch) /\ WF_vars(Pass)
    /\ \A w \in Ways : WF_vars(Read(w) \/ Write(w) \/ EndOfFile(w))

---------------------------------------------------------------------------
\* The types, and the conservation of units.
TypeOK ==
    /\ shut \in [Ways -> BOOLEAN]
    /\ pump \in [Ways -> {"reading", "writing", "shutting", "done"}]
    /\ sent \in [Ways -> 0..ToSend] /\ arrived \in [Ways -> 0..ToSend]
    /\ buffer \in [Ways -> 0..Chunk] /\ written \in [Ways -> 0..Window]
    /\ delivered \in [Ways -> 0..ToSend]
    /\ quiet \in Nat /\ nap \in 0..Tick
    /\ outcome \in {"running", "both", "idle", "broken"}
    /\ \A w \in Ways :
          /\ sent[w] = arrived[w] + buffer[w] + written[w] + delivered[w]
          /\ buffer[w] > 0 <=> pump[w] = "writing"

\* A half-closed connection is not a closed one: a splice that reports success
\* because its directions ended has handed over everything either end ever
\* sent, including all that the second sent after the first was done.
EverythingIsHandedOver ==
    outcome = "both" =>
        \A w \in Ways : shut[w] /\ sent[w] = written[w] + delivered[w]

\* "A quarter of the window bounds the overshoot": a chain on which nothing is
\* read is never kept longer than the window and one tick, whatever moment of
\* the watchdog's sleep the last read fell in.
OvershootIsBounded == Running => quiet <= Idle + Tick

\* "the other cannot hang forever": whatever the ends do, stop sending, never
\* close, never read what they are sent, the splice comes to an end.
SpliceEnds == <>(outcome # "running")
=============================================================================
