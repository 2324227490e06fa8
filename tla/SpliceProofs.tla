---------------------------- MODULE SpliceProofs ----------------------------
(***************************************************************************)
(* What holds of Splice for every chunk, window, idle time and tick.       *)
(***************************************************************************)
EXTENDS Splice, TLAPS

\* A sum of counters over 0..ToSend is as good as four naturals.
Counted ==
    /\ shut \in [Ways -> BOOLEAN]
    /\ pump \in [Ways -> {"reading", "writing", "shutting", "done"}]
    /\ sent \in [Ways -> Nat] /\ arrived \in [Ways -> Nat]
    /\ buffer \in [Ways -> Nat] /\ written \in [Ways -> Nat]
    /\ delivered \in [Ways -> Nat]
    /\ outcome \in {"running", "both", "idle", "broken"}

\* No unit is lost or duplicated between an end and the other.
Conserved == \A w \in Ways :
    /\ sent[w] = arrived[w] + buffer[w] + written[w] + delivered[w]
    /\ buffer[w] > 0 <=> pump[w] = "writing"

\* A direction at its end of file was shut down by its sender with nothing left to
\* read, and its sender can send no more.
DoneIsDrained == \A w \in Ways :
    pump[w] \in {"shutting", "done"} => shut[w] /\ arrived[w] = 0

BothAreDone == outcome = "both" => \A w \in Ways : pump[w] = "done"

\* While the watchdog sleeps, what is left of its sleep is part of the bound.
SleepIsCounted ==
    /\ quiet \in Nat /\ nap \in Nat /\ nap <= Tick
    /\ Running => quiet + nap <= Idle + Tick

IInv == Counted /\ Conserved /\ DoneIsDrained /\ BothAreDone /\ SleepIsCounted

---------------------------------------------------------------------------
\* A quarter of the window or the shortest sleep: a positive time either way.
LEMMA TickIsPositive == Tick \in Nat /\ Tick > 0
  BY SizesArePositive DEF Tick

LEMMA InitIInv == Init => IInv
  <1> SUFFICES ASSUME Init PROVE IInv
    OBVIOUS
  <1>1. Counted /\ Conserved /\ DoneIsDrained /\ BothAreDone
    BY DEF Init, Counted, Conserved, DoneIsDrained, BothAreDone
  <1>2. SleepIsCounted
    BY TickIsPositive, SizesArePositive DEF Init, SleepIsCounted, Running
  <1> QED BY <1>1, <1>2 DEF IInv

\* The steps of an end of the chain, and of a pump, one conjunct at a time.
LEMMA PipeStep ==
  ASSUME IInv, NEW w \in Ways,
         \/ Send(w) \/ ShutDown(w) \/ Take(w) \/ Read(w) \/ Write(w)
         \/ EndOfFile(w) \/ Finish(w)
  PROVE  IInv'
  <1> USE SizesArePositive, TickIsPositive
  <1>1. CASE Send(w)
    <2>1. Counted' /\ Conserved' /\ DoneIsDrained'
      BY <1>1 DEF IInv, Send, Counted, Conserved, DoneIsDrained
    <2>2. BothAreDone' /\ SleepIsCounted'
      BY <1>1 DEF IInv, Send, BothAreDone, SleepIsCounted, Running, time
    <2> QED BY <2>1, <2>2 DEF IInv
  <1>2. CASE ShutDown(w)
    <2>1. Counted' /\ Conserved' /\ DoneIsDrained'
      BY <1>2 DEF IInv, ShutDown, Counted, Conserved, DoneIsDrained
    <2>2. BothAreDone' /\ SleepIsCounted'
      BY <1>2 DEF IInv, ShutDown, BothAreDone, SleepIsCounted, Running, time
    <2> QED BY <2>1, <2>2 DEF IInv
  <1>3. CASE Take(w)
    <2>1. Counted' /\ DoneIsDrained'
      BY <1>3 DEF IInv, Take, Counted, DoneIsDrained
    <2>2. ASSUME NEW v \in Ways
          PROVE  written'[v] + delivered'[v] = written[v] + delivered[v]
      BY <1>3 DEF IInv, Take, Counted
    <2>3. ASSUME NEW v \in Ways
          PROVE  sent'[v] = arrived'[v] + buffer'[v] + written'[v] + delivered'[v]
      <3>1. UNCHANGED <<sent, arrived, buffer>>
        BY <1>3 DEF Take
      <3>2. /\ sent[v] \in Nat /\ arrived[v] \in Nat /\ buffer[v] \in Nat
            /\ written[v] \in Nat /\ delivered[v] \in Nat
            /\ sent[v] = arrived[v] + buffer[v] + written[v] + delivered[v]
        BY DEF IInv, Counted, Conserved
      <3>3. written'[v] \in Nat /\ delivered'[v] \in Nat
        BY <2>1 DEF Counted
      <3> QED BY <2>2, <3>1, <3>2, <3>3
    <2>4. Conserved'
      BY <1>3, <2>3 DEF IInv, Take, Conserved
    <2>5. BothAreDone' /\ SleepIsCounted'
      BY <1>3 DEF IInv, Take, BothAreDone, SleepIsCounted, Running, time
    <2> QED BY <2>1, <2>4, <2>5 DEF IInv
  <1>4. CASE Read(w)
    <2>1. PICK n \in 1..Chunk : /\ n <= arrived[w]
                                /\ arrived' = [arrived EXCEPT ![w] = @ - n]
                                /\ buffer' = [buffer EXCEPT ![w] = n]
      BY <1>4 DEF Read
    <2>2. Counted' /\ Conserved' /\ DoneIsDrained'
      BY <1>4, <2>1 DEF IInv, Read, Counted, Conserved, DoneIsDrained
    <2>3. BothAreDone' /\ SleepIsCounted'
      BY <1>4 DEF IInv, Read, BothAreDone, SleepIsCounted, Running
    <2> QED BY <2>2, <2>3 DEF IInv
  <1>5. CASE Write(w)
    <2>0. /\ pump[w] = "writing"
          /\ written' = [written EXCEPT ![w] = @ + 1]
          /\ buffer' = [buffer EXCEPT ![w] = @ - 1]
          /\ pump' = [pump EXCEPT ![w] = IF buffer[w] = 1 THEN "reading" ELSE "writing"]
          /\ UNCHANGED <<sent, shut, arrived, delivered, outcome>>
      BY <1>5 DEF Write
    <2>1. Counted' /\ Conserved' /\ DoneIsDrained'
      <3>1. Counted'
        BY <2>0 DEF IInv, Counted, Conserved
      <3>2. Conserved'
        BY <2>0 DEF IInv, Counted, Conserved
      <3>3. DoneIsDrained'
        BY <2>0 DEF IInv, Counted, DoneIsDrained
      <3> QED BY <3>1, <3>2, <3>3
    <2>2. BothAreDone' /\ SleepIsCounted'
      <3>1. UNCHANGED time /\ Running /\ outcome' = "running"
        BY <1>5 DEF Write, Running
      <3> QED BY <3>1 DEF IInv, BothAreDone, SleepIsCounted, Running, time
    <2> QED BY <2>1, <2>2 DEF IInv
  <1>6. CASE Finish(w)
    <2>1. Counted' /\ Conserved' /\ DoneIsDrained'
      BY <1>6 DEF IInv, Finish, Counted, Conserved, DoneIsDrained
    <2>2. BothAreDone'
      BY <1>6 DEF IInv, Finish, BothAreDone, Running, Counted, Ways, Other
    <2>3. SleepIsCounted'
      BY <1>6 DEF IInv, Finish, SleepIsCounted, Running, time
    <2> QED BY <2>1, <2>2, <2>3 DEF IInv
  <1>7. CASE EndOfFile(w)
    <2>1. Counted' /\ Conserved' /\ DoneIsDrained'
      BY <1>7 DEF IInv, EndOfFile, Counted, Conserved, DoneIsDrained
    <2>2. BothAreDone' /\ SleepIsCounted'
      BY <1>7 DEF IInv, EndOfFile, BothAreDone, SleepIsCounted, Running, time
    <2> QED BY <2>1, <2>2 DEF IInv
  <1> QED BY <1>1, <1>2, <1>3, <1>4, <1>5, <1>6, <1>7

\* The clock, the watchdog, and a broken stream.
LEMMA ClockStep ==
  ASSUME IInv, Watch \/ Pass \/ \E w \in Ways : Break(w)
  PROVE  IInv'
  <1> USE SizesArePositive, TickIsPositive
  <1>1. Counted' /\ Conserved' /\ DoneIsDrained' /\ BothAreDone'
    BY DEF IInv, Watch, Pass, Break, pipes, time, Running,
           Counted, Conserved, DoneIsDrained, BothAreDone
  <1>2. SleepIsCounted'
    <2>1. CASE Watch
      BY <2>1 DEF IInv, Watch, SleepIsCounted, Running
    <2>2. CASE Pass
      <3>1. /\ quiet' \in {quiet, quiet + 1}
            /\ nap' = nap - 1 /\ nap > 0 /\ Running
        BY <2>2 DEF Pass, Later
      <3>2. quiet \in Nat /\ nap \in Nat /\ nap <= Tick /\ quiet + nap <= Idle + Tick
        BY <3>1 DEF IInv, SleepIsCounted
      <3>3. nap - 1 \in Nat /\ nap - 1 <= Tick
        BY <3>1, <3>2
      <3> DEFINE Bounded == /\ quiet' \in Nat /\ nap' \in Nat /\ nap' <= Tick
                            /\ quiet' + nap' <= Idle + Tick
      <3>4. ASSUME quiet' = quiet + 1 PROVE Bounded
        <4>1. quiet + 1 \in Nat /\ (quiet + 1) + (nap - 1) <= Idle + Tick
          BY <3>2, <3>3
        <4> QED BY <3>1, <3>3, <3>4, <4>1
      <3>5. ASSUME quiet' = quiet PROVE Bounded
        <4>1. quiet + (nap - 1) <= Idle + Tick
          BY <3>2, <3>3
        <4> QED BY <3>1, <3>2, <3>3, <3>5, <4>1
      <3>6. Bounded
        BY <3>1, <3>4, <3>5
      <3> QED BY <3>6 DEF SleepIsCounted
    <2>3. CASE \E w \in Ways : Break(w)
      BY <2>3 DEF IInv, Break, SleepIsCounted, Running, time
    <2> QED BY <2>1, <2>2, <2>3
  <1> QED BY <1>1, <1>2 DEF IInv

LEMMA Inductive == Spec => []IInv
  <1>1. IInv /\ [Next]_vars => IInv'
    <2> SUFFICES ASSUME IInv, [Next]_vars PROVE IInv'
      OBVIOUS
    <2>1. CASE UNCHANGED vars
      BY <2>1 DEF vars, pipes, time, IInv, Running,
                  Counted, Conserved, DoneIsDrained, BothAreDone, SleepIsCounted
    <2>2. CASE Next
      BY <2>2, PipeStep, ClockStep DEF Next
    <2> QED BY <2>1, <2>2
  <1> QED BY <1>1, InitIInv, PTL DEF Spec

\* What one direction holds is bounded by what it is given room for.
WithinSizes == \A w \in Ways :
    sent[w] <= ToSend /\ buffer[w] <= Chunk /\ written[w] <= Window

LEMMA SizesStay == IInv /\ WithinSizes /\ [Next]_vars => WithinSizes'
  <1> SUFFICES ASSUME IInv, WithinSizes, [Next]_vars, NEW v \in Ways
               PROVE  sent'[v] <= ToSend /\ buffer'[v] <= Chunk /\ written'[v] <= Window
    BY DEF WithinSizes
  <1> USE SizesArePositive
  <1>1. /\ sent[v] \in Nat /\ buffer[v] \in Nat /\ written[v] \in Nat
        /\ sent[v] <= ToSend /\ buffer[v] <= Chunk /\ written[v] <= Window
    BY DEF IInv, Counted, WithinSizes
  <1>2. ASSUME NEW w \in Ways, Send(w)
        PROVE  sent'[v] <= ToSend /\ buffer' = buffer /\ written' = written
    BY <1>1, <1>2 DEF Send, IInv, Counted
  <1>3. ASSUME NEW w \in Ways, Read(w)
        PROVE  buffer'[v] <= Chunk /\ sent' = sent /\ written' = written
    <2>1. PICK n \in 1..Chunk : buffer' = [buffer EXCEPT ![w] = n]
      BY <1>3 DEF Read
    <2>2. buffer'[v] = n \/ buffer'[v] = buffer[v]
      BY <2>1 DEF IInv, Counted
    <2> QED BY <1>1, <1>3, <2>1, <2>2 DEF Read
  <1>4. ASSUME NEW w \in Ways, Write(w)
        PROVE  buffer'[v] <= Chunk /\ sent' = sent /\ written'[v] <= Window
    <2>1. buffer'[v] = buffer[v] - 1 \/ buffer'[v] = buffer[v]
      BY <1>4 DEF Write, IInv, Counted
    <2>2. written'[v] = written[v] \/ (written'[v] = written[v] + 1 /\ written[v] < Window)
      BY <1>4 DEF Write, IInv, Counted
    <2>3. sent' = sent
      BY <1>4 DEF Write
    <2>4. buffer[v] - 1 <= Chunk /\ (written[v] < Window => written[v] + 1 <= Window)
      BY <1>1
    <2> QED BY <1>1, <2>1, <2>2, <2>3, <2>4
  <1>5. ASSUME NEW w \in Ways, Take(w)
        PROVE  buffer' = buffer /\ sent' = sent /\ written'[v] <= Window
    <2>1. written'[v] = written[v] \/ written'[v] = written[v] - 1
      BY <1>5 DEF Take, IInv, Counted
    <2> QED BY <1>1, <1>5, <2>1 DEF Take
  <1>6. ASSUME \/ UNCHANGED vars \/ Watch \/ Pass
               \/ \E w \in Ways : ShutDown(w) \/ EndOfFile(w) \/ Finish(w) \/ Break(w)
        PROVE  buffer' = buffer /\ sent' = sent /\ written' = written
    BY <1>6 DEF vars, pipes, Watch, Pass, ShutDown, EndOfFile, Finish, Break
  <1> QED BY <1>1, <1>2, <1>3, <1>4, <1>5, <1>6 DEF Next

\* Every unit an end has sent is in one place, and no place holds more than it
\* has room for, whatever the sizes (splice_with_idle, pump).
THEOREM SpliceTypeOK == Spec => []TypeOK
  <1>1. Init => WithinSizes
    BY SizesArePositive DEF Init, WithinSizes
  <1>2. IInv /\ WithinSizes => TypeOK
    <2> SUFFICES ASSUME IInv, WithinSizes PROVE TypeOK
      OBVIOUS
    <2> USE SizesArePositive, TickIsPositive
    <2>1. ASSUME NEW w \in Ways
          PROVE  /\ sent[w] \in 0..ToSend /\ arrived[w] \in 0..ToSend
                 /\ buffer[w] \in 0..Chunk /\ written[w] \in 0..Window
                 /\ delivered[w] \in 0..ToSend
      BY DEF IInv, Counted, Conserved, WithinSizes
    <2>2. /\ sent \in [Ways -> 0..ToSend] /\ arrived \in [Ways -> 0..ToSend]
          /\ buffer \in [Ways -> 0..Chunk] /\ written \in [Ways -> 0..Window]
          /\ delivered \in [Ways -> 0..ToSend]
      BY <2>1 DEF IInv, Counted
    <2>3. quiet \in Nat /\ nap \in 0..Tick
      BY DEF IInv, SleepIsCounted
    <2> QED BY <2>2, <2>3 DEF IInv, Counted, Conserved, TypeOK
  <1> QED BY <1>1, <1>2, SizesStay, Inductive, PTL DEF Spec

\* A splice that returns because both directions ended has handed over all
\* that either end sent (splice_with_idle, pump).
THEOREM SpliceHandsEverythingOver == Spec => []EverythingIsHandedOver
  <1>1. ASSUME IInv, outcome = "both", NEW w \in Ways
        PROVE  shut[w] /\ sent[w] = written[w] + delivered[w]
    <2>1. pump[w] = "done" /\ shut[w] /\ arrived[w] = 0
      BY <1>1 DEF IInv, BothAreDone, DoneIsDrained
    <2>2. buffer[w] = 0
      BY <1>1, <2>1 DEF IInv, Counted, Conserved
    <2> QED BY <1>1, <2>1, <2>2 DEF IInv, Counted, Conserved
  <1>2. IInv => EverythingIsHandedOver
    BY <1>1 DEF EverythingIsHandedOver
  <1> QED BY <1>2, Inductive, PTL

\* A chain on which nothing is read is kept for the window and one tick at
\* most, whatever the window and the tick (splice_with_idle, the watchdog).
THEOREM SpliceOvershootIsBounded == Spec => []OvershootIsBounded
  <1>1. IInv => OvershootIsBounded
    BY TickIsPositive, SizesArePositive DEF IInv, SleepIsCounted, OvershootIsBounded
  <1> QED BY <1>1, Inductive, PTL
=============================================================================
