--------------------------- MODULE InterruptCount ----------------------------
(***************************************************************************)
(* The v_intr of a reply of the statistics server: updatestat() takes the   *)
(* clock's interrupts off those that the kernel has counted.  It knows them *)
(* by the time since boot only, and asks for that time after it has read    *)
(* the count.                                                              *)
(***************************************************************************)
EXTENDS Integers

CONSTANTS
  HZ,        \* interrupts of the clock in a second
  Second,    \* parts of a second that the time of day has
  WordMod,   \* 2^32
  MaxTime,   \* bound: parts of a second since boot
  MaxIntr    \* bound: interrupts of devices

VARIABLES
  btm,      \* the time of day of the boot
  time,     \* since then
  devices,  \* interrupts of devices so far
  v_intr,   \* of stats_all, a word
  stage,    \* what updatestat() does next, of the two reads that matter here
  atRead    \* what there was when the count was read, and the ticks that passed
            \* until the time was: [ticks, devices, passed]

intrVars == <<btm, time, devices, v_intr, stage, atRead>>

Clock == HZ \in Nat /\ Second \in Nat \ {0} /\ WordMod \in Nat \ {0}

Ticks == (time * HZ) \div Second

Init ==
  /\ btm \in 0 .. Second - 1
  /\ time = 0 /\ devices = 0
  /\ v_intr = 0 /\ stage = "sum" /\ atRead = [ticks |-> 0, devices |-> 0, passed |-> 0]

\* Time passes, and devices interrupt, between any two steps of the server.
Pass ==
  /\ time < MaxTime /\ time' = time + 1
  /\ UNCHANGED <<btm, devices, v_intr, stage, atRead>>

Interrupt ==
  /\ devices < MaxIntr /\ devices' = devices + 1
  /\ UNCHANGED <<btm, time, v_intr, stage, atRead>>

ReadSum ==
  /\ stage = "sum" /\ stage' = "time"
  /\ v_intr' = (Ticks + devices) % WordMod
  /\ atRead' = [ticks |-> Ticks, devices |-> devices, passed |-> 0]
  /\ UNCHANGED <<btm, time, devices>>

\* C's division goes towards zero.
Quotient(m, n) == IF m >= 0 THEN m \div n ELSE -((-m) \div n)

\* tm is the time of day.
ClockInterrupts_NoFraction(tm) == HZ * ((tm \div Second) - (btm \div Second))
ClockInterrupts(tm) ==
  HZ * ((tm \div Second) - (btm \div Second)) + Quotient(HZ * ((tm % Second) - (btm % Second)), Second)

GetTime ==
  /\ stage = "time" /\ stage' = "sum"
  /\ v_intr' = (v_intr - ClockInterrupts(btm + time)) % WordMod
  /\ atRead' = [atRead EXCEPT !.passed = Ticks - atRead.ticks]
  /\ UNCHANGED <<btm, time, devices>>

Next == Pass \/ Interrupt \/ ReadSum \/ GetTime
Spec == Init /\ [][Next]_intrVars

\* What is left counts no interrupt that has not happened, and misses at most the
\* ticks of the clock between the two reads, and one that a quotient below zero
\* rounds up to (rstat_proc.c:213-215): below zero, it is a number near 2^32.
NearlyDevices ==
  stage = "sum" => \E k \in 0 .. atRead.passed + 1 : v_intr = (atRead.devices - k) % WordMod
=============================================================================
