--------------------------------- MODULE Itm ---------------------------------
(***************************************************************************)
(* The interval timer of one processor: AR.ITC driven by the virtual       *)
(* clock, CR.ITM, CR.ITV and the host timer that stands for the match      *)
(* (target/ia64/arch/interrupt.c, system.c, cpu.h).                        *)
(*                                                                         *)
(* s is the timer part of CPUIA64State.  The host timer's callback may run *)
(* late and on another thread; its work is then queued for the processor.  *)
(* ITC arithmetic is modulo 2 * Half (2^64) with signed differences, and   *)
(* the clock runs at Frequency ticks in Second nanoseconds.  The           *)
(* saturations at INT64_MAX (292 years) are left out.                      *)
(***************************************************************************)
EXTENDS Integers

CONSTANTS
    Half,         \* 2^63: half the range of ITC and ITM
    Frequency,    \* itc_frequency_hz
    Second,       \* NANOSECONDS_PER_SECOND
    ItmValue,     \* values the guest writes to ITM
    ItcValue,     \* values the guest writes to ITC
    Span,         \* bound on the distance of those values from zero
    MaxNow,       \* bound on the virtual clock
    MaxQueued     \* bound on the queued callbacks

ASSUME RateAssumption == Frequency \in Nat \ {0} /\ Second \in Nat \ {0}
ASSUME HalfAssumption == Half \in Nat \ {0}
ASSUME BoundAssumption == MaxNow \in Nat /\ MaxQueued \in Nat

Modulus == 2 * Half
Words == 0 .. Modulus - 1

ASSUME ValueAssumption == ItmValue \subseteq Words /\ ItcValue \subseteq Words

VARIABLES
    now,          \* QEMU_CLOCK_VIRTUAL, in nanoseconds
    s,            \* the timer state of the processor
    queued,       \* callbacks waiting in the processor's work queue
    origin,       \* history: when ITC was last written, and what
    served        \* history: this programming of ITM and ITC has matched

vars == <<now, s, queued, origin, served>>

NONE == -1

Word(x) == x % Modulus

\* (int64_t)(a - b)
Signed(a, b) ==
    LET d == Word(a - b) IN IF d >= Half THEN d - Modulus ELSE d

\* CR.ITV: an unmasked, a masked and a reserved vector.
Itvs == {"ON", "MASKED", "RESERVED"}

States ==
    [itc : Words, last : 0 .. now, fraction : 0 .. Second - 1, debt : Nat,
     itm : Words, itv : Itvs, armed : BOOLEAN, armedValue : Words,
     match : Words \union {NONE}, timer : Nat \union {NONE},
     irr : BOOLEAN, isr : BOOLEAN]

ResetState(t) ==
    [itc |-> 0, last |-> t, fraction |-> 0, debt |-> 0, itm |-> 0,
     itv |-> "MASKED", armed |-> FALSE, armedValue |-> 0, match |-> NONE,
     timer |-> NONE, irr |-> FALSE, isr |-> FALSE]

Init ==
    /\ now = 0
    /\ s = ResetState(0)
    /\ queued = 0
    /\ origin = [ns |-> 0, value |-> 0]
    /\ served = FALSE

-----------------------------------------------------------------------------
(* Clock arithmetic.                                                       *)

\* ia64_itc_ticks_for_ns: whole ticks, and the fraction of the next one.
Phase(ns, fraction) == ns * Frequency + fraction
Ticks(ns, fraction) == Phase(ns, fraction) \div Second

\* The values the guest writes and the ticks of a run stay within half the
\* range, where a signed difference tells which of two times is the later.
ASSUME HorizonAssumption ==
    /\ Span \in Nat
    /\ \A v \in ItmValue \union ItcValue : Signed(v, 0) \in -Span .. Span
    /\ 2 * Span + 1 + Ticks(MaxNow, 0) < Half

\* Mutant: the delay is rounded down.
DelayNsFloor(x, delta) == ((delta + x.debt) * Second) \div Frequency

\* ia64_itc_delay_ns: rounded down, and one more if that is too soon.
DelayNs(x, delta) ==
    LET required == delta + x.debt
        delay == (required * Second) \div Frequency
    IN  IF Ticks(delay, x.fraction) < required THEN delay + 1 ELSE delay

\* ia64_itc_sync
Sync(x) ==
    LET ticks == Ticks(now - x.last, x.fraction) IN
    IF now <= x.last THEN x
    ELSE [x EXCEPT !.last = now, !.fraction = Phase(now - x.last, @) % Second,
                   !.debt = IF ticks <= @ THEN @ - ticks ELSE 0,
                   !.itc = IF ticks <= x.debt THEN @ ELSE Word(@ + ticks - x.debt)]

\* ia64_itm_interrupt_active
InterruptActive(x) == x.itv # "RESERVED" /\ x.isr

\* Mutant: the step past the match is not repaid.
AdvancePendingFree(x) ==
    LET y == Sync(x)
        gap == Signed(y.match + 1, y.itc)
    IN  IF ~y.armed /\ y.match # NONE /\ InterruptActive(y) /\ gap > 0
        THEN [y EXCEPT !.itc = Word(@ + gap)]
        ELSE y

\* ia64_itc_advance_pending_itm: a handler sees ITC past the match.
AdvancePending(x) ==
    LET y == Sync(x)
        gap == Signed(y.match + 1, y.itc)
    IN  IF ~y.armed /\ y.match # NONE /\ InterruptActive(y) /\ gap > 0
        THEN [y EXCEPT !.itc = Word(@ + gap), !.debt = @ + gap]
        ELSE y

-----------------------------------------------------------------------------
(* Matching.                                                               *)

\* Mutant: the value that has matched already is not remembered.
RaisedAgain(x) ==
    IF x.itv = "RESERVED" THEN x
    ELSE [x EXCEPT !.match = x.itm, !.irr = TRUE]

\* ia64_itm_raise: one interrupt for one value.
Raised(x) ==
    IF x.itv = "RESERVED" \/ x.match = x.itm THEN x
    ELSE [x EXCEPT !.match = x.itm, !.irr = TRUE]

\* ia64_itm_update_pending: nothing is left to wait for ...
Settled(x) == x.itv # "ON" \/ Signed(x.itm, x.itc) <= 0

\* Mutant: an armed match that is found late counts as missed.
SettledStateExact(x, wasArmed) ==
    IF x.itv = "ON" /\ Signed(x.itm, x.itc) = 0 THEN Raised(x) ELSE x

\* ... and the interrupt, unless the match was missed.
SettledState(x, wasArmed) ==
    IF x.itv = "ON" /\ (Signed(x.itm, x.itc) = 0 \/ wasArmed)
    THEN Raised(x) ELSE x

\* ia64_itm_update
ItmUpdate(x) ==
    LET wasArmed == x.armed /\ x.armedValue = x.itm
        y == AdvancePending(x)
    IN  IF Settled(y)
        THEN AdvancePending([SettledState(y, wasArmed) EXCEPT
                                !.timer = NONE, !.armed = FALSE])
        ELSE [y EXCEPT !.armed = TRUE, !.armedValue = y.itm,
                       !.timer = y.last + DelayNs(y, Signed(y.itm, y.itc))]

\* Mutant: a stale callback drops the match that was programmed after it.
TimerWorkStale(x) ==
    IF ~x.armed THEN x
    ELSE LET y == AdvancePending([x EXCEPT !.armed = FALSE]) IN
         IF Settled(y) THEN SettledState(y, TRUE) ELSE y

\* ia64_itm_timer_work
TimerWork(x) ==
    IF ~x.armed THEN x
    ELSE LET y == AdvancePending([x EXCEPT !.armed = FALSE]) IN
         IF Settled(y) THEN SettledState(y, TRUE) ELSE ItmUpdate(y)

-----------------------------------------------------------------------------
(* Steps.                                                                  *)

Tick ==
    /\ now < MaxNow
    /\ now' = now + 1
    /\ UNCHANGED <<s, queued, origin, served>>

\* A step of the processor that leaves the programming alone.
Step(x) ==
    /\ s' = x
    /\ served' = (served \/ x.match # s.match)
    /\ UNCHANGED <<now, origin>>

\* ia64_itm_timer_cb: an expired timer runs its work at once on the
\* processor's own thread, or queues it.
TimerFires ==
    /\ s.timer # NONE /\ s.timer <= now
    /\ \/ Step(TimerWork([s EXCEPT !.timer = NONE])) /\ UNCHANGED queued
       \/ /\ queued < MaxQueued
          /\ queued' = queued + 1
          /\ Step([s EXCEPT !.timer = NONE])

RunQueued ==
    /\ queued > 0
    /\ queued' = queued - 1
    /\ Step(TimerWork(s))

\* ia64_itc_read
ReadItc == Step(AdvancePending(s)) /\ UNCHANGED queued

\* ia64_itc_enter_halt (PAL_HALT, PAL_HALT_LIGHT)
EnterHalt == Step(ItmUpdate(AdvancePending(s))) /\ UNCHANGED queued

\* ia64_cpu_pre_save
PreSave == Step(Sync(s)) /\ UNCHANGED queued

\* A read of CR.IVR that accepts the timer's vector, and CR.EOI.
AcceptTimer ==
    /\ s.irr /\ ~s.isr
    /\ Step([s EXCEPT !.irr = FALSE, !.isr = TRUE])
    /\ UNCHANGED queued

Eoi ==
    /\ s.isr
    /\ Step([s EXCEPT !.isr = FALSE])
    /\ UNCHANGED queued

\* ia64_write_cr, IA64_CR_ITV
WriteItv ==
    /\ \E v \in Itvs : Step(ItmUpdate([s EXCEPT !.itv = v]))
    /\ UNCHANGED queued

\* ia64_write_cr, CR.ITM
WriteItm ==
    \E v \in ItmValue :
        /\ s' = ItmUpdate([s EXCEPT !.itm = v])
        /\ served' = (s'.match # s.match)
        /\ UNCHANGED <<now, queued, origin>>

\* ia64_system_write_ar, AR.ITC, and ia64_itc_write
WriteItc ==
    \E v \in ItcValue :
        LET x == [s EXCEPT !.itc = v, !.last = now, !.fraction = 0, !.debt = 0,
                           !.match = NONE]
        IN  /\ s' = ItmUpdate(IF s.itm = v
                              THEN [x EXCEPT !.armed = TRUE, !.armedValue = v]
                              ELSE x)
            /\ origin' = [ns |-> now, value |-> v]
            /\ served' = (s'.match # NONE)
            /\ UNCHANGED <<now, queued>>

\* ia64_cpu_reset_hold: queued callbacks survive the reset.
Reset ==
    /\ s' = ResetState(now)
    /\ origin' = [ns |-> now, value |-> 0]
    /\ served' = FALSE
    /\ UNCHANGED <<now, queued>>

Next ==
    \/ Tick
    \/ TimerFires \/ RunQueued
    \/ ReadItc \/ EnterHalt \/ PreSave
    \/ AcceptTimer \/ Eoi
    \/ WriteItv \/ WriteItm \/ WriteItc
    \/ Reset

Spec == Init /\ [][Next]_vars

-----------------------------------------------------------------------------
(* Properties.                                                             *)

\* The timer state keeps its types, and the fraction is less than a tick.
TypeOK ==
    /\ now \in 0 .. MaxNow
    /\ s \in States
    /\ queued \in 0 .. MaxQueued
    /\ origin \in [ns : 0 .. s.last, value : Words]
    /\ served \in BOOLEAN

\* Apart from what is owed for the step past a match, ITC is the oscillator:
\* however often and at whatever moments it is read, "repeated handler reads
\* do not make the model clock run fast", and no fraction of a tick is lost.
NoDrift ==
    LET phase == (s.last - origin.ns) * Frequency IN
    /\ Word(s.itc - s.debt) = Word(origin.value + phase \div Second)
    /\ s.fraction = phase % Second

\* A match that lies ahead has its host timer, or its callback is on the way:
\* no order of reprogramming, masking, late and stale callbacks loses it.
FutureIsArmed ==
    s.itv = "ON" /\ Signed(s.itm, s.itc) > 0 =>
        s.armed /\ s.armedValue = s.itm /\ (s.timer # NONE \/ queued > 0)

\* The host timer does not expire before the oscillator reaches the match.
DeadlineNotEarly ==
    s.armed /\ s.timer # NONE =>
        Ticks(s.timer - s.last, s.fraction) >= Signed(s.itm, s.itc) + s.debt

\* A match is raised once for one programming of ITM and ITC, although
\* ia64_itm_update() may find the same equality several times.
RaisedOnce ==
    [][served /\ s'.irr /\ ~s.irr => WriteItm \/ WriteItc]_vars

\* An armed match that is neither reprogrammed nor masked ends in an
\* interrupt, however late its callback runs.
ArmedEndsInMatch ==
    [][/\ s.armed /\ s.itv = "ON" /\ s.armedValue = s.itm
       /\ ~s'.armed /\ s'.itv = "ON" /\ s'.itm = s.itm /\ ~WriteItc
       => s'.match = s.itm]_vars
=============================================================================
