# Formal model of the IA-64 system emulator

TLA+ specifications of the parts of the IA-64 target (`target/ia64`, `hw/ia64`)
whose correctness depends on long sequences of operations or on several threads.
TLC checks small instances.  TLAPS proves every safety property of the passing runs,
invariants, action properties and the refinement alike, for every value of the constants
that satisfies the named assumptions (three results are restricted further, see
[Proofs](#proofs)); the five liveness properties stay with TLC.

## The system

The emulator runs each IA-64 processor in a host thread (TCG).  A processor leaves
generated code to take an interrupt, to run work that another thread has queued for
it (`async_run_on_cpu`), or because it halts.  Devices run under the big lock and
reach a processor only through a SAPIC message.  Device DMA and the other processors
write guest RAM directly, at any time.

| Part | State | Operations | What makes it hard |
| --- | --- | --- | --- |
| Local SAPIC (`arch/interrupt.c`) | IRR, ISR, TPR, XTP, LID, `CPU_INTERRUPT_HARD` | messages, IVR read, EOI, control-register writes | requests of other threads, nesting, a cached "something is deliverable" bit |
| Delivery (`arch/exception.c`, `arch/system.c`) | PSR.i/ic/mc, deferral of PSR.i | `cpu_exec_interrupt`, PSR writes, `srlz`, faults | order of four classes, in-flight PSR.ic |
| MCA, INIT, PMI, CMC (`arch/ras.c`, `arch/pal.c`) | pending and active flags, min-state context, CMCV | signal, enter, refuse, resume | failed saves, nesting of handlers, reset inside the loop |
| PAL halt (`arch/pal.c`) | `halted`, `pal_halt_wake`, `CPU_INTERRUPT_HALT` | PAL_HALT, PAL_HALT_LIGHT, wake | lost wake-ups |
| I/O SAPIC (`ia64_iosapic.c`) | redirection table, input levels, select | input change, table write, EOI, load | level inputs left without a message, replayed edges |
| 460GX PID (`intel_460gx_pid.c`) | the same with status and mask latch | the same | three bits of one entry that must agree |
| Interval timer (`interrupt.c`, `system.c`) | ITC, fraction, debt, ITM, ITV, host timer | reads, writes, callbacks, halt, save | late and stale callbacks, rounding |
| ALAT (`arch/alat.c`, `physmem.c`) | entries, per-processor sequences, external generation and writers | advanced load, check, store scopes, DMA scopes | lock-free sampling of a distributed counter |
| Register stack (`arch/rse.c`) | frame, partitions, BSP, BSPSTORE, physical file, stacked view | alloc, call, return, rfi, cover, flushrs, loadrs, BSPSTORE write | interruption between any two mandatory accesses, collection words, two copies of the frame |
| RAS hub (`ia64_ras.c`) and SAL's machine-check code (`roms/ia64-firmware/firmware.c`) | record banks, rendezvous and wake-up registers, a word of memory | error reports, MCA delivery, rendezvous, INIT fallback, release, clears | requests that are under way while their record is handled; several processors answering late, twice or not at all |
| MMU (`arch/mmu.c`) | TRs, TCs, region registers, VHPT | insert, purge, walk | global purges on other processors |
| 460GX DMA and hot-plug, VT-d | queues, slot and command state | commands, completion | abort against completion |
| Migration (`machine.c`, `rse-migration.c`) | all of the above | save, load, validate | states that the code reaches and the validator refuses |

Decoding, code generation, floating point, firmware tables and board wiring have
little behaviour over time and are not candidates.

## Plan

1. *Interrupts*: Local SAPIC with delivery, special interrupts and halts; an abstract
   interface (`SapicPort`) that it implements; the two I/O controllers above that
   interface.  Done.
2. *Interval timer*, *ALAT*, *register stack partitions and contents*.  Done.
3. *Register stack, second half*: NaT bits and the RNAT latches, rotation, the
   completion trap, save and restore of the context at machine checks.
4. *RAS hub*: records and their machine checks, the rendezvous.  Done.
5. *MMU*: translation caches and global purges between processors.
6. *460GX DMA, hot-plug, VT-d; migration*: each loader as "what the code reaches is
   what it accepts".
7. *Proofs*: every safety property of the passing runs.  Done; the parts still to be
   modelled bring their own.

## Modules and what they model

### Interrupts

`SapicVectors` holds the vector numbers and priorities.  `LocalSapic` models, for
each processor `c`, the interrupt-related part `env[c]` of `CPUIA64State`, and the
queue `work[c]` of requests that other threads have sent.  Each operation of the code
is an action: `SendMessage` (`ia64_sapic_deliver`, with redirection by XTP), `RunWork`,
`ReadIvr`, `WriteEoi`, `WriteTpr`, `WriteLid`, `WriteXtp`, `WriteCmcv`, `ChangePsr`,
`Serialize`, `Fault`, the PAL procedures, and the loop (`EnterExec`, `LeaveExec`,
`TakeHalt`, `ExecInterrupt`).  Every handler ends in the same
`ia64_sapic_update_interrupt()` that the code calls, or does not, exactly where the
code does.  `serving[c]` is a history variable: the accepted vectors in order.

`SapicPort` is what the sources of interrupts may rely on: a request stays pending
until accepted, acceptance nests in rising priority, EOI retires the innermost
vector.  `LocalSapicPort` maps `LocalSapic` to it: a vector is pending while it is in
IRR or in a queued request.  `SapicGuest` adds identifiers and guest handlers that owe
an I/O EOI; `IoSapic` and `Pid` are the two controllers on top of it.  Their device
callbacks run under the big lock, so one callback is one step, its trailing
`iosapic_update` or `pid_update` included.  `refused` and `steady` are history.

### Interval timer

`Itm` has the clock `now`, the timer fields `s`, callbacks that are `queued` for the
processor, and the history `origin` and `served`.  ITC counts modulo `2 * Half` (2^64 in
the code) with signed comparison, and it runs at `Frequency` ticks in `Second`
nanoseconds, with the fraction and the debt that the code carries.  The host timer expires at any instant
from its deadline on.

### ALAT

`Alat` makes every access to shared state a step of its own: a loader reads the
external generation, then each processor's sequence, then the writers, then loads,
samples again and publishes; a store opens a scope, writes RAM, and closes, aborts or
cancels it; a device counts itself in, writes, advances, counts itself out.  Values in
RAM are version numbers, so that "the register holds what is in memory" can be said.
Processors are numbered from 0, and `SumTo` adds up their sequences as the loop does.
Accesses are sequentially consistent.

### Register stack

`Rse` keeps the frame marker, partitions and pointers in the record `s`, in units of
words, with `N` physical registers and a collection in every `Group` words (96 and 64
in the code).  An instruction with mandatory accesses is a start, a step per access
and an end; `Interruption` may fall between any two.  Contents are modelled by
following one value: `c` says which registers of the stacked view (`gr`, with its
dirty bits), which physical registers and which memory words hold a copy, and `word` is
the backing-store word it belongs to.  Copies outside its own register and word are
dropped, which makes the property stronger.  The guest supplies frame markers with
`sol <= sof <= N`, and does nothing to an incomplete frame but cover and rfi, as the
architecture demands.

### RAS hub

`RasRecords` has the MCA bank of every processor and the CPE bank of processor 0 as
rings of record ids, the work queued for each processor, its pending and active machine
check (`pal`), and where its software is (`fw`: reset, registered, online, in the
operating system, in the handler, halted by the firmware).  An error report queues a
record and tries to deliver (`ReportMca`, `ReportCpe`); every register write that the
code follows with `ia64_ras_try_deliver_mca` does so here.  `EnterMca`, `DropMca` and
`Resume` are the processor's side, `Clear` is SAL_CLEAR_STATE_INFO, `SystemReset` and
`Reload` the hub's reset and post-load.  `seen`, `done` and `untidy` are histories.

`RasRendezvous` has the hub's rendezvous and wake-up registers (`hub`), the memory word,
and for each processor the places of its three kinds of software: interruptible
(`pc`, in SAL_MC_RENDEZ), machine check (`mca`, in `sal_mca_rendezvous_state` and the
OS_MCA handler) and INIT.  Every register access of the firmware is a step, because all
processors run between them.  Timeouts may expire at any time.  `note` holds histories:
who came by INIT; `replaced`, from a write of WAKEUP_MECHANISM that replaces the memory
word by an interrupt to a write of WAKEUP_VALUE with no wake-up pending; and `disorder`.
SAL_MC_SET_PARAMS takes three steps: `mSalMcParams`, which the firmware goes by, then
WAKEUP_MECHANISM, then WAKEUP_VALUE; the operating system makes one such call at a time.

`disorder` is the exception of `ArrivedWaits` and `WaiterReleased`.  It becomes true, for
good, when one of these happens while the memory word is registered, in the firmware or
in the hub:

* a rendezvous begins while another is active, without a rendezvous vector, or while a
  registration is being written;
* a rendezvous times out or is given up;
* RELEASE is written while a rendezvous is active, by anybody but a monarch that found all
  arrived by the vector, or before the last wake-up is acknowledged;
* the wake-up is registered, to or from the memory word, while anything of a rendezvous is
  left: the hub active or waking, an INIT pending, any processor in a machine check, an
  INIT or SAL_MC_RENDEZ;
* a snapshot is loaded.

## Runs

| Run | Checks | Instance |
| --- | --- | --- |
| `sapic_irq` | type; `CPU_INTERRUPT_HARD` exact; in-service register a priority stack; PSR.i deferral ends | one processor; an NMI, ExtINT, a normal vector and the highest one |
| `sapic_smp` | implements `SapicPort`; a queued unmasked interrupt wakes a halted processor | two processors, one powered off at first, redirection, moving LIDs and XTPs, fair |
| `sapic_special` | active handlers have a context; a corrected check waits only while CMCV is masked or reserved; masked MCAs retained | one processor; PMI, INIT, MCA and CMC with good, bad and missing save areas |
| `iosapic` | an asserted level has its message; Remote IRR will be cleared; every request has a cause; an asserted level keeps reaching its handler | two pins that may share a vector, a destination that appears later, fair |
| `pid_route` | an asserted level has its message; Remote IRR will be cleared; every request has a cause; status, Remote IRR and latch agree; latched levels and edges are held | one pin, edge, level and NMI |
| `itm_timer` | no drift; a future match is armed; not early; raised once; an armed match ends in an interrupt | 2 ticks in 3 ns; ITM and ITC on both sides of the wraparound |
| `alat` | closed scopes; samples are not ahead; entries and hits are current | a loader, two storing processors, IA-32 stores, two devices in overlapping scopes, one register |
| `rse_stack` | partitions exact; collections counted; restart exact; values found again | 3 registers, groups of 3 words, 10 words |
| `ras_records` | banks are loadable and in order; records are announced; no replay of a cleared record; records are served | two processors, errors of one, banks of two, a reset, fair |
| `ras_rendezvous` | registers are loadable; arrived processors are stopped; the monarch goes on; waiting processors are let go | a monarch with two participants and one event, and two processors that are both monarchs with two; two registrations; fair |

Runs that end in a violation, each of what a comment or a validator of the repository
says:

* `sapic_nested`: a machine check handler that clears PSR.mc can be interrupted by
  INIT; both handlers are then active, a state `ia64_cpu_post_load()` refuses.
* `sapic_stale_halt`: an INIT without a handler resets a secondary processor inside
  the loop, which runs on with `halted` set.

More remarks on the code came out of the modelling and have no run of their own:

* `ia64_cpu_has_work()` counts a second machine check behind an active one, which
  `ia64_ras_enter_mca()` refuses: PAL_HALT_LIGHT then wakes for something that cannot be
  delivered.  Nothing is lost.
* `ia64_itc_delay_ns()` does not subtract the elapsed fraction of a tick.  Below 1 GHz
  the host timer can be set a nanosecond or two after the *first* instant of the match;
  it is never early (`DeadlineNotEarly`).
* A write of ITC beyond an armed ITM raises the interrupt although ITC never equals ITM.
* With a clean partition (`HasClean = TRUE` in `Rse.cfg`), `CollectionsCounted` fails:
  `ia64_rse_restore_frame()` recomputes `rse_clean_nat` from the lowered BSP with counts
  that still include the preserved registers.  No processor model in the tree enables
  the clean partition, so this is latent.
* An operating system that clears a second machine-check record while it handles the first
  still takes a machine check for the second, and finds no record: its request was queued
  before the clear.
* A record that survives a reset halts processor 0 in the firmware if the entry point is
  written before OS_MCA is registered.
* SAL_MC_SET_PARAMS that replaces the memory word by an interrupt leaves, between its two
  register writes or while processors are still to be woken, registers that
  `ia64_ras_hub_post_load()` refuses; without `replaced`, `HubReloads` fails.
* With the memory word, what `disorder` excepts does go wrong: a repeated release
  overwrites the mask of processors still to be woken; a participant that came by INIT
  never acknowledges and holds up those above it; a word left over from a rendezvous that
  was given up lets its processor out of the next one at once, and so does one that a
  snapshot writes again.  Participants that read the memory word in `mSalMcParams` before
  WAKEUP_MECHANISM and WAKEUP_VALUE have followed, in a rendezvous that begins before or
  during the registration, wait for a word that nobody writes, although the rendezvous is
  complete and released once.  The other mechanism, where processors poll ACTIVE, has none
  of these.

### Bounds

The vectors of the SAPIC runs are one of each kind that the code tells apart (below
16, NMI, ExtINT, two classes of normal vectors); the queue holds one request, which is
enough for a request to race every operation of its target.  The controllers' pins are
independent except through shared vectors, hence two with one vector; one pin with two
processors, redirection and invalid vectors has also been checked.  The
timer's rate is a fraction that is not a whole number of nanoseconds, so that every
rounding happens; its counter is wide enough for ITM on both sides.  Two storing
processors suffice for a sample that reads one sequence before and one after a store;
instances with two scopes per processor and with both processors loading have also been
checked.  Loads read two bytes and stores write one of them, so that overlap is not
equality.  In the register stack more registers than a
group has (3 against 2) make frames cross two collections, as 96 against 63 do, and the
file wraps; 4 registers have also been checked.  Banks of two records fill, overflow and
wrap with three ids; errors of both processors have also been checked for safety.  In the
rendezvous two participants are needed for the wake-up to go on from one to the next, and
two monarchs for one rendezvous to be begun over another; the two instances are initial
states of one run.  Two registrations change the mechanism either way.  Three processors with two monarchs and two events (safety), with one
monarch and two events, and two processors with three events (liveness) have also been
checked.  ALAT instances with two registers have been checked as well.

### Fairness

`sapic_smp` assumes that a processor's thread is scheduled: it drains its work, leaves
generated code when kicked, and examines its halt and interrupt state.  `EnterExec` has
strong fairness, because a producer might otherwise refill the queue for ever in the
instant before the queue is found empty.  `iosapic` assumes that a
processor goes on as long as it can accept a vector, write an EOI that is owed or end a
service.  `ras_records` assumes that queued work is done, that an unmasked machine check is
entered, and that the operating system unmasks and its handler resumes, again and again:
the last two have strong fairness, since other events may disable them in between, as has
the draining of the queue: clears of an empty bank by another processor, each a call of
SAL, do not refill it for ever.
`ras_rendezvous` has one weak fairness condition per processor: software that waits for
nothing goes on, a timeout expires, and the OS_MCA handler clears its record and returns.
Nothing is assumed of interrupts and INITs: they may stay masked for ever.  All other
properties are safety properties.

## Proofs

A component's proofs are in the module named after it with `Proofs` added.  All of them
have one plan: an inductive invariant, a lemma for each operation on what it does to the
fields the invariant reads, a lemma for each action of `Next`, and the theorems at the
end of the module.  TLC has checked each inductive invariant on the component's own
instance.  The named assumptions (`CpuAssumption`, `RseAssumption`, ...) are in the
component modules and say what the constants are.  Two restrict results: the timer's
horizon and the register stack without a clean partition (both are explained below).  In the table, "action" marks a property of steps.

| Theorem | Property |
| --- | --- |
| `LocalSapicProofs!TypeCorrect` | `TypeOK` |
| `LocalSapicProofs!HardExact` | `HardTracksPending` |
| `LocalSapicProofs!DeferralsEnd` | `DeferralIsInFlight` |
| `LocalSapicProofs!HandlersHaveContext` | `ActiveHasContext` |
| `LocalSapicProofs!CorrectedErrorsAnnounced` | `CmcNotStranded` |
| `LocalSapicProofs!MaskedMachineChecksWait` | `MaskedMcaRetained` (action) |
| `LocalSapicProofs!InServiceIsStack` | `ServiceStack` |
| `LocalSapicProofs!PortImplemented` | `ImplementsPort` (refinement of `SapicPort`) |
| `IoSapicProofs!NoLevelLeftBehind`, `RemoteIrrCleared` | `LevelServed`, `RemoteIrrOutstanding` |
| `IoSapicProofs!NoRequestInvented` | `RequestHasCause` (action) |
| `PidProofs!FlagsAgree` | `PinConsistent` |
| `PidProofs!NoLevelLeftBehind`, `RemoteIrrCleared` | `LevelServed`, `RemoteIrrOutstanding` |
| `PidProofs!LatchesHeld`, `EdgesHeld`, `NoRequestInvented` | `LatchHeld`, `EdgeHeld`, `RequestHasCause` (actions) |
| `ItmProofs!ClockDoesNotDrift` | `NoDrift` |
| `ItmProofs!FutureMatchArmed`, `DeadlineLateEnough` | `FutureIsArmed`, `DeadlineNotEarly` |
| `ItmProofs!MatchRaisedOnce`, `ArmedMatchKept` | `RaisedOnce`, `ArmedEndsInMatch` (actions) |
| `AlatProofs!TypeCorrect`, `SampleNotAhead`, `TablesCoherent` | `TypeOK`, `SyncedNotAhead`, `EntriesCurrent` |
| `AlatProofs!HitsAreCurrent` | `HitIsCurrent` (action) |
| `RseProofs!PartitionsCoverFile`, `CollectionsExact` | `Partitioned`, `CollectionsCounted` |
| `RseProofs!RestartFindsTheRest` | `RestartExact` |
| `RseProofs!ValuesKept` | `ValueFound` |
| `RasRecordsProofs!BanksCanBeLoaded`, `NoRecordForgotten` | `BanksReload`, `RecordsAnnounced` |
| `RasRecordsProofs!NoSecondMachineCheck` | `NoReplay` |
| `RasRendezvousProofs!RegistersReload`, `ArrivedAreStopped` | `HubReloads`, `ArrivedWaits` |

`RasRecordsProofs` and `RasRendezvousProofs` prove type correctness as well
(`TypeCorrect`).

### Local SAPIC

For any set of processors and any vectors, modes and register values.  `HardTracksPending`
is inductive together with the type (`HInv`): an operation ends in `Updated`, which makes
the bit exact by definition, or it touches none of the fields that `Special` and
`HasPending` read, or (acceptance, EOI, PSR writes) the change of the bit is shown equal to
the change of what is deliverable.

`SInv` adds the deferral of PSR.i, the context of handlers and the announcement of
corrected checks.  `Good(s, t)` says that an operation keeps them and forgets no machine
check; every operation is shown to have it, and the entry into a handler, which does take
the pending machine check away, has the weaker `Follows(s, t)`: it forgets none that is
masked.

`PInv` relates IRR, ISR and the work queue to the history `serving`: in service are
exactly the vectors of the history, and their priorities rise.  `CpuInv` adds that only
valid vectors are in service, since the order of priorities is total only on those, and
that an INIT is pending or queued only where INITs exist.  Every action is, for each processor, one of
seven kinds of steps (`StepOf`): nothing relevant changes, a request is appended, done or
taken from the queue, a vector is accepted or retired, the processor is reset.  Each kind
is then shown to be a step of `SapicPort` or to change nothing there, which is the
refinement.  It rests on `FindIsrIsHighest` and `FindIrrAccepts`: `sapic_find_isr` returns
the vector of the greatest priority in service, and what `sapic_find_irr` returns, when
accepted, is above it.

### I/O SAPIC and PID

For any pins, processors, vectors and identifiers.  Both invariants are the two
properties with the type and `VectorsOK`: an unmasked route has a vector that the guest has
programmed, so that the EOI of its handler will be owed.  The PID's adds `AllConsistent`,
the agreement of status, Remote IRR and mask latch, from which it follows that
`pid_post_load` changes nothing of a pin that a running machine has saved.  The I/O SAPIC
is without NMI routes (`IoModeAssumption`), as its model is.

### Interval timer

`CInv`, for every rate and every `Half`, is the type and the absence of drift, with the
fraction and the debt as remainders of one division.  It carries `NoDrift`,
`RaisedOnce` and `ArmedEndsInMatch`, across any number of wraparounds of ITC.

`FutureIsArmed` and `DeadlineNotEarly` compare times by signed differences and cannot hold
for all values: a match half the range away is both ahead and behind.
`HorizonAssumption` bounds how far from zero the guest programs ITM and ITC (`Span`) and
how long the run is (`MaxNow`), so that all of it is less than `Half`; in the code this is
2^63 ticks.  Values on both sides of the wraparound are within it, and the instance that
TLC checks has them.  `HInv` adds to `CInv` where ITC, ITM and the last match lie on this
horizon (`Placed`), and that the deadline is not before the match (`Early`).

### ALAT

For any number of processors, devices, registers and bytes.  The total that a loader
samples is a sum over all processors, computed by the loop of `ia64_alat_memory_generation`
(`SumTo`); that it is the sum, and that it changes by what one sequence changes, is proved
by induction on the number of processors.  The library's induction rule cannot be used
with these provers, so `Induction` is derived from the existence of minimal elements.

`EntriesCurrent` and `HitIsCurrent` speak of finished samples, whereas stores go on between
any two reads of a sample.  `IInv` therefore says, for every processor and every place in
its instruction, that no sample is ahead of the generation it samples (`Behind`); that
entries that are not current will be found out, because the generation has moved or
somebody is about to move it (`Coherent`); that a closing sample counts at least what it
expects (`Counts`); and that a check whose register is older than the check has already
noticed or will: in the part of the sum still to be read, in the generation read a second
time, or in the writers that are counted in (`Late` implies `Caught`).  `Shape` ties the
local variables of an instruction to its place.  The processor that stores does not
disturb its own table (`Own`), the others' stores disturb each table through one lemma
(`Foreign`).

### Register stack

For any number of physical registers, any group size and any range of addresses, for a
processor without a clean partition (`~HasClean`), as all processor models in the tree are:
with one, `CollectionsCounted` does not hold (see above).

`Index(a)`, the number of register words below the address `a`, turns addresses with
collections into plain counting: going up or down by n registers and the collections among
them changes it by n (`Grow`, `Shrink`), and it orders the register words (`IndexOrder`).
`PInv` is `Sound`, the partitions in terms of addresses, and `Pending`, what is left of the
instruction under way; the first three theorems follow from it.

The contents need `VInv` as well.  In terms of `Index`, the word's register is
`Place`, which is the same before and after a call, a return or a write of BSPSTORE, since
BSP and the bottom of the frame move together.  `Held` strengthens what `ValueFound` says of
the current frame: the value is in the view and, unless it is marked as written there, in
the physical register too.  Without it a call, which keeps only the physical registers,
would lose values that were loaded and not written.  `ia64_rse_sync_frame_out` then leaves
every word in its physical register (`SyncOut`), because words less than N apart have
different ones (`PlacesApart`).  `BInv` says that no address is below the first word.

### RAS hub

`RasRecordsProofs`, for any processors, any depth of the rings and any bounds.  None of
the three properties is inductive.  `IInv` adds what a bank looks like (`Ring`: its ids
rise and are older than `next_record_id`); that the records and requests of one bank are no
other's (`Known`); that a request is for the head of its bank or for a record before it,
and that a request for a cleared record can only be queued behind the machine check that is
being handled (`Processor`); and that the head of a bank that can be delivered will be, or
was, announced.

`RasRendezvousProofs`, for any finite set of processors, any machines (who is
online, who takes machine checks) and any number of machine checks, registrations and
snapshots.

The two need one inductive invariant, `IInv`.  That a processor woken by the memory word
is not one the present rendezvous counts as arrived depends on what the release found: all
participants waiting, which in turn depends on there being one monarch whose copy of
REQUIRED is the register.  Hence `Ordered`: as long as there was no disorder, at most one
monarch is between BEGIN and RELEASE (`OrderedMonarch`) and the word, the pending mask and
the current processor agree with who waits (`OrderedWakeup`), and nobody is in a
rendezvous while a registration is being written (`OrderedWriting`).  `Registered`,
`Calls`, `Fresh` and `Zero` tie the registers and the software to the registered
mechanism, so that a registration at rest begins in order.  The proof has a lemma per action or
group of actions; the register writes have a lemma each on what they change.

### Only model-checked

The liveness properties `QueuedInterruptWakes`, `LevelReachesHandler`, `RecordServed`,
`MonarchProceeds` and `WaiterReleased`: fairness is stated with `ENABLED`, which is beyond
the prover.  The two runs that end in a violation are counterexamples and have nothing to
prove.

## Not modelled

* In the modelled parts: PMI, INIT, NMI and ExtINT routes of the I/O SAPIC; the PID's
  identification registers; a system reset with messages under way in the controllers'
  composition; saturation of the timer at `INT64_MAX`; the ALAT's slot index and the
  invalidations by register number ranges; memory orders weaker than sequential
  consistency; NaT bits, rotation and the completion trap of the register stack; the
  contents of error records, the INIT and corrected-error banks, and a rendezvous vector
  that is registered while machine checks are handled; the address of the memory word (all
  registrations name one word, zero at first).  The operating system is assumed to
  register OS_INIT and to return from its INIT handler.
* Whole parts: see the plan, and `components` in `PROJECT.json` for the reason in each
  case.
