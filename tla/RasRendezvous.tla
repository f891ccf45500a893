--------------------------- MODULE RasRendezvous ---------------------------
(***************************************************************************)
(* The machine-check rendezvous: the RAS hub's rendezvous and wake-up      *)
(* registers (hw/ia64/ia64_ras.c) and the SAL code that uses them          *)
(* (roms/ia64-firmware/firmware.c): the monarch, a processor in a machine  *)
(* check, stops the others and waits for them; each of them calls          *)
(* SAL_MC_RENDEZ from the rendezvous interrupt, or is sent an INIT when it *)
(* does not come in time; clearing the machine-check record lets them go,  *)
(* by the ACTIVE register or one by one through a word of memory.          *)
(*                                                                         *)
(* Every register access is one step, under the big lock.  Timeouts may    *)
(* expire at any time.                                                     *)
(***************************************************************************)
EXTENDS Naturals, FiniteSets

CONSTANTS
    CPU,          \* cpu_index values, an interval 0 .. n-1
    Machine,      \* [online : processors that firmware has brought up,
                  \*  monarch : those of them that take machine checks,
                  \*  events : bound on machine checks and snapshots loaded]
    Registrar,    \* processors that register the wake-up
    Vectored,     \* possible answers to: is a rendezvous vector registered?
    MaxSet        \* bound: calls of SAL_MC_SET_PARAMS for the wake-up

ASSUME CpuAssumption == IsFiniteSet(CPU) /\ CPU \subseteq Nat /\ 0 \in CPU
ASSUME MachineAssumption ==
    Machine \subseteq [online : SUBSET CPU, monarch : SUBSET CPU, events : Nat]
ASSUME VectorAssumption == Vectored \subseteq BOOLEAN
ASSUME BoundAssumption == MaxSet \in Nat

INT == 1          \* SAL_MC_PARAM_MECHANISM_INT
MEM == 2          \* SAL_MC_PARAM_MECHANISM_MEM

VARIABLES
    hub,          \* the hub's rendezvous and wake-up registers
    word,         \* the wake-up word in memory: 0 or cpu_index + 1
    irq,          \* processors with the rendezvous vector requested
    init,         \* processors with an INIT pending
    params,       \* mSalMcParams[RENDEZ_WAKEUP] and which register of the
                  \*   hub the call that registers it writes next
    cpu,          \* cpu[c]: the software of processor c
    note          \* histories and counters

vars == <<hub, word, irq, init, params, cpu, note>>

\* pc: interruptible software; via: the mechanism SAL_MC_RENDEZ read; mca:
\* machine-check software; req: its copy of REQUIRED; init: INIT software.
Idle(m) == [pc |-> "run", via |-> 0, mca |-> "none", req |-> {},
            init |-> "none", monarch |-> m]

Init ==
    /\ \E v \in Vectored, m \in Machine :
          /\ hub = [vector |-> v, mechanism |-> 0, value |-> "none",
                    online |-> m.online, active |-> FALSE, fallback |-> FALSE,
                    required |-> {}, arrived |-> {}, pending |-> {},
                    current |-> 0]
          /\ cpu = [c \in CPU |-> Idle(c \in m.monarch \intersect m.online)]
          /\ note = [disorder |-> FALSE, replaced |-> FALSE, byInit |-> {},
                     sets |-> 0, left |-> m.events]
    /\ word = 0
    /\ irq = {} /\ init = {}
    /\ params = [mechanism |-> 0, writing |-> "none", caller |-> 0]

-----------------------------------------------------------------------------
(* The hub's registers.  Each operator is a register write: the registers  *)
(* it leaves, with the word and the signals it sends.                      *)

Lowest(S) == CHOOSE c \in S : \A d \in S : c <= d

\* Mutant: the index is written without the one that is added to it.
StartMemoryWakeupUnshifted(h) ==
    IF h.mechanism # MEM \/ h.pending = {}
    THEN hub' = h /\ UNCHANGED word
    ELSE /\ hub' = [h EXCEPT !.current = Lowest(h.pending)]
         /\ word' = IF h.value = "address" THEN Lowest(h.pending) ELSE word

\* ia64_ras_start_memory_wakeup.  The value written last is an address in RAM,
\* so the write succeeds; before WAKEUP_VALUE is, it misses the word.
StartMemoryWakeup(h) ==
    IF h.mechanism # MEM \/ h.pending = {}
    THEN hub' = h /\ UNCHANGED word
    ELSE /\ hub' = [h EXCEPT !.current = Lowest(h.pending)]
         /\ word' = IF h.value = "address" THEN Lowest(h.pending) + 1 ELSE word

\* ia64_ras_begin_rendezvous
BeginRendezvous(m) ==
    LET others == hub.online \ {m} IN
    /\ hub' = [hub EXCEPT !.required = others, !.arrived = {},
                          !.active = others # {},
                          !.fallback = others # {} /\ ~hub.vector]
    /\ IF hub.vector THEN irq' = irq \union others /\ UNCHANGED init
                     ELSE init' = init \union others /\ UNCHANGED irq
    /\ UNCHANGED word

\* RENDEZVOUS_ARRIVED
Arrived(c) ==
    hub' = IF hub.active
           THEN [hub EXCEPT !.arrived = @ \union ({c} \intersect hub.required)]
           ELSE hub

\* RENDEZVOUS_INIT
RendezvousInit ==
    IF hub.active
    THEN /\ hub' = [hub EXCEPT !.fallback = TRUE]
         /\ init' = init \union (hub.required \ hub.arrived)
    ELSE UNCHANGED <<hub, init>>

\* Mutant: the participants are forgotten but the rendezvous stays active.
ReleaseStaysActive ==
    LET idle == [hub EXCEPT !.required = {}, !.arrived = {}] IN
    IF hub.mechanism = MEM
    THEN StartMemoryWakeup([idle EXCEPT !.pending = hub.required])
    ELSE hub' = idle /\ UNCHANGED word

\* ia64_ras_release_rendezvous.  (The wake-up vector only ends a pause of
\* processors that poll ACTIVE.)
Release ==
    LET idle == [hub EXCEPT !.active = FALSE, !.required = {}, !.arrived = {}]
    IN  IF hub.mechanism = MEM
        THEN StartMemoryWakeup([idle EXCEPT !.pending = hub.required])
        ELSE hub' = idle /\ UNCHANGED word

\* WAKEUP_ACK
WakeupAck(c) ==
    IF c \in hub.pending /\ c = hub.current
    THEN StartMemoryWakeup([hub EXCEPT !.pending = @ \ {c}])
    ELSE UNCHANGED <<hub, word>>

\* The memory word is registered, or the hub would still use it.
ByMemory == MEM \in {hub.mechanism, params.mechanism}

\* note.disorder: with the memory word registered, or with one being replaced
\* or registered,
\*   - a rendezvous began while another was active, without a vector (so by
\*     INITs), or while a registration was being written (MonarchBegin);
\*   - it timed out (MonarchTimeout, MonarchGiveUp);
\*   - it was released before the monarch found all arrived by the vector, or
\*     again before every wake-up was acknowledged (ClearMca);
\*   - the wake-up was registered before all of a rendezvous was over
\*     (SetParams); or a snapshot was loaded (Reload).
\* A rendezvous begins or ends; b: in one of these ways.
Disturbed(b) ==
    note' = [note EXCEPT !.disorder = @ \/ (b /\ ByMemory), !.byInit = {}]

-----------------------------------------------------------------------------
(* The participants.                                                       *)

\* Processor c runs its interruptible software.
Interruptible(c) ==
    c \in hub.online /\ cpu[c].mca = "none" /\ cpu[c].init = "none"

\* The rendezvous interrupt is accepted; its handler calls SAL_MC_RENDEZ.
AcceptIrq(c) ==
    /\ Interruptible(c) /\ c \in irq /\ cpu[c].pc = "run"
    /\ irq' = irq \ {c}
    /\ cpu' = [cpu EXCEPT ![c].pc = "call"]
    /\ UNCHANGED <<hub, word, init, params, note>>

\* sal_mc_rendez: ACTIVE and the wake-up parameters are read.
RendezRead(c) ==
    /\ Interruptible(c) /\ cpu[c].pc = "call"
    /\ cpu' = IF hub.active /\ params.mechanism # 0
              THEN [cpu EXCEPT ![c].pc = "drained", ![c].via = params.mechanism]
              ELSE [cpu EXCEPT ![c].pc = "run"]
    /\ UNCHANGED <<hub, word, irq, init, params, note>>

\* sal_mc_rendez: after PAL_MC_DRAIN, ARRIVED is written.
RendezArrive(c) ==
    /\ Interruptible(c) /\ cpu[c].pc = "drained"
    /\ Arrived(c)
    /\ cpu' = [cpu EXCEPT ![c].pc = "wait"]
    /\ UNCHANGED <<word, irq, init, params, note>>

\* sal_mc_rendez: the word of memory holds the processor's own number.
WakeByWord(c) ==
    /\ Interruptible(c) /\ cpu[c].pc = "wait"
    /\ cpu[c].via = MEM /\ word = c + 1
    /\ word' = 0
    /\ cpu' = [cpu EXCEPT ![c].pc = "woken"]
    /\ UNCHANGED <<hub, irq, init, params, note>>

\* sal_mc_rendez: WAKEUP_ACK is written.
RendezAck(c) ==
    /\ Interruptible(c) /\ cpu[c].pc = "woken"
    /\ WakeupAck(c)
    /\ cpu' = [cpu EXCEPT ![c].pc = "run", ![c].via = 0]
    /\ UNCHANGED <<irq, init, params, note>>

\* Mutant: the processor leaves once all have arrived.
WakeByActiveEarly(c) ==
    /\ Interruptible(c) /\ cpu[c].pc = "wait"
    /\ cpu[c].via # MEM /\ hub.required \subseteq hub.arrived
    /\ cpu' = [cpu EXCEPT ![c].pc = "run", ![c].via = 0]
    /\ UNCHANGED <<hub, word, irq, init, params, note>>

\* sal_mc_rendez: ACTIVE reads as zero.
WakeByActive(c) ==
    /\ Interruptible(c) /\ cpu[c].pc = "wait"
    /\ cpu[c].via # MEM /\ ~hub.active
    /\ cpu' = [cpu EXCEPT ![c].pc = "run", ![c].via = 0]
    /\ UNCHANGED <<hub, word, irq, init, params, note>>

\* ia64_ras_enter_init: PSR.mc masks it in both kinds of handler.
EnterInit(c) ==
    /\ Interruptible(c) /\ c \in init
    /\ init' = init \ {c}
    /\ cpu' = [cpu EXCEPT ![c].init = "taken"]
    /\ UNCHANGED <<hub, word, irq, params, note>>

\* firmware_init_prepare: after INIT_CAPTURE, ARRIVED is written.
InitArrive(c) ==
    /\ cpu[c].init = "taken"
    /\ Arrived(c)
    /\ cpu' = [cpu EXCEPT ![c].init = "handler"]
    /\ note' = IF hub.active THEN [note EXCEPT !.byInit = @ \union {c}] ELSE note
    /\ UNCHANGED <<word, irq, init, params>>

\* The operating system's INIT handler returns.
InitReturn(c) ==
    /\ cpu[c].init = "handler"
    /\ cpu' = [cpu EXCEPT ![c].init = "none"]
    /\ UNCHANGED <<hub, word, irq, init, params, note>>

-----------------------------------------------------------------------------
(* The monarch.                                                            *)

\* A machine check is entered and reaches sal_mca_rendezvous_state, which
\* gives up if the wake-up is not registered.
EnterMca(m) ==
    /\ cpu[m].monarch /\ Interruptible(m) /\ note.left > 0
    /\ note' = [note EXCEPT !.left = @ - 1]
    /\ cpu' = [cpu EXCEPT ![m].mca =
          IF hub.online = {m} THEN "alone"
          ELSE IF params.mechanism = 0 THEN "failed" ELSE "begin"]
    /\ UNCHANGED <<hub, word, irq, init, params>>

MonarchBegin(m) ==
    /\ cpu[m].mca = "begin"
    /\ BeginRendezvous(m)
    /\ Disturbed(hub.active \/ ~hub.vector \/ params.writing # "none")
    /\ cpu' = [cpu EXCEPT ![m].mca = "read"]
    /\ UNCHANGED params

MonarchRead(m) ==
    /\ cpu[m].mca = "read"
    /\ cpu' = [cpu EXCEPT
          ![m].req = hub.required,
          ![m].mca = IF hub.required = {} THEN "alone" ELSE "wait"]
    /\ UNCHANGED <<hub, word, irq, init, params, note>>

\* Both waits end when ARRIVED has every bit of REQUIRED.
MonarchArrived(m) ==
    /\ cpu[m].mca \in {"wait", "init_wait"}
    /\ cpu[m].req \subseteq hub.arrived
    /\ cpu' = [cpu EXCEPT ![m].mca = IF @ = "wait" THEN "status" ELSE "by_init"]
    /\ UNCHANGED <<hub, word, irq, init, params, note>>

\* After the first, FALLBACK tells how they came.
MonarchStatus(m) ==
    /\ cpu[m].mca = "status"
    /\ cpu' = [cpu EXCEPT ![m].mca = IF hub.fallback THEN "by_init"
                                                     ELSE "by_vector"]
    /\ UNCHANGED <<hub, word, irq, init, params, note>>

\* The first timeout sends INITs.
MonarchTimeout(m) ==
    /\ cpu[m].mca = "wait"
    /\ RendezvousInit
    /\ note' = [note EXCEPT !.disorder = @ \/ ByMemory]
    /\ cpu' = [cpu EXCEPT ![m].mca = "init_wait"]
    /\ UNCHANGED <<word, irq, params>>

\* Mutant: the second wait has no timeout.
MonarchGiveUpNever(m) == FALSE /\ UNCHANGED vars

\* The second gives up, as does a registered timeout too long to count.
MonarchGiveUp(m) ==
    /\ cpu[m].mca \in {"wait", "init_wait"}
    /\ Release
    /\ Disturbed(TRUE)
    /\ cpu' = [cpu EXCEPT ![m].mca = "failed"]
    /\ UNCHANGED <<irq, init, params>>

Results == {"alone", "failed", "by_init", "by_vector"}

\* SAL_CLEAR_STATE_INFO for machine checks writes RELEASE: from the OS_MCA
\* handler, once per record, or from the operating system at any time.
ClearMca(c) ==
    /\ \/ cpu[c].mca \in Results \union {"cleared"}
       \/ Interruptible(c) /\ cpu[c].pc = "run"
    /\ Release
    /\ Disturbed((hub.active /\ cpu[c].mca # "by_vector") \/ hub.pending # {})
    /\ cpu' = [cpu EXCEPT ![c].mca = IF @ = "none" THEN @ ELSE "cleared"]
    /\ UNCHANGED <<irq, init, params>>

\* The OS_MCA handler returns; it has cleared its record.
ResumeMca(m) ==
    /\ cpu[m].mca = "cleared"
    /\ cpu' = [cpu EXCEPT ![m].mca = "none", ![m].req = {}]
    /\ UNCHANGED <<hub, word, irq, init, params, note>>

-----------------------------------------------------------------------------
(* Registration and snapshots.                                             *)

\* Nothing of a rendezvous is left, and none is about to begin.
AtRest ==
    /\ ~hub.active /\ hub.pending = {} /\ init = {}
    /\ \A c \in CPU : cpu[c] = Idle(cpu[c].monarch)

\* sal_mc_set_params for the wake-up: the registration is published,
SetParams(c, mechanism) ==
    /\ note.sets < MaxSet /\ params.writing = "none"
    /\ c \in Registrar /\ Interruptible(c) /\ cpu[c].pc = "run"
    /\ params' = [mechanism |-> mechanism, caller |-> c, writing |-> "mechanism"]
    /\ note' = [note EXCEPT
          !.sets = @ + 1,
          !.disorder = @ \/ (~AtRest /\ MEM \in {params.mechanism, mechanism})]
    /\ UNCHANGED <<hub, word, irq, init, cpu>>

\* The processor that registers goes on.
Registering == Interruptible(params.caller) /\ cpu[params.caller].pc = "run"

\* then WAKEUP_MECHANISM is written,
SetMechanism ==
    /\ params.writing = "mechanism" /\ Registering
    /\ hub' = [hub EXCEPT !.mechanism = params.mechanism]
    /\ params' = [params EXCEPT !.writing = "value"]
    /\ note' = [note EXCEPT
          !.replaced = @ \/ (hub.mechanism = MEM /\ params.mechanism = INT)]
    /\ UNCHANGED <<word, irq, init, cpu>>

\* then WAKEUP_VALUE.
SetValue ==
    /\ params.writing = "value" /\ Registering
    /\ hub' = [hub EXCEPT
          !.value = IF params.mechanism = INT THEN "vector" ELSE "address"]
    /\ params' = [params EXCEPT !.writing = "none", !.caller = 0]
    /\ note' = [note EXCEPT !.replaced = @ /\ hub.pending # {}]
    /\ UNCHANGED <<word, irq, init, cpu>>

\* What ia64_ras_hub_post_load asks of the rendezvous,
RendezvousAccepted(h) ==
    /\ h.required \subseteq h.online
    /\ h.arrived \subseteq h.required
    /\ h.pending \subseteq h.online
    /\ h.active <=> h.required # {}

\* and of the wake-up.
WakeupAccepted(h) ==
    /\ h.mechanism = INT => h.value # "address"
    /\ h.pending # {} => h.mechanism = MEM /\ h.current \in h.pending

\* A snapshot is loaded: the missing processors are signalled again and the
\* memory wake-up is started again.
Reload ==
    /\ note.left > 0
    /\ RendezvousAccepted(hub) /\ WakeupAccepted(hub)
    /\ note' = [note EXCEPT !.left = @ - 1,
                            !.disorder = @ \/ ByMemory]
    /\ LET missing == IF hub.active THEN hub.required \ hub.arrived ELSE {} IN
       IF hub.fallback THEN init' = init \union missing /\ UNCHANGED irq
                       ELSE irq' = irq \union missing /\ UNCHANGED init
    /\ StartMemoryWakeup(hub)
    /\ UNCHANGED <<params, cpu>>

-----------------------------------------------------------------------------

Participant(c) ==
    \/ RendezRead(c)
    \/ RendezArrive(c)
    \/ WakeByWord(c)
    \/ RendezAck(c)
    \/ WakeByActive(c)
    \/ InitArrive(c)
    \/ InitReturn(c)

MonarchStep(m) ==
    \/ MonarchBegin(m)
    \/ MonarchRead(m)
    \/ MonarchArrived(m)
    \/ MonarchStatus(m)
    \/ MonarchTimeout(m)
    \/ MonarchGiveUp(m)

Next ==
    \/ \E c \in CPU :
          \/ Participant(c)
          \/ AcceptIrq(c)
          \/ EnterInit(c)
          \/ EnterMca(c)
          \/ MonarchStep(c)
          \/ ClearMca(c)
          \/ ResumeMca(c)
          \/ \E mechanism \in {INT, MEM} : SetParams(c, mechanism)
    \/ SetMechanism
    \/ SetValue
    \/ Reload

Spec == Init /\ [][Next]_vars

\* Threads run, so software that waits for nothing goes on, a timeout
\* expires, and handlers of the operating system end after clearing their
\* record.  An interrupt may stay masked and an INIT may be held up for ever.
Fairness ==
    \A c \in CPU :
        WF_vars(\/ Participant(c) \/ MonarchStep(c)
                \/ cpu[c].mca \in Results /\ ClearMca(c)
                \/ ResumeMca(c))

FairSpec == Spec /\ Fairness

-----------------------------------------------------------------------------
(* Properties.                                                             *)

PcPlaces == {"run", "call", "drained", "wait", "woken"}
McaPlaces == {"none", "begin", "read", "wait", "init_wait", "status", "cleared",
              "alone", "failed", "by_init", "by_vector"}
InitPlaces == {"none", "taken", "handler"}
Mechanisms == {0, INT, MEM}

Registers ==
    [vector : BOOLEAN, mechanism : Mechanisms, value : {"none", "vector", "address"},
     online : SUBSET CPU, active : BOOLEAN, fallback : BOOLEAN,
     required : SUBSET CPU, arrived : SUBSET CPU,
     pending : SUBSET CPU, current : CPU]

Words == {0} \union {c + 1 : c \in CPU}

Software ==
    [pc : PcPlaces, via : Mechanisms, mca : McaPlaces, req : SUBSET CPU,
     init : InitPlaces, monarch : BOOLEAN]

Params ==
    [mechanism : Mechanisms, writing : {"none", "mechanism", "value"}, caller : CPU]

Notes ==
    [disorder : BOOLEAN, replaced : BOOLEAN, byInit : SUBSET CPU, sets : Nat,
     left : Nat]

\* Registers, software and histories keep their types.
TypeOK ==
    /\ hub \in Registers
    /\ word \in Words
    /\ irq \in SUBSET CPU /\ init \in SUBSET CPU
    /\ params \in Params
    /\ cpu \in [CPU -> Software]
    /\ note \in Notes

\* However machine checks, timeouts, clears, registrations and snapshots
\* interleave, the hub's registers are ones that ia64_ras_hub_post_load
\* accepts.  Those of the wake-up are not once WAKEUP_MECHANISM replaces the
\* memory word by an interrupt, until WAKEUP_VALUE is written with no wake-up
\* pending.
HubReloads ==
    RendezvousAccepted(hub) /\ (WakeupAccepted(hub) \/ note.replaced)

\* As long as the rendezvous lasts, a processor that was counted as arrived
\* has taken an INIT for it or is still stopped in SAL_MC_RENDEZ.  With the
\* memory word this needs order, as note.disorder defines it.
ArrivedWaits ==
    \A c \in CPU :
        (hub.active /\ c \in hub.arrived)
            => \/ cpu[c].pc = "wait"
               \/ c \in note.byInit
               \/ note.disorder

\* A processor in a machine check reaches the operating system's handler,
\* whoever else is in a machine check and whoever does not answer.
MonarchProceeds ==
    \A m \in CPU : cpu[m].mca = "begin" ~> cpu[m].mca \in Results

\* A processor stopped in SAL_MC_RENDEZ is let go.  With the memory word this
\* needs order, as note.disorder defines it.
WaiterReleased ==
    \A c \in CPU :
        cpu[c].pc = "wait" ~>
            (cpu[c].pc # "wait" \/ note.disorder)

=============================================================================
