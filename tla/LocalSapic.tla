----------------------------- MODULE LocalSapic -----------------------------
(***************************************************************************)
(* The processors' Local SAPICs (target/ia64/arch/interrupt.c), the        *)
(* delivery of interrupts from the execution loop (exception.c, ras.c) and *)
(* the PAL halt states (pal.c).                                            *)
(*                                                                         *)
(* env[c] is the interrupt-related part of processor c's CPUIA64State and  *)
(* CPUState; work[c] is its queue of asynchronous work (async_run_on_cpu), *)
(* which only c's own thread drains.  A request made from c's own thread   *)
(* takes effect at once; from any other thread it goes through work[c].    *)
(***************************************************************************)
EXTENDS SapicVectors, Sequences

CONSTANTS
    CPU,          \* cpu_index values, an interval 0 .. n-1
    Vector,       \* external interrupt vectors that requesters use
    PmiVector,    \* PMI vectors that requesters use
    Mode,         \* SAPIC delivery modes that requesters use
    TprValue,     \* [mmi : BOOLEAN, mic : 0 .. 15] values the guest writes
    XtpValue,     \* [disable : BOOLEAN, priority : 0 .. 15] values
    LidValue,     \* <<id, eid>> pairs the guest writes to CR.LID
    CmcVector,    \* vectors the guest writes to CR.CMCV (MASKED otherwise)
    PsrValue,     \* [i, ic, mc : BOOLEAN] values the guest loads into PSR
    PmiEntry,     \* PMI entry points the guest registers (TRUE: non-zero)
    SaveArea,     \* min-state areas the guest registers ("BAD": no memory)
    RasWork,      \* requests that the RAS hub makes
    MaxWork       \* bound on the length of a work queue

Modes == {"INT", "INT_REDIRECT", "NMI", "EXTINT", "PMI", "INIT"}

\* What a request asks of the processor that runs it.
Works ==
    [kind : {"IRQ", "PMI", "INIT", "MCA", "CMC", "INIT_ENTRY"}, arg : 0 .. 255]

ASSUME CpuAssumption == CPU # {} /\ CPU \subseteq Nat
ASSUME VectorAssumption == Vector \subseteq 0 .. 255 /\ CmcVector \subseteq 0 .. 255
ASSUME PmiAssumption == PmiVector \subseteq 0 .. 255
ASSUME TprAssumption == TprValue \subseteq [mmi : BOOLEAN, mic : 0 .. 15]
ASSUME XtpAssumption == XtpValue \subseteq [disable : BOOLEAN, priority : 0 .. 15]
ASSUME LidAssumption == LidValue \subseteq Nat \X Nat
ASSUME PsrAssumption == PsrValue \subseteq [i : BOOLEAN, ic : BOOLEAN, mc : BOOLEAN]
ASSUME EntryAssumption == PmiEntry \subseteq BOOLEAN /\ SaveArea \subseteq {"GOOD", "BAD"}
ASSUME RasAssumption == RasWork \subseteq {w \in Works : w.kind # "IRQ"}
ASSUME ModeAssumption == Mode \subseteq Modes

VARIABLES
    env,          \* env[c]: interrupt state of processor c
    work,         \* work[c]: queued asynchronous work of processor c
    serving       \* serving[c]: history, vectors accepted and not yet EOIed

vars == <<env, work, serving>>

-----------------------------------------------------------------------------
(* The in-service and request registers.                                   *)

\* Mutant: off by one in the word arithmetic.
HighestNormalOff(bitmap) ==
    LET normal == {v \in bitmap : v >= 16} IN
    IF normal = {} THEN SPURIOUS
    ELSE 1 + CHOOSE v \in normal : \A u \in normal : u <= v

\* sapic_find_highest_normal
HighestNormal(bitmap) ==
    LET normal == {v \in bitmap : v >= 16} IN
    IF normal = {} THEN SPURIOUS
    ELSE CHOOSE v \in normal : \A u \in normal : u <= v

\* sapic_find_isr
FindIsr(s) ==
    IF 2 \in s.isr THEN 2
    ELSE IF 0 \in s.isr THEN 0
    ELSE HighestNormal(s.isr)

\* Mutant: a vector of the priority in service is not held back.
VectorUnmaskedEqual(s, v) ==
    /\ VectorPriority(v) >= VectorPriority(FindIsr(s))
    /\ \/ v = 2
       \/ v = 0 /\ ~s.tpr.mmi
       \/ v # 0 /\ ~s.tpr.mmi /\ PriorityClass(v) > s.tpr.mic

\* sapic_vector_unmasked
VectorUnmasked(s, v) ==
    /\ VectorPriority(v) > VectorPriority(FindIsr(s))
    /\ \/ v = 2
       \/ v = 0 /\ ~s.tpr.mmi
       \/ v # 0 /\ ~s.tpr.mmi /\ PriorityClass(v) > s.tpr.mic

\* sapic_find_irr: NMI, then ExtINT, then the highest normal vector only.
FindIrr(s) ==
    LET highest == HighestNormal(s.irr) IN
    IF 2 \in s.irr /\ VectorUnmasked(s, 2) THEN 2
    ELSE IF 0 \in s.irr /\ VectorUnmasked(s, 0) THEN 0
    ELSE IF highest # SPURIOUS /\ VectorUnmasked(s, highest) THEN highest
    ELSE SPURIOUS

\* ia64_sapic_has_pending
HasPending(s) == FindIrr(s) # SPURIOUS

\* The special requests that ia64_sapic_update_interrupt() and
\* ia64_cpu_has_work() both test.
McaDeliverable(s)  == s.mcaPending /\ ~s.mc
InitDeliverable(s) == s.init /\ ~s.mc
PmiDeliverable(s)  == s.pmi # {} /\ s.ic /\ s.pmiEntry

Special(s) == McaDeliverable(s) \/ InitDeliverable(s) \/ PmiDeliverable(s)

\* ia64_sapic_update_interrupt: recompute CPU_INTERRUPT_HARD.
Updated(s) == [s EXCEPT !.hard = Special(s) \/ HasPending(s)]

-----------------------------------------------------------------------------
(* Processor state.                                                        *)

MASKED == -1      \* IA64_VECTOR_MASKED in CR.CMCV

\* ia64_cpu_reset_hold, cpu_common_reset_hold: a processor after reset.  A
\* secondary processor's boot information is powered-off: it is halted, and
\* the first deliverable interrupt wakes it (pal_halt_wake).
ResetEnv(c, exec) ==
    [ irr |-> {}, isr |-> {}, tpr |-> [mmi |-> FALSE, mic |-> 0],
      i |-> FALSE, ic |-> FALSE, mc |-> FALSE,
      icInflight |-> FALSE, iDeferred |-> FALSE,
      pmi |-> {}, pmiEntry |-> FALSE, init |-> FALSE, reason |-> 0,
      mcaPending |-> FALSE, mcaPendingId |-> 0,
      mcaActive |-> FALSE, mcaActiveId |-> 0, initActive |-> FALSE,
      initEntry |-> FALSE, saveArea |-> "NONE", context |-> FALSE,
      cmcv |-> MASKED, cmcPending |-> FALSE,
      hard |-> FALSE, haltRequest |-> FALSE, exec |-> exec,
      halted |-> c # 0, haltWake |-> c # 0,
      lid |-> <<c, 0>>, xtp |-> [disable |-> TRUE, priority |-> 0] ]

Init ==
    /\ env = [c \in CPU |-> ResetEnv(c, FALSE)]
    /\ work = [c \in CPU |-> <<>>]
    /\ serving = [c \in CPU |-> <<>>]

\* Mutant: masking PSR.i again leaves the deferral behind.
SetPsrKeepsDeferral(s, i, ic, mc) ==
    LET inflight == s.icInflight \/ ic # s.ic
        t == [s EXCEPT !.i = i, !.ic = ic, !.mc = mc, !.icInflight = inflight,
                       !.iDeferred = @ \/ (i /\ ~s.i /\ inflight)]
    IN  IF <<i, ic, mc>> # <<s.i, s.ic, s.mc>> THEN Updated(t) ELSE t

\* ia64_set_psr: PSR.i and PSR.ic changes in flight, then the HARD request.
SetPsr(s, i, ic, mc) ==
    LET inflight == s.icInflight \/ ic # s.ic
        deferred == i /\ (s.iDeferred \/ (~s.i /\ inflight))
        t == [s EXCEPT !.i = i, !.ic = ic, !.mc = mc,
                       !.icInflight = inflight, !.iDeferred = deferred]
    IN  IF <<i, ic, mc>> # <<s.i, s.ic, s.mc>> THEN Updated(t) ELSE t

\* ia64_tlb_serialize, its data half.
SerializeData(s) == [s EXCEPT !.icInflight = FALSE, !.iDeferred = FALSE]

\* Mutant: a request that is masked when it arrives is dropped.
SetIrqUnmasked(s, v) ==
    IF VectorUnmasked(s, v) THEN Updated([s EXCEPT !.irr = @ \union {v}]) ELSE s

\* ia64_sapic_set_irq_work
SetIrq(s, v) == Updated([s EXCEPT !.irr = @ \union {v}])

\* ia64_ras_update_cmc
UpdateCmc(s) ==
    IF s.cmcPending /\ s.cmcv # MASKED /\ VectorValid(s.cmcv)
    THEN SetIrq([s EXCEPT !.cmcPending = FALSE], s.cmcv)
    ELSE s

\* ia64_cpu_request_mca_work: a record that is being handled, or that waits
\* already, is not requested again.
RequestMca(s, id) ==
    IF id # s.mcaActiveId /\ ~(s.mcaPending /\ id = s.mcaPendingId)
    THEN Updated([s EXCEPT !.mcaPendingId = id, !.mcaPending = TRUE])
    ELSE s

\* ia64_sapic_set_special_work for INIT: the most important reason is kept.
RequestInit(s, reason) ==
    Updated([s EXCEPT !.init = TRUE,
                      !.reason = IF ~s.init \/ reason > @ THEN reason ELSE @])

\* The work functions: what a request does on its processor's own thread.
ApplyWork(s, w) ==
    CASE w.kind = "IRQ" -> SetIrq(s, w.arg)
      [] w.kind = "PMI" -> Updated([s EXCEPT !.pmi = @ \union {w.arg}])
      [] w.kind = "INIT" -> RequestInit(s, w.arg)
      [] w.kind = "MCA" -> RequestMca(s, w.arg)
      [] w.kind = "CMC" -> UpdateCmc([s EXCEPT !.cmcPending = TRUE])
      [] w.kind = "INIT_ENTRY" -> [s EXCEPT !.initEntry = (w.arg # 0)]

\* The requester runs either on a processor's own thread or elsewhere (a
\* device or another processor): qemu_cpu_is_self decides which.
Submit(requester, c, w) ==
    IF requester = c
    THEN /\ env' = [env EXCEPT ![c] = ApplyWork(@, w)]
         /\ UNCHANGED work
    ELSE /\ Len(work[c]) < MaxWork
         /\ work' = [work EXCEPT ![c] = Append(@, w)]
         /\ UNCHANGED env

-----------------------------------------------------------------------------
(* SAPIC messages.                                                         *)

\* ia64_cpu_by_sapic_id: the first processor, in index order, with this LID.
CpusWithLid(id, eid) == {c \in CPU : env[c].lid = <<id, eid>>}

Least(S) == CHOOSE c \in S : \A d \in S : c <= d

\* sapic_redirect_target: lowest XTP priority among the enabled processors
\* of the same EID; ties go to the first index at or after the requested
\* one, then wrap to the smaller ones.
RedirectTarget(requested) ==
    LET eligible == {c \in CPU : /\ env[c].lid[2] = env[requested].lid[2]
                                 /\ ~env[c].xtp.disable}
        best == {c \in eligible : \A d \in eligible :
                    env[c].xtp.priority <= env[d].xtp.priority}
        after == {c \in best : c >= requested}
    IN  IF eligible = {} THEN requested
        ELSE IF after # {} THEN Least(after)
        ELSE Least(best)

\* The vector that ia64_sapic_deliver() sends for a delivery mode.
MessageVector(mode, v) ==
    CASE mode = "NMI" -> 2
      [] mode \in {"EXTINT", "INIT"} -> 0
      [] OTHER -> v

MessageValid(mode, v) ==
    CASE mode \in {"INT", "INT_REDIRECT"} -> VectorValid(v)
      [] mode = "PMI" -> v < 4
      [] OTHER -> TRUE

\* ia64_sapic_deliver's result: is there a processor to take the message?
Deliverable(id, eid, mode, v) ==
    MessageValid(mode, v) /\ CpusWithLid(id, eid) # {}

Destination(id, eid, redirect, mode) ==
    LET requested == Least(CpusWithLid(id, eid)) IN
    IF (redirect \/ mode = "INT_REDIRECT") /\ mode \notin {"NMI", "EXTINT"}
    THEN RedirectTarget(requested)
    ELSE requested

MessageWork(mode, v) ==
    [kind |-> IF mode \in {"PMI", "INIT"} THEN mode ELSE "IRQ",
     arg  |-> MessageVector(mode, v)]

\* sapic_deliver_to through ia64_sapic_deliver, when it succeeds.
Deliver(requester, id, eid, redirect, mode, v) ==
    /\ Deliverable(id, eid, mode, v)
    /\ Submit(requester, Destination(id, eid, redirect, mode),
              MessageWork(mode, v))
    /\ UNCHANGED serving

Requesters == CPU \union {-1}     \* -1: a device or another host thread

\* The processor's thread is inside cpu_exec, running translated code.
Executing(c) == env[c].exec /\ ~env[c].haltRequest

\* ia64_pib_write: an inter-processor interrupt, and the messages of devices
\* that are not modelled.  A device does not set the redirection hint.
SendMessage ==
    \E r \in Requesters, lid \in LidValue, redirect \in BOOLEAN,
       mode \in Mode, v \in Vector \union PmiVector :
        /\ r \in CPU => Executing(r)
        /\ r = -1 => ~redirect
        /\ mode \in {"INT", "INT_REDIRECT"} => v \in Vector
        /\ mode = "PMI" => v \in PmiVector
        /\ Deliver(r, lid[1], lid[2], redirect, mode, v)

\* The requests of the RAS hub: ia64_cpu_request_mca, ia64_sapic_set_init,
\* ia64_cpu_record_machine_check (corrected) and ia64_cpu_set_init_entry.
RasRequest ==
    \E r \in Requesters, c \in CPU, w \in RasWork :
        /\ r \in CPU => Executing(r)
        /\ Submit(r, c, w)
        /\ UNCHANGED serving

-----------------------------------------------------------------------------
(* The processor's thread: its execution loop.                             *)

\* Mutant: PSR.i masks the wake-up of a halted processor.
HasWorkNoHaltWake(s) == s.hard /\ (s.i \/ 2 \in s.irr \/ Special(s))

\* ia64_cpu_has_work
HasWork(s) ==
    s.hard /\ (s.i \/ (s.halted /\ s.haltWake) \/ 2 \in s.irr \/ Special(s))

\* qemu_process_cpu_events, process_queued_cpu_work: outside cpu_exec the
\* thread runs its oldest request.
RunWork(c) ==
    /\ ~env[c].exec
    /\ work[c] # <<>>
    /\ env' = [env EXCEPT ![c] = ApplyWork(@, Head(work[c]))]
    /\ work' = [work EXCEPT ![c] = Tail(@)]
    /\ UNCHANGED serving

\* cpu_exec, cpu_handle_halt: the thread enters the loop once its queue is
\* drained, and a halted processor only when it has work.
EnterExec(c) ==
    /\ ~env[c].exec
    /\ work[c] = <<>>
    /\ env[c].halted => HasWork(env[c])
    /\ env' = [env EXCEPT ![c].exec = TRUE, ![c].halted = FALSE]
    /\ UNCHANGED <<work, serving>>

\* A kick (async_run_on_cpu, cpu_exit) makes the thread leave the loop.
LeaveExec(c) ==
    /\ Executing(c)
    /\ env' = [env EXCEPT ![c].exec = FALSE]
    /\ UNCHANGED <<work, serving>>

\* cpu_handle_interrupt: CPU_INTERRUPT_HALT, raised by PAL, is taken first.
TakeHalt(c) ==
    /\ env[c].exec /\ env[c].haltRequest
    /\ env' = [env EXCEPT ![c].haltRequest = FALSE, ![c].halted = TRUE,
                          ![c].exec = FALSE]
    /\ UNCHANGED <<work, serving>>

\* ia64_external_interrupt_enabled, native instruction set.
ExternalEnabled(s) == 2 \in s.irr \/ (s.i /\ ~s.iDeferred)

\* ia64_ras_save_min_state succeeds.
CanSave(s) == s.saveArea = "GOOD"

McaEnterable(s) == McaDeliverable(s) /\ ~s.mcaActive /\ CanSave(s)

\* Mutant: a masked machine check is dropped too.
DropMcaMasked(s) ==
    IF s.mcaPending /\ ~s.mcaActive /\ ~CanSave(s)
    THEN Updated([s EXCEPT !.mcaPending = FALSE]) ELSE s

\* ia64_ras_enter_mca drops a request that has nowhere to save its state.
DropMca(s) ==
    IF McaDeliverable(s) /\ ~s.mcaActive /\ ~CanSave(s)
    THEN Updated([s EXCEPT !.mcaPending = FALSE]) ELSE s

\* The PSR of the PAL entry points: bank 1, machine checks masked.
EntryPsr(s) == SerializeData(SetPsr(s, FALSE, FALSE, TRUE))

\* ia64_ras_enter_mca.  A request always carries a non-zero entry point.
EnterMca(s) ==
    Updated(EntryPsr([s EXCEPT !.mcaPending = FALSE, !.mcaActive = TRUE,
                               !.mcaActiveId = s.mcaPendingId,
                               !.context = TRUE, !.halted = FALSE]))

\* Mutant: INIT does not save the register-stack context.
EnterInitNoContext(s) ==
    Updated(EntryPsr([s EXCEPT !.init = FALSE, !.reason = 0,
                               !.initActive = TRUE, !.halted = FALSE]))

\* ia64_ras_enter_init after ia64_sapic_accept_init
EnterInit(s) ==
    Updated(EntryPsr([s EXCEPT !.init = FALSE, !.reason = 0,
                               !.initActive = TRUE, !.context = TRUE,
                               !.halted = FALSE]))

\* ia64_sapic_accept_pmi, ia64_ras_enter_pmi: the highest vector goes first.
EnterPmi(s) ==
    LET v == CHOOSE v \in s.pmi : \A u \in s.pmi : u <= v IN
    EntryPsr(Updated([s EXCEPT !.pmi = @ \ {v}, !.halted = FALSE]))

\* ia64_cpu_do_interrupt(IA64_EXCP_EXTINT), ia64_deliver_exception
EnterExternal(s) ==
    [SetPsr(s, FALSE, FALSE, s.mc) EXCEPT !.icInflight = FALSE,
                                          !.halted = FALSE]

\* ia64_cpu_exec_interrupt runs for a pending HARD request; the RSE frame is
\* complete here (the incomplete case belongs to the register stack model).
Interruptible(c) == Executing(c) /\ env[c].hard

ExecMca(c) ==
    /\ Interruptible(c)
    /\ McaEnterable(env[c])
    /\ env' = [env EXCEPT ![c] = EnterMca(@)]
    /\ UNCHANGED <<work, serving>>

\* Without an entry point, or inside an INIT handler, the processor is reset,
\* and its thread stays inside cpu_exec.
ExecInit(c) ==
    /\ Interruptible(c)
    /\ ~McaEnterable(env[c])
    /\ InitDeliverable(env[c])
    /\ IF ~env[c].initActive /\ env[c].initEntry /\ CanSave(env[c])
       THEN /\ env' = [env EXCEPT ![c] = EnterInit(DropMca(@))]
            /\ UNCHANGED serving
       ELSE /\ env' = [env EXCEPT ![c] = ResetEnv(c, TRUE)]
            /\ serving' = [serving EXCEPT ![c] = <<>>]
    /\ UNCHANGED work

\* A PMI whose state cannot be saved stays pending.
ExecPmi(c) ==
    /\ Interruptible(c)
    /\ ~McaEnterable(env[c]) /\ ~InitDeliverable(env[c])
    /\ PmiDeliverable(env[c])
    /\ env[c].saveArea # "BAD"
    /\ env' = [env EXCEPT ![c] = EnterPmi(DropMca(@))]
    /\ UNCHANGED <<work, serving>>

NoSpecialEntry(s) ==
    /\ ~McaEnterable(s) /\ ~InitDeliverable(s)
    /\ ~(PmiDeliverable(s) /\ s.saveArea # "BAD")

ExecExternal(c) ==
    /\ Interruptible(c)
    /\ NoSpecialEntry(env[c])
    /\ ExternalEnabled(env[c]) /\ HasPending(env[c])
    /\ env' = [env EXCEPT ![c] = EnterExternal(DropMca(@))]
    /\ UNCHANGED <<work, serving>>

\* Nothing is entered, but a machine check that cannot be is dropped.
ExecDropMca(c) ==
    /\ Interruptible(c)
    /\ NoSpecialEntry(env[c])
    /\ ~(ExternalEnabled(env[c]) /\ HasPending(env[c]))
    /\ DropMca(env[c]) # env[c]
    /\ env' = [env EXCEPT ![c] = DropMca(@)]
    /\ UNCHANGED <<work, serving>>

ExecInterrupt(c) ==
    \/ ExecMca(c)
    \/ ExecInit(c)
    \/ ExecPmi(c)
    \/ ExecExternal(c)
    \/ ExecDropMca(c)

-----------------------------------------------------------------------------
(* Guest instructions and PAL calls of an executing processor.             *)

Guest(c, s) ==
    /\ Executing(c)
    /\ env' = [env EXCEPT ![c] = s]
    /\ UNCHANGED work

\* ia64_sapic_accept (a read of CR.IVR)
Accept(s) ==
    LET v == FindIrr(s) IN
    IF v = SPURIOUS THEN s
    ELSE Updated([s EXCEPT !.irr = @ \ {v}, !.isr = @ \union {v}])

ReadIvr(c) ==
    /\ Guest(c, Accept(env[c]))
    /\ serving' = [serving EXCEPT ![c] =
            IF HasPending(env[c]) THEN Append(@, FindIrr(env[c])) ELSE @]

\* Mutant: EOI does not recompute the HARD request.
EoiStale(s) == [s EXCEPT !.isr = @ \ {FindIsr(s)}]

\* ia64_sapic_eoi (a write of CR.EOI).  The history drops the vector that was
\* accepted last: the one whose handler is running.
Eoi(s) == Updated([s EXCEPT !.isr = @ \ {FindIsr(s)}])

WriteEoi(c) ==
    /\ Guest(c, Eoi(env[c]))
    /\ serving' = [serving EXCEPT ![c] = IF @ = <<>> THEN @ ELSE SubSeq(@, 1, Len(@) - 1)]

\* ia64_write_cr, IA64_CR_SAPIC_TPR
WriteTpr(c) ==
    /\ \E t \in TprValue : Guest(c, Updated([env[c] EXCEPT !.tpr = t]))
    /\ UNCHANGED serving

\* ia64_write_cr, IA64_CR_SAPIC_LID, and ia64_sapic_set_xtp
WriteLid(c) ==
    /\ \E l \in LidValue : Guest(c, [env[c] EXCEPT !.lid = l])
    /\ UNCHANGED serving

WriteXtp(c) ==
    /\ \E x \in XtpValue : Guest(c, [env[c] EXCEPT !.xtp = x])
    /\ UNCHANGED serving

\* Mutant: unmasking CMCV does not look for a waiting corrected error.
WriteCmcvOnly(c) ==
    /\ \E v \in CmcVector \union {MASKED} : Guest(c, [env[c] EXCEPT !.cmcv = v])
    /\ UNCHANGED serving

\* ia64_write_cr, IA64_CR_CMCV
WriteCmcv(c) ==
    /\ \E v \in CmcVector \union {MASKED} :
            Guest(c, UpdateCmc([env[c] EXCEPT !.cmcv = v]))
    /\ UNCHANGED serving

\* ssm, rsm, mov to psr.l and rfi (the PSR part of ia64_rfi).
ChangePsr(c) ==
    /\ \E p \in PsrValue : Guest(c, SetPsr(env[c], p.i, p.ic, p.mc))
    /\ UNCHANGED serving

\* srlz.d, and the start of the next translation block, which consumes the
\* interrupt deferral of an earlier one.
Serialize(c) ==
    /\ \/ Guest(c, SerializeData(env[c]))
       \/ Guest(c, [env[c] EXCEPT !.iDeferred = FALSE])
    /\ UNCHANGED serving

\* ia64_deliver_exception for a fault or trap of the running code.
Fault(c) ==
    /\ Guest(c, [SetPsr(env[c], FALSE, FALSE, env[c].mc)
                 EXCEPT !.icInflight = FALSE])
    /\ UNCHANGED serving

\* pal_halt_light, pal_halt: the halt itself follows at the end of the block.
PalHalt(c) ==
    /\ Guest(c, [env[c] EXCEPT !.haltWake = TRUE, !.haltRequest = TRUE])
    /\ UNCHANGED serving

\* pal_pmi_entrypoint (zero is a legal argument)
PalPmiEntrypoint(c) ==
    /\ \E e \in PmiEntry : Guest(c, Updated([env[c] EXCEPT !.pmiEntry = e]))
    /\ UNCHANGED serving

\* pal_mc_register_mem: the area may lie where there is no memory.
PalMcRegisterMem(c) ==
    /\ \E a \in SaveArea : Guest(c, [env[c] EXCEPT !.saveArea = a])
    /\ UNCHANGED serving

\* pal_mc_resume, ia64_ras_restore_min_state, when they succeed.  The PSR
\* comes from the min-state area, which the handler may have edited.
Resumed(s, p, cmci) ==
    Updated(UpdateCmc(
        [SerializeData(SetPsr(s, p.i, p.ic, p.mc)) EXCEPT
            !.context = FALSE, !.mcaActive = FALSE, !.mcaActiveId = 0,
            !.initActive = FALSE, !.cmcPending = @ \/ cmci]))

PalMcResume(c) ==
    /\ \E newContext, cmci \in BOOLEAN, p \in PsrValue :
        /\ newContext \/ env[c].context
        /\ Guest(c, Resumed(env[c], p, cmci))
    /\ UNCHANGED serving

-----------------------------------------------------------------------------
GuestStep(c) ==
    \/ ReadIvr(c)
    \/ WriteEoi(c)
    \/ WriteTpr(c)
    \/ WriteLid(c)
    \/ WriteXtp(c)
    \/ WriteCmcv(c)
    \/ ChangePsr(c)
    \/ Serialize(c)
    \/ Fault(c)
    \/ PalHalt(c)
    \/ PalPmiEntrypoint(c)
    \/ PalMcRegisterMem(c)
    \/ PalMcResume(c)

LoopStep(c) == RunWork(c) \/ EnterExec(c) \/ LeaveExec(c) \/ TakeHalt(c)

Next ==
    \/ SendMessage
    \/ RasRequest
    \/ \E c \in CPU : LoopStep(c) \/ ExecInterrupt(c) \/ GuestStep(c)

Spec == Init /\ [][Next]_vars

\* A host thread is scheduled: it leaves cpu_exec when kicked, drains its
\* work, and re-examines its halt and interrupt state.  Strong fairness of
\* EnterExec: a producer does not refill the queue for ever in the instant
\* between the last request and the test that finds the queue empty.
Fairness ==
    \A c \in CPU :
        /\ WF_vars(RunWork(c))
        /\ SF_vars(EnterExec(c))
        /\ WF_vars(work[c] # <<>> /\ LeaveExec(c))
        /\ WF_vars(TakeHalt(c))
        /\ WF_vars(ExecInterrupt(c))

FairSpec == Spec /\ Fairness

-----------------------------------------------------------------------------
(* Properties.                                                             *)

SaveAreas == {"NONE", "GOOD", "BAD"}

FieldType ==
    [ irr |-> SUBSET (0 .. 255), isr |-> SUBSET (0 .. 255),
      tpr |-> [mmi : BOOLEAN, mic : 0 .. 15],
      i |-> BOOLEAN, ic |-> BOOLEAN, mc |-> BOOLEAN,
      icInflight |-> BOOLEAN, iDeferred |-> BOOLEAN,
      pmi |-> SUBSET (0 .. 255), pmiEntry |-> BOOLEAN, init |-> BOOLEAN,
      reason |-> 0 .. 255, mcaPending |-> BOOLEAN, mcaPendingId |-> 0 .. 255,
      mcaActive |-> BOOLEAN, mcaActiveId |-> 0 .. 255, initActive |-> BOOLEAN,
      initEntry |-> BOOLEAN, saveArea |-> SaveAreas, context |-> BOOLEAN,
      cmcv |-> MASKED .. 255, cmcPending |-> BOOLEAN,
      hard |-> BOOLEAN, haltRequest |-> BOOLEAN, exec |-> BOOLEAN,
      halted |-> BOOLEAN, haltWake |-> BOOLEAN, lid |-> Nat \X Nat,
      xtp |-> [disable : BOOLEAN, priority : 0 .. 15] ]

EnvOK(s) ==
    /\ DOMAIN s = DOMAIN FieldType
    /\ \A f \in DOMAIN FieldType : s[f] \in FieldType[f]

\* The processors' interrupt state, their queues and the history have the
\* types of the fields of CPUIA64State that they model.
TypeOK ==
    /\ DOMAIN env = CPU /\ \A c \in CPU : EnvOK(env[c])
    /\ work \in [CPU -> Seq(Works)]
    /\ serving \in [CPU -> Seq(0 .. 255)]

\* CPU_INTERRUPT_HARD is set exactly when something is deliverable, whatever
\* mixture of requests, accepts, EOIs, priority and PSR changes came before:
\* the execution loop and ia64_cpu_has_work() test only that bit.
HardTracksPending ==
    \A c \in CPU : env[c].hard = (Special(env[c]) \/ HasPending(env[c]))

\* The in-service register is the stack of accepted vectors, in strictly
\* rising priority, so that EOI, which names no vector, retires the vector of
\* the handler that writes it.
ServiceStack ==
    \A c \in CPU :
        /\ env[c].isr = {serving[c][k] : k \in DOMAIN serving[c]}
        /\ \A j, k \in DOMAIN serving[c] : j < k =>
              VectorPriority(serving[c][j]) < VectorPriority(serving[c][k])

\* An unmasking of PSR.i is deferred only while it is set and the change of
\* PSR.ic that it followed is still in flight.
DeferralIsInFlight ==
    \A c \in CPU : env[c].iDeferred => env[c].i /\ env[c].icInflight

\* A corrected machine check waits only while CMCV is masked or holds a
\* reserved vector: no order of logging, writing CMCV and resuming leaves one
\* without its interrupt.
CmcNotStranded ==
    \A c \in CPU :
        env[c].cmcPending => env[c].cmcv = MASKED \/ ~VectorValid(env[c].cmcv)

\* While a machine check or INIT handler is active the register-stack context
\* that PAL_MC_RESUME will restore is there (ia64_cpu_post_load).
ActiveHasContext ==
    \A c \in CPU : env[c].mcaActive \/ env[c].initActive => env[c].context

\* A machine check and an INIT handler are never active together, as
\* ia64_cpu_post_load() demands of the state it loads.
ActiveExclusive ==
    \A c \in CPU : ~(env[c].mcaActive /\ env[c].initActive)

\* A processor that executes instructions is not flagged halted: pal_halt_light
\* leaves the flag to the loop so that it cannot be stale.
RunningIsNotHalted ==
    \A c \in CPU : env[c].exec => ~env[c].halted

\* A machine check that PSR.mc masks is retained: only PAL's own reset of the
\* processor, from which it cannot be masked, forgets it.
MaskedMcaRetained ==
    [][\A c \in CPU : env[c].mcaPending /\ env[c].mc => env'[c].mcaPending]_vars

\* An interrupt that is queued for a processor halted by PAL (or powered off)
\* and that its TPR does not mask wakes it, wherever PSR.i stands.
QueuedInterruptWakes ==
    \A c \in CPU, v \in Vector :
        /\ env[c].halted /\ ~env[c].exec /\ env[c].haltWake
        /\ VectorUnmasked(env[c], v)
        /\ \E k \in DOMAIN work[c] : work[c][k] = [kind |-> "IRQ", arg |-> v]
        ~> env[c].exec
=============================================================================
