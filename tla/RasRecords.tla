----------------------------- MODULE RasRecords -----------------------------
(***************************************************************************)
(* The error records of the RAS hub (hw/ia64/ia64_ras.c) and the machine   *)
(* checks they raise: the record banks, ia64_ras_try_deliver_mca, the      *)
(* request queued for a processor (target/ia64/arch/ras.c), its delivery,  *)
(* and the SAL and operating-system code that answers it.                  *)
(*                                                                         *)
(* A record is its id.  The MCA bank of every processor and the CPE bank   *)
(* of processor 0 are modelled; CMC and INIT banks are the same rings with *)
(* no delivery of their own.  Hub handlers run under the big lock, each in *)
(* one step.  A request made from the target's own thread takes effect at  *)
(* once, any other is queued as safe work and kicks the target, which      *)
(* drains its queue before it starts another translation block; only an    *)
(* access that already waits for the big lock is still to come.            *)
(***************************************************************************)
EXTENDS Naturals, Sequences, FiniteSets

CONSTANTS
    CPU,          \* cpu_index values, an interval 0 .. n-1
    Faulty,       \* processors whose errors are reported
    DEVICE,       \* a thread that is no processor's
    RecordDepth,  \* IA64_RAS_RECORD_DEPTH
    MaxId,        \* bound: records reported
    MaxWork,      \* bound: queued requests of one processor
    MaxResets     \* bound: system resets

ASSUME CpuAssumption == IsFiniteSet(CPU) /\ CPU \subseteq Nat /\ 0 \in CPU
ASSUME FaultyAssumption == Faulty \subseteq CPU
ASSUME DeviceAssumption == DEVICE \notin CPU
ASSUME DepthAssumption == RecordDepth \in Nat \ {0}
ASSUME BoundAssumption == {MaxId, MaxWork, MaxResets} \subseteq Nat

Bank == (CPU \X {"MCA"}) \union {<<0, "CPE">>}
Mca(c) == <<c, "MCA">>
Cpe == <<0, "CPE">>
Index == 0 .. RecordDepth - 1
Id == 1 .. MaxId

VARIABLES
    bank,         \* bank[b]: the ring of records of bank b
    hub,          \* next_record_id, mca_entry # 0, cpu_online, cpe_vector # 0
    work,         \* work[c]: requests queued for processor c
    pal,          \* pal[c]: machine-check state of processor c
    fw,           \* fw[c]: where processor c's software is
    osMca,        \* an OS_MCA handler is registered with SAL
    cpeIrq,       \* the CPE vector is requested at processor 0
    seen,         \* history: records at the head of their bank when the
                  \*   machine check was entered, or present when the CPE
                  \*   interrupt was accepted
    done,         \* history: records cleared by the handler of their own
                  \*   machine check
    untidy,       \* history: processors that resumed with a record they were
                  \*   shown still in the bank
    resets        \* system resets so far

history == <<seen, done, untidy>>
vars == <<bank, hub, work, pal, fw, osMca, cpeIrq, history, resets>>

NoMca == [pending |-> 0, active |-> 0, mc |-> FALSE, saved |-> FALSE]
EmptyBank == [slot |-> [i \in Index |-> 0], head |-> 0, count |-> 0,
              overflow |-> FALSE]

Init ==
    /\ bank = [b \in Bank |-> EmptyBank]
    /\ hub = [next |-> 1, entry |-> FALSE, online |-> {}, cpeVector |-> FALSE]
    /\ work = [c \in CPU |-> <<>>]
    /\ pal = [c \in CPU |-> NoMca]
    /\ fw = [c \in CPU |-> "reset"]
    /\ osMca = FALSE
    /\ cpeIrq = FALSE
    /\ seen = {} /\ done = {} /\ untidy = {}
    /\ resets = 0

-----------------------------------------------------------------------------
(* The banks.                                                              *)

At(k, i) == k.slot[(k.head + i) % RecordDepth]
Records(k) == {At(k, i) : i \in 0 .. k.count - 1}
HeadId(k) == At(k, 0)

\* ia64_ras_queue_record
Queue(k, id) ==
    IF k.count = RecordDepth
    THEN [k EXCEPT !.overflow = TRUE]
    ELSE [k EXCEPT !.slot[(k.head + k.count) % RecordDepth] = id,
                   !.count = @ + 1]

\* Mutant: the head of an empty ring stays where it was.
PopKeepsHead(k) ==
    IF k.count = 0 THEN k
    ELSE [slot |-> [k.slot EXCEPT ![k.head] = 0],
          head |-> (k.head + 1) % RecordDepth,
          count |-> k.count - 1,
          overflow |-> k.overflow /\ k.count > 1]

\* ia64_ras_pop_record
Pop(k) ==
    IF k.count = 0 THEN k
    ELSE [slot |-> [k.slot EXCEPT ![k.head] = 0],
          head |-> IF k.count = 1 THEN 0 ELSE (k.head + 1) % RecordDepth,
          count |-> k.count - 1,
          overflow |-> k.overflow /\ k.count > 1]

-----------------------------------------------------------------------------
(* Machine-check requests.                                                 *)

\* Mutant: a request for the record being handled is taken as a new one.
RequestMcaAgain(p, id) ==
    IF id # p.pending THEN [p EXCEPT !.pending = id] ELSE p

\* ia64_cpu_request_mca_work
RequestMca(p, id) ==
    IF id # p.active /\ id # p.pending THEN [p EXCEPT !.pending = id] ELSE p

\* Processors that ia64_ras_try_deliver_mca sends the head of their bank to.
Wanted(bk, h) ==
    IF h.entry THEN {c \in h.online : bk[Mca(c)].count > 0} ELSE {}

\* ia64_ras_try_deliver_mca for banks bk and registers h, run by thread t
\* on the machine-check state p.
TryDeliver(t, bk, h, p) ==
    LET targets == Wanted(bk, h) IN
    /\ pal' = [c \in CPU |-> IF c \in targets /\ c = t
                             THEN RequestMca(p[c], HeadId(bk[Mca(c)]))
                             ELSE p[c]]
    /\ work' = [c \in CPU |-> IF c \in targets /\ c # t
                              THEN Append(work[c], HeadId(bk[Mca(c)]))
                              ELSE work[c]]
    /\ \A c \in CPU : Len(work'[c]) <= MaxWork

\* The requests queued for c are run by its thread.
DoWork(c) ==
    /\ work[c] # <<>>
    /\ pal' = [pal EXCEPT ![c] = RequestMca(@, Head(work[c]))]
    /\ work' = [work EXCEPT ![c] = Tail(@)]
    /\ UNCHANGED <<bank, hub, fw, osMca, cpeIrq, history, resets>>

-----------------------------------------------------------------------------
(* Errors.                                                                 *)

\* ia64_ras_hub_report_processor_error (any processor) and
\* ia64_ras_hub_report_chipset_fault (processor 0's bank), not corrected.
ReportMca(c, t) ==
    LET b == Mca(c)
        after == [bank EXCEPT ![b] = Queue(@, hub.next)]
    IN  /\ hub.next <= MaxId
        /\ t = c \/ c = 0
        /\ bank' = after
        /\ hub' = [hub EXCEPT !.next = @ + 1]
        /\ IF bank[b].count = RecordDepth
           THEN UNCHANGED <<pal, work>>
           ELSE TryDeliver(t, after, hub, pal)
        /\ UNCHANGED <<fw, osMca, cpeIrq, history, resets>>

\* A corrected chipset fault.
ReportCpe ==
    /\ hub.next <= MaxId
    /\ bank' = [bank EXCEPT ![Cpe] = Queue(@, hub.next)]
    /\ hub' = [hub EXCEPT !.next = @ + 1]
    /\ cpeIrq' = (cpeIrq \/ (hub.cpeVector /\ bank[Cpe].count < RecordDepth))
    /\ UNCHANGED <<work, pal, fw, osMca, history, resets>>

-----------------------------------------------------------------------------
(* Delivery to a processor.                                                *)

Entered(p) ==
    [p EXCEPT !.pending = 0, !.active = p.pending, !.mc = TRUE]

\* ia64_ras_enter_mca, then firmware_mca_prepare: without an OS_MCA handler
\* the firmware halts the processor.
EnterMca(c) ==
    /\ pal[c].pending # 0 /\ ~pal[c].mc /\ pal[c].active = 0
    /\ pal[c].saved
    /\ pal' = [pal EXCEPT ![c] = Entered(@)]
    /\ fw' = [fw EXCEPT ![c] = IF osMca THEN "handler" ELSE "halted"]
    /\ seen' = seen \union
               (IF bank[Mca(c)].count > 0 THEN {HeadId(bank[Mca(c)])} ELSE {})
    /\ UNCHANGED <<bank, hub, work, osMca, cpeIrq, done, untidy, resets>>

\* The same without a min-state area: the request is dropped.
DropMca(c) ==
    /\ pal[c].pending # 0 /\ ~pal[c].mc /\ pal[c].active = 0
    /\ ~pal[c].saved
    /\ pal' = [pal EXCEPT ![c].pending = 0]
    /\ UNCHANGED <<bank, hub, work, fw, osMca, cpeIrq, history, resets>>

-----------------------------------------------------------------------------
(* Firmware and operating system on processor c.                           *)

\* Processor c starts another translation block: its queue is drained and
\* no machine check is deliverable.
Runs(c) ==
    work[c] = <<>> /\ (pal[c].pending # 0 => pal[c].mc \/ pal[c].active # 0)

\* PAL_MC_REGISTER_MEM, from fw_ras_initialize_cpu
RegisterMem(c) ==
    /\ fw[c] = "reset" /\ Runs(c)
    /\ pal' = [pal EXCEPT ![c].saved = TRUE]
    /\ fw' = [fw EXCEPT ![c] = "registered"]
    /\ UNCHANGED <<bank, hub, work, osMca, cpeIrq, history, resets>>

\* The write of CPU_ONLINE.
CpuOnline(c) ==
    /\ fw[c] = "registered"
    /\ hub' = [hub EXCEPT !.online = @ \union {c}]
    /\ TryDeliver(c, bank, hub', pal)
    /\ fw' = [fw EXCEPT ![c] = IF c = 0 THEN "online" ELSE "os"]
    /\ UNCHANGED <<bank, osMca, cpeIrq, history, resets>>

\* Mutant: records already in the banks are not delivered.
McaEntryQuiet ==
    /\ fw[0] = "online"
    /\ hub' = [hub EXCEPT !.entry = TRUE]
    /\ fw' = [fw EXCEPT ![0] = "os"]
    /\ UNCHANGED <<bank, work, pal, osMca, cpeIrq, history, resets>>

\* The writes of MCA_GP (which deliver nothing while MCA_ENTRY is zero) and
\* of MCA_ENTRY, by processor 0.
McaEntry ==
    /\ fw[0] = "online"
    /\ hub' = [hub EXCEPT !.entry = TRUE]
    /\ TryDeliver(0, bank, hub', pal)
    /\ fw' = [fw EXCEPT ![0] = "os"]
    /\ UNCHANGED <<bank, osMca, cpeIrq, history, resets>>

\* SAL_SET_VECTORS for OS_MCA
SetOsMca ==
    /\ fw[0] = "os" /\ Runs(0) /\ ~osMca
    /\ osMca' = TRUE
    /\ UNCHANGED <<bank, hub, work, pal, fw, cpeIrq, history, resets>>

\* SAL_MC_SET_PARAMS, the write of CPE_VECTOR
SetCpeVector ==
    /\ fw[0] = "os"
    /\ ~hub.cpeVector
    /\ hub' = [hub EXCEPT !.cpeVector = TRUE]
    /\ cpeIrq' = (cpeIrq \/ bank[Cpe].count > 0)
    /\ UNCHANGED <<bank, work, pal, fw, osMca, history, resets>>

\* The operating system accepts the CPE interrupt.
AcceptCpe ==
    /\ fw[0] = "os" /\ Runs(0) /\ cpeIrq
    /\ cpeIrq' = FALSE
    /\ seen' = seen \union Records(bank[Cpe])
    /\ UNCHANGED <<bank, hub, work, pal, fw, osMca, done, untidy, resets>>

\* The operating system masks or unmasks machine checks (where there are
\* any to mask).
WritePsrMc(c) ==
    /\ c \in Faulty
    /\ fw[c] = "os" /\ Runs(c)
    /\ pal' = [pal EXCEPT ![c].mc = ~@]
    /\ UNCHANGED <<bank, hub, work, fw, osMca, cpeIrq, history, resets>>

\* SAL_CLEAR_STATE_INFO: the bank's CLEAR register, for the caller's bank,
\* in a handler or (records of an earlier boot, a CPE) outside one; the bank
\* may be empty.
Clear(c, b) ==
    LET after == [bank EXCEPT ![b] = Pop(@)] IN
    /\ b[1] = c
    /\ fw[c] \in {"os", "handler"}
    /\ bank' = after
    /\ IF b = Mca(c) THEN TryDeliver(c, after, hub, pal)
                     ELSE UNCHANGED <<pal, work>>
    /\ done' = IF bank[b].count > 0
               THEN done \union ({HeadId(bank[b])} \intersect {pal[c].active})
               ELSE done
    /\ UNCHANGED <<hub, fw, osMca, cpeIrq, seen, untidy, resets>>

\* Mutant: the processor stays in the machine check.
ResumeStaysActive(c) ==
    /\ fw[c] = "handler" /\ Runs(c)
    /\ pal' = [pal EXCEPT ![c].mc = FALSE]
    /\ fw' = [fw EXCEPT ![c] = "os"]
    /\ UNCHANGED <<bank, hub, work, osMca, cpeIrq, history, resets>>

\* PAL_MC_RESUME
Resume(c) ==
    /\ fw[c] = "handler" /\ Runs(c)
    /\ pal' = [pal EXCEPT ![c].active = 0, ![c].mc = FALSE]
    /\ fw' = [fw EXCEPT ![c] = "os"]
    /\ untidy' = IF Records(bank[Mca(c)]) \intersect seen # {}
                 THEN untidy \union {c} ELSE untidy
    /\ UNCHANGED <<bank, hub, work, osMca, cpeIrq, seen, done, resets>>

\* A system reset: ia64_ras_hub_reset keeps the banks and next_record_id;
\* the processors start over.  Requests still queued are not withdrawn.
SystemReset ==
    /\ resets < MaxResets
    /\ resets' = resets + 1
    /\ hub' = [hub EXCEPT !.entry = FALSE, !.online = {}, !.cpeVector = FALSE]
    /\ pal' = [c \in CPU |-> NoMca]
    /\ fw' = [c \in CPU |-> "reset"]
    /\ osMca' = FALSE
    /\ cpeIrq' = FALSE
    /\ seen' = {} /\ done' = {} /\ untidy' = {}
    /\ UNCHANGED <<bank, work>>

\* What ia64_ras_hub_post_load asks of a bank.
BankAccepted(k) ==
    /\ k.head < RecordDepth /\ k.count <= RecordDepth
    /\ k.count = 0 => k.head = 0
    /\ LET queued == {(k.head + i) % RecordDepth : i \in 0 .. k.count - 1} IN
       \A i \in Index : (k.slot[i] # 0) <=> i \in queued

\* A snapshot is taken with every queue drained and loaded into a new
\* process; ia64_ras_hub_post_load delivers again.
Reload ==
    /\ \A c \in CPU : work[c] = <<>>
    /\ \A b \in Bank : BankAccepted(bank[b])
    /\ TryDeliver(DEVICE, bank, hub, pal)
    /\ UNCHANGED <<bank, hub, fw, osMca, cpeIrq, history, resets>>

Step(c) ==
    \/ DoWork(c)
    \/ EnterMca(c)
    \/ DropMca(c)
    \/ RegisterMem(c)
    \/ CpuOnline(c)
    \/ WritePsrMc(c)
    \/ \E b \in Bank : Clear(c, b)
    \/ Resume(c)

Next ==
    \/ \E c \in CPU : Step(c)
    \/ \E c \in Faulty, t \in CPU \union {DEVICE} : ReportMca(c, t)
    \/ ReportCpe
    \/ McaEntry
    \/ SetOsMca
    \/ SetCpeVector
    \/ AcceptCpe
    \/ SystemReset
    \/ Reload

Spec == Init /\ [][Next]_vars

\* The threads of processors with errors run: each takes a deliverable machine
\* check, and drains its queue, which other processors cannot keep from being
\* empty again and again (each request takes them a call of SAL).  Of the
\* guest: a handler ends, and machine checks are not masked for ever; other
\* threads' requests delay both but do not stop them.
Fairness ==
    \A c \in Faulty :
        /\ WF_vars(DoWork(c))
        /\ SF_vars(DoWork(c) /\ Len(work[c]) = 1)
        /\ WF_vars(EnterMca(c))
        /\ SF_vars(Resume(c))
        /\ SF_vars(WritePsrMc(c) /\ pal[c].mc)

FairSpec == Spec /\ Fairness

-----------------------------------------------------------------------------
(* Properties.                                                             *)

Rings == [slot : [Index -> 0 .. MaxId], head : Index,
          count : 0 .. RecordDepth, overflow : BOOLEAN]

Hubs == [next : 1 .. MaxId + 1, entry : BOOLEAN, online : SUBSET CPU,
         cpeVector : BOOLEAN]

Pals == [pending : 0 .. MaxId, active : 0 .. MaxId, mc : BOOLEAN, saved : BOOLEAN]

Places == {"reset", "registered", "online", "os", "handler", "halted"}

\* The types of the variables; next_record_id runs one past the last id used.
TypeOK ==
    /\ bank \in [Bank -> Rings]
    /\ hub \in Hubs
    /\ work \in [CPU -> Seq(Id)] /\ \A c \in CPU : Len(work[c]) <= MaxWork
    /\ pal \in [CPU -> Pals]
    /\ fw \in [CPU -> Places]
    /\ osMca \in BOOLEAN /\ cpeIrq \in BOOLEAN
    /\ seen \subseteq Id /\ done \subseteq Id /\ untidy \subseteq CPU
    /\ resets \in 0 .. MaxResets

\* Whatever sequence of errors, clears and resets filled a bank, its records
\* are in the order of their ids and ia64_ras_hub_post_load accepts it.
BanksReload ==
    \A b \in Bank :
        /\ BankAccepted(bank[b])
        /\ \A i, j \in 0 .. bank[b].count - 1 :
               i < j => At(bank[b], i) < At(bank[b], j)

\* No record waits unannounced.  The record at the head of an online
\* processor's MCA bank has a request queued or pending, or a machine check
\* was entered with it at the head; a CPE record has the vector requested or
\* was there when the interrupt was last accepted.
RecordsAnnounced ==
    /\ \A c \in Wanted(bank, hub) :
          \/ HeadId(bank[Mca(c)]) \in seen
          \/ \E i \in DOMAIN work[c] : work[c][i] = HeadId(bank[Mca(c)])
          \/ pal[c].pending # 0
    /\ hub.cpeVector => cpeIrq \/ Records(bank[Cpe]) \subseteq seen

\* A record that the handler of its own machine check cleared raises no
\* second one, although requests for it may still have been queued when it
\* was cleared.
NoReplay == \A c \in CPU : pal[c].pending \notin done

\* A machine-check record of an online processor is entered, unless the
\* processor resumed over an earlier record, was halted by the firmware or
\* reset, or its software cleared the record.
RecordServed ==
    \A c \in Faulty, id \in Id :
        (c \in Wanted(bank, hub) /\ id \in Records(bank[Mca(c)]))
            ~> (\/ id \in seen
                \/ id \notin Records(bank[Mca(c)])
                \/ c \in untidy
                \/ fw[c] \in {"halted", "reset"})

=============================================================================
