------------------------ MODULE RasRendezvousProofs ------------------------
(***************************************************************************)
(* Proofs about RasRendezvous for any set of processors, any machines and  *)
(* any number of machine checks, registrations and snapshots: the hub's    *)
(* registers can be loaded again, and processors counted as arrived are    *)
(* stopped.                                                                *)
(***************************************************************************)
EXTENDS RasRendezvous, TLAPS, WellFoundedInduction

\* A non-empty set of processors has a lowest one.
LEMMA LowestIn ==
    ASSUME NEW S \in SUBSET CPU, S # {}
    PROVE  Lowest(S) \in S
<1> DEFINE R == OpToRel(<, Nat)
<1>0. S \subseteq Nat
  BY CpuAssumption
<1>1. PICK n \in S : \A k \in S : ~(<<k, n>> \in R)
  <2> HIDE DEF R
  <2>1. IsWellFoundedOn(R, Nat)
    BY NatLessThanWellFounded, Zenon DEF R
  <2> QED
    BY <1>0, <2>1, WFMin, Zenon
<1>2. ASSUME NEW k \in S PROVE n <= k
  <2>1. k \in Nat /\ n \in Nat
    BY <1>0
  <2>2. CASE k < n
    <3>1. <<k, n>> \in R
      BY <2>1, <2>2 DEF OpToRel
    <3> QED
      BY <1>1, <3>1, Zenon
  <2> QED
    BY <2>1, <2>2
<1> QED
  BY <1>2 DEF Lowest

-----------------------------------------------------------------------------
(* Type correctness.                                                       *)

LEMMA StartType ==
    ASSUME NEW h \in Registers, word \in Words, StartMemoryWakeup(h)
    PROVE  hub' \in Registers /\ word' \in Words
<1>1. CASE h.mechanism # MEM \/ h.pending = {}
  BY <1>1 DEF StartMemoryWakeup
<1>2. CASE ~(h.mechanism # MEM \/ h.pending = {})
  <2>1. Lowest(h.pending) \in CPU
    BY <1>2, LowestIn DEF Registers
  <2> QED
    BY <1>2, <2>1 DEF StartMemoryWakeup, Registers, Words
<1> QED
  BY <1>1, <1>2

LEMMA ReleaseType ==
    ASSUME hub \in Registers, word \in Words, Release
    PROVE  hub' \in Registers /\ word' \in Words
<1> DEFINE idle == [hub EXCEPT !.active = FALSE, !.required = {}, !.arrived = {}]
<1>1. idle \in Registers /\ [idle EXCEPT !.pending = hub.required] \in Registers
  BY Zenon DEF Registers
<1>2. CASE hub.mechanism = MEM
  BY <1>1, <1>2, StartType DEF Release
<1>3. CASE hub.mechanism # MEM
  BY <1>1, <1>3 DEF Release
<1> QED
  BY <1>2, <1>3

LEMMA AckType ==
    ASSUME hub \in Registers, word \in Words, NEW c \in CPU, WakeupAck(c)
    PROVE  hub' \in Registers /\ word' \in Words
<1>1. [hub EXCEPT !.pending = @ \ {c}] \in Registers
  BY DEF Registers
<1>2. CASE c \in hub.pending /\ c = hub.current
  BY <1>1, <1>2, StartType DEF WakeupAck
<1>3. CASE ~(c \in hub.pending /\ c = hub.current)
  BY <1>3 DEF WakeupAck
<1> QED
  BY <1>2, <1>3

LEMMA ArrivedType ==
    ASSUME hub \in Registers, NEW c \in CPU, Arrived(c)
    PROVE  hub' \in Registers
BY DEF Arrived, Registers

\* Each field of a processor's software can be given a value of its type.
LEMMA SoftwareFields ==
    ASSUME NEW s \in Software
    PROVE  /\ \A v \in PcPlaces :
                 [s EXCEPT !.pc = v] \in Software
           /\ \A v \in PcPlaces, w \in Mechanisms :
                 [s EXCEPT !.pc = v, !.via = w] \in Software
           /\ \A v \in InitPlaces :
                 [s EXCEPT !.init = v] \in Software
BY Zenon DEF Software

LEMMA Places ==
    /\ "run" \in PcPlaces /\ "call" \in PcPlaces /\ "drained" \in PcPlaces
    /\ "wait" \in PcPlaces /\ "woken" \in PcPlaces
    /\ "none" \in InitPlaces /\ "taken" \in InitPlaces
    /\ "handler" \in InitPlaces
    /\ 0 \in Mechanisms /\ INT \in Mechanisms /\ MEM \in Mechanisms
BY DEF PcPlaces, InitPlaces, Mechanisms

LEMMA McaPlacesOf ==
    /\ "none" \in McaPlaces /\ "begin" \in McaPlaces /\ "read" \in McaPlaces
    /\ "wait" \in McaPlaces /\ "init_wait" \in McaPlaces
    /\ "status" \in McaPlaces /\ "cleared" \in McaPlaces
    /\ "alone" \in McaPlaces /\ "failed" \in McaPlaces
    /\ "by_init" \in McaPlaces /\ "by_vector" \in McaPlaces
BY DEF McaPlaces

LEMMA MonarchFields ==
    ASSUME NEW s \in Software
    PROVE  /\ \A v \in McaPlaces :
                 /\ [s EXCEPT !.mca = v] \in Software
                 /\ \A r \in SUBSET CPU :
                       /\ [s EXCEPT !.mca = v, !.req = r] \in Software
                       /\ [s EXCEPT !.req = r, !.mca = v] \in Software
BY Zenon DEF Software

LEMMA TypeInit == Init => TypeOK
<1> SUFFICES ASSUME Init PROVE TypeOK
  OBVIOUS
<1>1. PICK v \in Vectored, m \in Machine :
        /\ hub = [vector |-> v, mechanism |-> 0, value |-> "none",
                  online |-> m.online, active |-> FALSE, fallback |-> FALSE,
                  required |-> {}, arrived |-> {}, pending |-> {},
                  current |-> 0]
        /\ cpu = [c \in CPU |-> Idle(c \in m.monarch \intersect m.online)]
        /\ note = [disorder |-> FALSE, replaced |-> FALSE, byInit |-> {},
                   sets |-> 0, left |-> m.events]
  BY Zenon DEF Init
<1>2. m.online \in SUBSET CPU /\ m.events \in Nat /\ v \in BOOLEAN
  BY <1>1, MachineAssumption, VectorAssumption
<1>3. hub \in Registers
  BY <1>1, <1>2, CpuAssumption, Places DEF Registers
<1>4. ASSUME NEW c \in CPU
      PROVE  Idle(c \in m.monarch \intersect m.online) \in Software
  <2>1. (c \in m.monarch \intersect m.online) \in BOOLEAN
    OBVIOUS
  <2>2. \A b \in BOOLEAN : Idle(b) \in Software
    BY Places, McaPlacesOf DEF Idle, Software
  <2> QED
    BY <2>1, <2>2, Zenon
<1>5. cpu \in [CPU -> Software]
  BY <1>1, <1>4, Zenon
<1>6. note \in Notes
  BY <1>1, <1>2 DEF Notes
<1>7. word \in Words /\ params \in Params /\ irq \in SUBSET CPU
      /\ init \in SUBSET CPU
  BY CpuAssumption, Places DEF Init, Words, Params
<1> QED
  BY <1>3, <1>5, <1>6, <1>7 DEF TypeOK

LEMMA ParticipantType ==
    ASSUME TypeOK, NEW c \in CPU,
           Participant(c) \/ AcceptIrq(c) \/ EnterInit(c)
    PROVE  TypeOK'
<1>0. cpu[c] \in Software /\ params.mechanism \in Mechanisms
  BY DEF TypeOK, Params
<1>1. CASE AcceptIrq(c)
  BY <1>0, <1>1, SoftwareFields, Places, Zenon DEF AcceptIrq, TypeOK
<1>2. CASE RendezRead(c)
  BY <1>0, <1>2, SoftwareFields, Places, Zenon DEF RendezRead, TypeOK
<1>3. CASE RendezArrive(c)
  BY <1>0, <1>3, SoftwareFields, Places, ArrivedType, Zenon DEF RendezArrive, TypeOK
<1>4. CASE WakeByWord(c)
  BY <1>0, <1>4, SoftwareFields, Places, Zenon DEF WakeByWord, TypeOK, Words
<1>5. CASE RendezAck(c)
  BY <1>0, <1>5, SoftwareFields, Places, AckType, Zenon DEF RendezAck, TypeOK
<1>6. CASE WakeByActive(c)
  BY <1>0, <1>6, SoftwareFields, Places, Zenon DEF WakeByActive, TypeOK
<1>7. CASE EnterInit(c)
  BY <1>0, <1>7, SoftwareFields, Places, Zenon DEF EnterInit, TypeOK
<1>8. CASE InitArrive(c)
  <2>1. [note EXCEPT !.byInit = @ \union {c}] \in Notes
    BY DEF TypeOK, Notes
  <2> QED
    BY <1>0, <1>8, <2>1, SoftwareFields, Places, ArrivedType, Zenon DEF InitArrive, TypeOK
<1>9. CASE InitReturn(c)
  BY <1>0, <1>9, SoftwareFields, Places, Zenon DEF InitReturn, TypeOK
<1> QED
  BY <1>1, <1>2, <1>3, <1>4, <1>5, <1>6, <1>7, <1>8, <1>9 DEF Participant

LEMMA DisturbedType ==
    ASSUME note \in Notes, NEW b \in BOOLEAN, Disturbed(b)
    PROVE  note' \in Notes
BY Zenon DEF Disturbed, Notes

LEMMA MonarchType ==
    ASSUME TypeOK, NEW m \in CPU,
           MonarchStep(m) \/ EnterMca(m) \/ ClearMca(m) \/ ResumeMca(m)
    PROVE  TypeOK'
<1>0. /\ cpu[m] \in Software /\ hub.required \in SUBSET CPU
      /\ hub.active \in BOOLEAN /\ hub.vector \in BOOLEAN
      /\ hub.online \in SUBSET CPU /\ hub.arrived \in SUBSET CPU
  BY DEF TypeOK, Registers
<1>1. CASE EnterMca(m)
  <2>1. note' \in Notes
    BY <1>1 DEF EnterMca, TypeOK, Notes
  <2> QED
    BY <1>0, <1>1, <2>1, MonarchFields, McaPlacesOf, Zenon DEF EnterMca, TypeOK
<1>2. CASE MonarchBegin(m)
  <2>1. hub' \in Registers
    BY <1>0, <1>2, ZenonT(60) DEF MonarchBegin, BeginRendezvous, TypeOK, Registers
  <2>2. note' \in Notes
    BY <1>0, <1>2, DisturbedType, Zenon DEF MonarchBegin, TypeOK
  <2>3. cpu' \in [CPU -> Software]
    BY <1>0, <1>2, MonarchFields, McaPlacesOf, Zenon DEF MonarchBegin, TypeOK
  <2> QED
    BY <1>0, <1>2, <2>1, <2>2, <2>3 DEF MonarchBegin, BeginRendezvous, TypeOK
<1>3. CASE MonarchRead(m)
  BY <1>0, <1>3, MonarchFields, McaPlacesOf, Zenon DEF MonarchRead, TypeOK
<1>4. CASE MonarchArrived(m)
  BY <1>0, <1>4, MonarchFields, McaPlacesOf, Zenon DEF MonarchArrived, TypeOK
<1>5. CASE MonarchStatus(m)
  BY <1>0, <1>5, MonarchFields, McaPlacesOf, Zenon DEF MonarchStatus, TypeOK
<1>6. CASE MonarchTimeout(m)
  <2>1. hub' \in Registers
    BY <1>6, Zenon DEF MonarchTimeout, RendezvousInit, TypeOK, Registers
  <2>2. note' \in Notes
    BY <1>6, Zenon DEF MonarchTimeout, TypeOK, Notes
  <2>3. cpu' \in [CPU -> Software]
    BY <1>0, <1>6, MonarchFields, McaPlacesOf, Zenon DEF MonarchTimeout, TypeOK
  <2> QED
    BY <1>0, <1>6, <2>1, <2>2, <2>3 DEF MonarchTimeout, RendezvousInit, TypeOK
<1>7. CASE MonarchGiveUp(m)
  <2>1. note' \in Notes
    BY <1>0, <1>7, DisturbedType, Zenon DEF MonarchGiveUp, TypeOK
  <2>2. cpu' \in [CPU -> Software]
    BY <1>0, <1>7, MonarchFields, McaPlacesOf, Zenon DEF MonarchGiveUp, TypeOK
  <2> QED
    BY <1>7, <2>1, <2>2, ReleaseType DEF MonarchGiveUp, TypeOK
<1>8. CASE ClearMca(m)
  <2>1. note' \in Notes
    BY <1>0, <1>8, DisturbedType, Zenon DEF ClearMca, TypeOK
  <2>2. cpu' \in [CPU -> Software]
    <3>1. [cpu[m] EXCEPT !.mca = "cleared"] \in Software
      BY <1>0, MonarchFields, McaPlacesOf, Zenon
    <3>2. cpu' = cpu \/ cpu' = [cpu EXCEPT ![m] = [cpu[m] EXCEPT !.mca = "cleared"]]
      BY <1>0, <1>8, Zenon DEF ClearMca, TypeOK, Software
    <3> QED
      BY <3>1, <3>2 DEF TypeOK
  <2> QED
    BY <1>8, <2>1, <2>2, ReleaseType DEF ClearMca, TypeOK
<1>9. CASE ResumeMca(m)
  BY <1>0, <1>9, MonarchFields, McaPlacesOf, Zenon DEF ResumeMca, TypeOK
<1> QED
  BY <1>1, <1>2, <1>3, <1>4, <1>5, <1>6, <1>7, <1>8, <1>9 DEF MonarchStep

LEMMA OtherType ==
    ASSUME TypeOK,
           \/ \E c \in CPU, mechanism \in {INT, MEM} : SetParams(c, mechanism)
           \/ SetMechanism
           \/ SetValue
           \/ Reload
    PROVE  TypeOK'
<1>1. ASSUME NEW c \in CPU, NEW mechanism \in {INT, MEM},
             SetParams(c, mechanism)
      PROVE  TypeOK'
  <2>1. params' \in Params
    BY <1>1 DEF SetParams, TypeOK, Params, Mechanisms
  <2>2. note' \in Notes
    <3>1. note.sets + 1 \in Nat
      BY DEF TypeOK, Notes
    <3>2. (note.disorder \/ (~AtRest /\ MEM \in {params.mechanism, mechanism}))
            \in BOOLEAN
      BY Zenon DEF TypeOK, Notes
    <3> QED
      BY <1>1, <3>1, <3>2, Zenon DEF SetParams, TypeOK, Notes
  <2> QED
    BY <1>1, <2>1, <2>2 DEF SetParams, TypeOK
<1>2. CASE SetMechanism
  <2>1. hub' \in Registers
    BY <1>2, Zenon DEF SetMechanism, TypeOK, Registers, Params
  <2>2. params' \in Params
    BY <1>2, Zenon DEF SetMechanism, TypeOK, Params
  <2>3. note' \in Notes
    BY <1>2, Zenon DEF SetMechanism, TypeOK, Notes
  <2> QED
    BY <1>2, <2>1, <2>2, <2>3 DEF SetMechanism, TypeOK
<1>4. CASE SetValue
  <2>1. hub' \in Registers
    BY <1>4, Zenon DEF SetValue, TypeOK, Registers
  <2>2. params' \in Params
    BY <1>4, CpuAssumption, Zenon DEF SetValue, TypeOK, Params
  <2>3. note' \in Notes
    BY <1>4, Zenon DEF SetValue, TypeOK, Notes
  <2> QED
    BY <1>4, <2>1, <2>2, <2>3 DEF SetValue, TypeOK
<1>3. CASE Reload
  <2>1. hub' \in Registers /\ word' \in Words
    BY <1>3, StartType DEF Reload, TypeOK
  <2>2. note' \in Notes
    <3>1. note.left - 1 \in Nat
      BY <1>3 DEF Reload, TypeOK, Notes
    <3>2. (note.disorder \/ ByMemory) \in BOOLEAN
      OBVIOUS
    <3> QED
      BY <1>3, <3>1, <3>2, Zenon DEF Reload, TypeOK, Notes
  <2>3. hub.required \in SUBSET CPU
    BY DEF TypeOK, Registers
  <2>4. init' \in SUBSET CPU /\ irq' \in SUBSET CPU
    BY <1>3, <2>3 DEF Reload, TypeOK
  <2> QED
    BY <1>3, <2>1, <2>2, <2>4 DEF Reload, TypeOK
<1> QED
  BY <1>1, <1>2, <1>3, <1>4

LEMMA TypeStep == TypeOK /\ [Next]_vars => TypeOK'
<1> SUFFICES ASSUME TypeOK, [Next]_vars PROVE TypeOK'
  OBVIOUS
<1>1. CASE UNCHANGED vars
  BY <1>1 DEF vars, TypeOK
<1>2. CASE Next
  BY <1>2, ParticipantType, MonarchType, OtherType DEF Next
<1> QED
  BY <1>1, <1>2

-----------------------------------------------------------------------------
(* The inductive invariant.                                                *)

\* The registers agree with the registration once WAKEUP_MECHANISM is written,
\* and with each other unless the memory word was replaced.
Registered ==
    /\ params.writing # "none" => params.mechanism \in {INT, MEM}
    /\ params.writing # "mechanism" => hub.mechanism = params.mechanism
    /\ ~note.replaced /\ hub.mechanism # MEM
         => hub.value # "address" /\ hub.pending = {}
    /\ ~note.replaced /\ hub.pending # {} => hub.current \in hub.pending

Inside == {"drained", "wait", "woken"}

\* Software in the rendezvous uses the registered mechanism, and only a
\* monarch with others to stop begins one.
Calls ==
    \A c \in CPU :
        /\ ~note.disorder /\ cpu[c].pc \in Inside
             => cpu[c].via = params.mechanism /\ params.mechanism # 0
        /\ ~note.disorder /\ cpu[c].pc = "woken" => params.mechanism = MEM
        /\ cpu[c].mca = "begin" => hub.online \ {c} # {}

\* Between two rendezvous nobody has taken an INIT for one,
Fresh == ~hub.active => note.byInit = {}

\* and without the memory word nothing of its wake-up is left.
Zero == ~note.disorder /\ ~ByMemory => word = 0 /\ hub.pending = {}

Orderly == ByMemory /\ ~note.disorder

Stops == {"read", "wait", "status", "by_vector"}

\* While every rendezvous has run its full course nobody takes an INIT,
\* the word names the processor it wakes, and all it has to wake are waiting;
OrderedWakeup(c) ==
    /\ cpu[c].init = "none"
    /\ word = c + 1 => c \in hub.pending /\ c = hub.current /\ cpu[c].pc = "wait"
    /\ cpu[c].pc = "woken" => c \in hub.pending /\ c = hub.current /\ word = 0
    /\ c \in hub.pending => cpu[c].pc \in {"wait", "woken"} /\ c \notin hub.arrived

\* at most one monarch is between BEGIN and RELEASE;
OrderedMonarch(c) ==
    /\ cpu[c].mca \in Stops => hub.active /\ hub.required = hub.online \ {c}
    /\ cpu[c].mca \in {"wait", "status", "by_vector"} => cpu[c].req = hub.required
    /\ cpu[c].mca \in {"status", "by_vector"} => hub.required \subseteq hub.arrived
    /\ cpu[c].mca # "init_wait"
    /\ \A d \in CPU : cpu[c].mca \in Stops /\ cpu[d].mca \in Stops => c = d

\* and nobody is in a rendezvous while a registration is being written.
OrderedWriting ==
    params.writing # "none" =>
        /\ ~hub.active /\ hub.pending = {}
        /\ \A c \in CPU : cpu[c].pc \notin Inside

OrderedAll ==
    /\ init = {} /\ note.byInit = {}
    /\ OrderedWriting
    /\ \A c \in CPU : OrderedWakeup(c)
    /\ \A c \in CPU : OrderedMonarch(c)

Ordered == Orderly => OrderedAll

IInv ==
    /\ TypeOK
    /\ RendezvousAccepted(hub)
    /\ Registered
    /\ Calls
    /\ Fresh
    /\ Zero
    /\ Ordered
    /\ ArrivedWaits

LEMMA InvInit == Init => IInv
<1> SUFFICES ASSUME Init PROVE IInv
  OBVIOUS
<1>1. TypeOK
  BY TypeInit
<1>2. /\ hub.mechanism = 0 /\ hub.value = "none" /\ ~hub.active
      /\ hub.required = {} /\ hub.arrived = {} /\ hub.pending = {}
      /\ ~note.disorder /\ note.byInit = {}
      /\ word = 0 /\ init = {}
      /\ params.mechanism = 0 /\ params.writing = "none"
  BY DEF Init
<1>3. \A c \in CPU : /\ cpu[c].pc = "run" /\ cpu[c].mca = "none"
                     /\ cpu[c].init = "none"
  BY DEF Init, Idle
<1>4. RendezvousAccepted(hub) /\ Registered
  BY <1>2 DEF RendezvousAccepted, Registered
<1>5. Calls /\ Fresh /\ Zero
  BY <1>2, <1>3 DEF Calls, Fresh, Zero, Inside
<1>6. Ordered /\ ArrivedWaits
  BY <1>2 DEF Ordered, Orderly, ByMemory, ArrivedWaits, MEM
<1> QED
  BY <1>1, <1>4, <1>5, <1>6 DEF IInv

\* Nobody but c moves.
Others(c) == \A d \in CPU : d # c => cpu'[d] = cpu[d]

\* What the invariant says of the notes stays.
NotesKept ==
    /\ note'.disorder = note.disorder
    /\ note'.byInit = note.byInit
    /\ note'.replaced = note.replaced

PcKept(c) == cpu'[c].pc = cpu[c].pc /\ cpu'[c].via = cpu[c].via
McaKept(c) == cpu'[c].mca = cpu[c].mca /\ cpu'[c].req = cpu[c].req
InitKept(c) == cpu'[c].init = cpu[c].init

\* A step by which processor c alone goes on, outside the waits and outside
\* what lies between BEGIN and RELEASE.
LEMMA LocalStep ==
    ASSUME IInv, TypeOK', NEW c \in CPU,
           UNCHANGED <<hub, word, init, params>>, NotesKept, Others(c),
           \/ PcKept(c)
           \/ /\ cpu[c].pc \in {"run", "call"}
              /\ \/ cpu'[c].pc \in {"run", "call"}
                 \/ /\ cpu'[c].pc = "drained" /\ cpu'[c].via = params.mechanism
                    /\ params.mechanism # 0 /\ hub.active,
           InitKept(c) \/ cpu'[c].init = "none",
           \/ McaKept(c)
           \/ /\ cpu'[c].mca \in {"none", "alone", "failed", "begin"}
              /\ cpu'[c].mca = "begin" => hub.online \ {c} # {}
    PROVE  IInv'
<1> USE DEF PcKept, McaKept, InitKept, NotesKept
<1>1. RendezvousAccepted(hub)' /\ Registered'
  BY DEF IInv, RendezvousAccepted, Registered
<1>2. Calls'
  <2>1. \A d \in CPU : d # c => cpu'[d] = cpu[d]
    BY DEF Others
  <2>2. hub' = hub /\ params' = params /\ note'.disorder = note.disorder
    OBVIOUS
  <2> QED
    BY <2>1, <2>2 DEF IInv, Calls, Inside
<1>3. Fresh' /\ Zero'
  BY DEF IInv, Fresh, Zero, ByMemory
<1>4. Ordered'
  <2> SUFFICES ASSUME Orderly' PROVE OrderedAll'
    BY DEF Ordered
  <2>1. OrderedAll
    BY DEF IInv, Ordered, Orderly, ByMemory
  <2>4. OrderedWriting'
    BY <2>1 DEF OrderedAll, OrderedWriting, Others, Inside
  <2>2. \A d \in CPU : OrderedWakeup(d)'
    BY <2>1 DEF OrderedAll, OrderedWakeup, Others
  <2>3. \A d \in CPU : OrderedMonarch(d)'
    BY <2>1 DEF OrderedAll, OrderedMonarch, Others, Stops
  <2> QED
    BY <2>1, <2>2, <2>3, <2>4 DEF OrderedAll
<1>5. ArrivedWaits'
  BY DEF IInv, ArrivedWaits, Others
<1> QED
  BY <1>1, <1>2, <1>3, <1>4, <1>5 DEF IInv

LEMMA LocalActions ==
    ASSUME IInv, TypeOK', NEW c \in CPU,
           \/ AcceptIrq(c) \/ RendezRead(c) \/ InitReturn(c)
           \/ EnterMca(c) \/ ResumeMca(c)
    PROVE  IInv'
<1> USE DEF PcKept, McaKept, InitKept, NotesKept, Others
<1>0. cpu \in [CPU -> Software]
  BY DEF IInv, TypeOK
<1>1. CASE AcceptIrq(c)
  <2>1. /\ cpu[c].pc = "run" /\ cpu'[c].pc = "call"
        /\ McaKept(c) /\ InitKept(c) /\ Others(c) /\ NotesKept
    BY <1>0, <1>1 DEF AcceptIrq, Software
  <2> QED
    BY <1>1, <2>1, LocalStep DEF AcceptIrq
<1>2. CASE RendezRead(c)
  <2>1. /\ cpu[c].pc = "call"
        /\ \/ cpu'[c].pc = "run"
           \/ /\ cpu'[c].pc = "drained" /\ cpu'[c].via = params.mechanism
              /\ params.mechanism # 0 /\ hub.active
        /\ McaKept(c) /\ InitKept(c) /\ Others(c) /\ NotesKept
    BY <1>0, <1>2 DEF RendezRead, Software
  <2>2. UNCHANGED <<hub, word, init, params>>
    BY <1>2 DEF RendezRead
  <2> HIDE DEF PcKept, McaKept, InitKept, NotesKept, Others
  <2> QED
    BY <2>1, <2>2, LocalStep
<1>3. CASE InitReturn(c)
  <2>1. /\ cpu'[c].init = "none"
        /\ McaKept(c) /\ PcKept(c) /\ Others(c) /\ NotesKept
    BY <1>0, <1>3 DEF InitReturn, Software
  <2> QED
    BY <1>3, <2>1, LocalStep DEF InitReturn
<1>4. CASE EnterMca(c)
  <2>1. PcKept(c) /\ InitKept(c) /\ Others(c)
    BY <1>0, <1>4 DEF EnterMca, Software
  <2>2. /\ cpu'[c].mca \in {"none", "alone", "failed", "begin"}
        /\ cpu'[c].mca = "begin" => hub.online # {c}
    BY <1>0, <1>4 DEF EnterMca, Software
  <2>3. hub.online # {c} => hub.online \ {c} # {}
    BY <1>4 DEF EnterMca, Interruptible
  <2>4. NotesKept
    BY <1>4 DEF EnterMca, IInv, TypeOK, Notes
  <2>5. UNCHANGED <<hub, word, init, params>>
    BY <1>4 DEF EnterMca
  <2>6. cpu'[c].mca = "begin" => hub.online \ {c} # {}
    BY <2>2, <2>3
  <2> HIDE DEF PcKept, McaKept, InitKept, NotesKept, Others
  <2> QED
    BY <2>1, <2>2, <2>4, <2>5, <2>6, LocalStep
<1>5. CASE ResumeMca(c)
  <2>1. /\ cpu'[c].mca = "none"
        /\ InitKept(c) /\ PcKept(c) /\ Others(c) /\ NotesKept
    BY <1>0, <1>5 DEF ResumeMca, Software
  <2> QED
    BY <1>5, <2>1, LocalStep, Zenon DEF ResumeMca
<1> QED
  BY <1>1, <1>2, <1>3, <1>4, <1>5

-----------------------------------------------------------------------------
(* The participants.                                                       *)

LEMMA ArriveInv ==
    ASSUME IInv, TypeOK', NEW c \in CPU, RendezArrive(c)
    PROVE  IInv'
<1>1. /\ cpu[c].pc = "drained" /\ cpu'[c].pc = "wait"
      /\ cpu'[c].via = cpu[c].via /\ McaKept(c) /\ InitKept(c) /\ Others(c)
  BY DEF RendezArrive, IInv, TypeOK, Software, McaKept, InitKept, Others
<1>2. /\ hub'.mechanism = hub.mechanism /\ hub'.value = hub.value
      /\ hub'.online = hub.online /\ hub'.active = hub.active
      /\ hub'.required = hub.required /\ hub'.pending = hub.pending
      /\ hub'.current = hub.current
      /\ hub'.arrived \in {hub.arrived,
                           hub.arrived \union ({c} \intersect hub.required)}
      /\ UNCHANGED <<word, init, params, note>>
  BY DEF RendezArrive, Arrived, IInv, TypeOK, Registers
<1>3. RendezvousAccepted(hub)' /\ Registered'
  BY <1>2 DEF IInv, RendezvousAccepted, Registered
<1>4. Calls'
  BY <1>1, <1>2 DEF IInv, Calls, Inside, McaKept, Others
<1>5. Fresh' /\ Zero'
  BY <1>2 DEF IInv, Fresh, Zero, ByMemory
<1>6. Ordered'
  <2> SUFFICES ASSUME Orderly' PROVE OrderedAll'
    BY DEF Ordered
  <2>1. OrderedAll
    BY <1>2 DEF IInv, Ordered, Orderly, ByMemory
  <2>2. c \notin hub.pending /\ word # c + 1
    BY <1>1, <2>1 DEF OrderedAll, OrderedWakeup
  <2>3. \A d \in CPU : OrderedWakeup(d)'
    BY <1>1, <1>2, <2>1, <2>2 DEF OrderedAll, OrderedWakeup, InitKept, Others
  <2>4. \A d \in CPU : OrderedMonarch(d)'
    BY <1>1, <1>2, <2>1 DEF OrderedAll, OrderedMonarch, McaKept, Others
  <2>5. OrderedWriting'
    BY <1>1, <1>2, <2>1 DEF OrderedAll, OrderedWriting, Inside
  <2> QED
    BY <1>2, <2>1, <2>3, <2>4, <2>5 DEF OrderedAll
<1>7. ArrivedWaits'
  BY <1>1, <1>2 DEF IInv, ArrivedWaits, Others
<1> QED
  BY <1>3, <1>4, <1>5, <1>6, <1>7 DEF IInv

LEMMA WordInv ==
    ASSUME IInv, TypeOK', NEW c \in CPU, WakeByWord(c)
    PROVE  IInv'
<1>1. /\ cpu[c].pc = "wait" /\ cpu[c].via = MEM /\ cpu'[c].pc = "woken"
      /\ cpu'[c].via = cpu[c].via /\ McaKept(c) /\ InitKept(c) /\ Others(c)
      /\ word = c + 1 /\ word' = 0 /\ UNCHANGED <<hub, init, params, note>>
  BY DEF WakeByWord, IInv, TypeOK, Software, McaKept, InitKept, Others
<1>2. ~note.disorder => Orderly /\ params.mechanism = MEM
  BY <1>1 DEF IInv, Calls, Inside, Orderly, ByMemory
<1>3. RendezvousAccepted(hub)' /\ Registered'
  BY <1>1 DEF IInv, RendezvousAccepted, Registered
<1>4. Calls'
  BY <1>1, <1>2 DEF IInv, Calls, Inside, McaKept, Others
<1>5. Fresh' /\ Zero'
  BY <1>1, <1>2 DEF IInv, Fresh, Zero, ByMemory
<1>6. Orderly => OrderedAll /\ c \in hub.pending /\ c = hub.current
                 /\ c \notin hub.arrived
  BY <1>1 DEF IInv, Ordered, OrderedAll, OrderedWakeup
<1>7. Ordered'
  <2> SUFFICES ASSUME Orderly' PROVE OrderedAll'
    BY DEF Ordered
  <2>1. OrderedAll /\ c \in hub.pending /\ c = hub.current
    BY <1>1, <1>6 DEF Orderly, ByMemory
  <2>2. \A d \in CPU : d + 1 # 0
    BY CpuAssumption
  <2>3. \A d \in CPU : OrderedWakeup(d)'
    BY <1>1, <2>1, <2>2 DEF OrderedAll, OrderedWakeup, InitKept, Others
  <2>4. \A d \in CPU : OrderedMonarch(d)'
    BY <1>1, <2>1 DEF OrderedAll, OrderedMonarch, McaKept, Others
  <2>5. OrderedWriting'
    BY <1>1, <2>1 DEF OrderedAll, OrderedWriting, Inside
  <2> QED
    BY <1>1, <2>1, <2>3, <2>4, <2>5 DEF OrderedAll
<1>8. ArrivedWaits'
  BY <1>1, <1>2, <1>6 DEF IInv, ArrivedWaits, Others
<1> QED
  BY <1>3, <1>4, <1>5, <1>7, <1>8 DEF IInv

LEMMA ActiveInv ==
    ASSUME IInv, TypeOK', NEW c \in CPU, WakeByActive(c)
    PROVE  IInv'
<1>1. /\ cpu[c].pc = "wait" /\ cpu[c].via # MEM /\ cpu'[c].pc = "run"
      /\ McaKept(c) /\ InitKept(c) /\ Others(c)
      /\ ~hub.active /\ UNCHANGED <<hub, word, init, params, note>>
  BY DEF WakeByActive, IInv, TypeOK, Software, McaKept, InitKept, Others
<1>2. ~note.disorder => params.mechanism # MEM
  BY <1>1 DEF IInv, Calls, Inside
<1>3. RendezvousAccepted(hub)' /\ Registered'
  BY <1>1 DEF IInv, RendezvousAccepted, Registered
<1>4. Calls'
  BY <1>1 DEF IInv, Calls, Inside, McaKept, Others
<1>5. Fresh' /\ Zero' /\ ArrivedWaits'
  BY <1>1 DEF IInv, Fresh, Zero, ByMemory, ArrivedWaits
<1>6. ~Orderly
  <2> SUFFICES ASSUME Orderly PROVE FALSE
    OBVIOUS
  <2>1. OrderedAll /\ hub.mechanism # params.mechanism
    BY <1>2 DEF IInv, Ordered, Orderly, ByMemory
  <2>2. params.writing # "none"
    BY <2>1 DEF IInv, Registered
  <2> QED
    BY <1>1, <2>1, <2>2 DEF OrderedAll, OrderedWriting, Inside
<1>7. Ordered'
  BY <1>1, <1>6 DEF Ordered, Orderly, ByMemory
<1> QED
  BY <1>3, <1>4, <1>5, <1>7 DEF IInv

\* What a register write leaves of the registers it does not change.
SetupKept(h) ==
    /\ hub'.mechanism = h.mechanism /\ hub'.value = h.value
    /\ hub'.online = h.online
RoundKept(h) ==
    /\ hub'.active = h.active /\ hub'.required = h.required
    /\ hub'.arrived = h.arrived

\* Starting the memory wake-up sets the current processor, and nothing else
\* but perhaps the word.
LEMMA StartEffect ==
    ASSUME NEW h \in Registers, StartMemoryWakeup(h)
    PROVE  /\ SetupKept(h) /\ RoundKept(h) /\ hub'.pending = h.pending
           /\ \/ /\ h.mechanism = MEM /\ hub'.current \in h.pending
                 /\ word' = word \/ word' = hub'.current + 1
              \/ /\ h.mechanism # MEM \/ h.pending = {}
                 /\ hub'.current = h.current /\ word' = word
<1>1. CASE h.mechanism # MEM \/ h.pending = {}
  BY <1>1 DEF StartMemoryWakeup, SetupKept, RoundKept
<1>2. CASE h.mechanism = MEM /\ h.pending # {}
  <2>1. Lowest(h.pending) \in h.pending
    BY <1>2, LowestIn DEF Registers
  <2>2. /\ hub' = [h EXCEPT !.current = Lowest(h.pending)]
        /\ word' = word \/ word' = Lowest(h.pending) + 1
    BY <1>2 DEF StartMemoryWakeup
  <2> HIDE DEF Lowest
  <2> QED
    BY <1>2, <2>1, <2>2 DEF Registers, SetupKept, RoundKept
<1> QED
  BY <1>1, <1>2

LEMMA AckEffect ==
    ASSUME hub \in Registers, NEW c \in CPU, WakeupAck(c)
    PROVE  /\ SetupKept(hub) /\ RoundKept(hub)
           /\ \/ /\ c \in hub.pending /\ c = hub.current
                 /\ hub'.pending = hub.pending \ {c}
                 /\ \/ /\ hub'.current \in hub'.pending
                       /\ word' = word \/ word' = hub'.current + 1
                    \/ /\ hub.mechanism # MEM \/ hub'.pending = {}
                       /\ word' = word
              \/ /\ ~(c \in hub.pending /\ c = hub.current)
                 /\ UNCHANGED <<hub, word>>
<1>1. CASE c \in hub.pending /\ c = hub.current
  <2> DEFINE h == [hub EXCEPT !.pending = @ \ {c}]
  <2>1. /\ h \in Registers /\ h.mechanism = hub.mechanism /\ h.value = hub.value
        /\ h.online = hub.online /\ h.active = hub.active
        /\ h.required = hub.required /\ h.arrived = hub.arrived
        /\ h.pending = hub.pending \ {c}
    BY DEF Registers
  <2>2. StartMemoryWakeup(h)
    BY <1>1 DEF WakeupAck
  <2> HIDE DEF h
  <2> QED
    BY <1>1, <2>1, <2>2, StartEffect DEF SetupKept, RoundKept
<1>2. CASE ~(c \in hub.pending /\ c = hub.current)
  BY <1>2 DEF WakeupAck, SetupKept, RoundKept
<1> QED
  BY <1>1, <1>2

LEMMA ReleaseEffect ==
    ASSUME hub \in Registers, Release
    PROVE  /\ SetupKept(hub) /\ ~hub'.active /\ hub'.required = {}
           /\ hub'.arrived = {}
           /\ \/ /\ hub.mechanism = MEM /\ hub'.pending = hub.required
                 /\ \/ /\ hub'.current \in hub'.pending
                       /\ word' = word \/ word' = hub'.current + 1
                    \/ hub'.pending = {} /\ word' = word
              \/ /\ hub.mechanism # MEM /\ hub'.pending = hub.pending
                 /\ hub'.current = hub.current /\ word' = word
<1> DEFINE h == [hub EXCEPT !.active = FALSE, !.required = {}, !.arrived = {}]
           g == [h EXCEPT !.pending = hub.required]
<1>1. /\ h.mechanism = hub.mechanism /\ h.value = hub.value
      /\ h.online = hub.online /\ h.active = FALSE /\ h.required = {}
      /\ h.arrived = {} /\ h.pending = hub.pending /\ h.current = hub.current
  BY DEF Registers
<1>2. /\ g \in Registers /\ g.mechanism = hub.mechanism /\ g.value = hub.value
      /\ g.online = hub.online /\ g.active = FALSE /\ g.required = {}
      /\ g.arrived = {} /\ g.pending = hub.required
  BY Zenon DEF Registers
<1>3. CASE hub.mechanism = MEM
  <2>1. StartMemoryWakeup(g)
    BY <1>3 DEF Release
  <2> HIDE DEF h, g
  <2> QED
    BY <1>2, <1>3, <2>1, StartEffect DEF SetupKept, RoundKept
<1>4. CASE hub.mechanism # MEM
  <2>1. hub' = h /\ word' = word
    BY <1>4 DEF Release
  <2> HIDE DEF h, g
  <2> QED
    BY <1>1, <1>4, <2>1 DEF SetupKept
<1> QED
  BY <1>3, <1>4

LEMMA AckInv ==
    ASSUME IInv, TypeOK', NEW c \in CPU, RendezAck(c)
    PROVE  IInv'
<1>0. hub \in Registers /\ WakeupAck(c)
  BY DEF IInv, TypeOK, RendezAck
<1>1. /\ cpu[c].pc = "woken" /\ cpu'[c].pc = "run"
      /\ McaKept(c) /\ InitKept(c) /\ Others(c)
      /\ UNCHANGED <<init, params, note>>
  BY DEF RendezAck, IInv, TypeOK, Software, McaKept, InitKept, Others
<1>2. ~note.disorder => Orderly /\ params.mechanism = MEM
  BY <1>1 DEF IInv, Calls, Orderly, ByMemory
<1>3. SetupKept(hub) /\ RoundKept(hub)
  BY <1>0, AckEffect
<1>4. /\ hub'.pending \subseteq hub.pending
      /\ ~note.replaced /\ hub'.pending # {} => hub'.current \in hub'.pending
  BY <1>0, AckEffect DEF IInv, Registered
<1>5. RendezvousAccepted(hub)' /\ Registered'
  BY <1>1, <1>3, <1>4
     DEF IInv, RendezvousAccepted, Registered, SetupKept, RoundKept
<1>6. Calls'
  BY <1>1, <1>3 DEF IInv, Calls, Inside, McaKept, Others, SetupKept
<1>7. Fresh' /\ Zero'
  BY <1>1, <1>2, <1>3 DEF IInv, Fresh, Zero, ByMemory, RoundKept
<1>8. Ordered'
  <2> SUFFICES ASSUME Orderly' PROVE OrderedAll'
    BY DEF Ordered
  <2>1. OrderedAll
    BY <1>1, <1>2 DEF IInv, Ordered, Orderly
  <2>2. c \in hub.pending /\ c = hub.current /\ word = 0
    BY <1>1, <2>1 DEF OrderedAll, OrderedWakeup
  <2>3. /\ hub'.pending = hub.pending \ {c}
        /\ \/ word' = 0
           \/ hub'.current \in hub'.pending /\ word' = hub'.current + 1
    BY <1>0, <2>2, AckEffect
  <2>4. \A d \in CPU : word' = d + 1 => d = hub'.current /\ d \in hub'.pending
    <3>1. hub'.current \in Nat /\ \A d \in CPU : d \in Nat
      BY CpuAssumption, Zenon DEF TypeOK, Registers
    <3> QED
      BY <2>3, <3>1
  <2>5. \A d \in CPU : d \in hub'.pending => cpu'[d].pc = "wait"
    BY <1>1, <2>1, <2>2, <2>3 DEF OrderedAll, OrderedWakeup, Others
  <2>6. \A d \in CPU : cpu'[d].pc # "woken"
    BY <1>1, <2>1, <2>2 DEF OrderedAll, OrderedWakeup, Others
  <2>7. \A d \in CPU : OrderedWakeup(d)'
    BY <1>1, <1>3, <1>4, <2>1, <2>4, <2>5, <2>6, SMTT(30)
       DEF OrderedAll, OrderedWakeup, InitKept, Others, RoundKept
  <2>8. \A d \in CPU : OrderedMonarch(d)'
    BY <1>1, <1>3, <2>1, SMTT(30)
       DEF OrderedAll, OrderedMonarch, McaKept, Others, SetupKept, RoundKept
  <2>9. OrderedWriting'
    BY <1>1, <2>1 DEF OrderedAll, OrderedWriting, Inside
  <2> QED
    BY <1>1, <2>1, <2>7, <2>8, <2>9 DEF OrderedAll
<1>9. ArrivedWaits'
  <2>1. Orderly => c \in hub.pending /\ c \notin hub.arrived
    BY <1>1 DEF IInv, Ordered, OrderedAll, OrderedWakeup
  <2> QED
    BY <1>1, <1>2, <1>3, <2>1
       DEF IInv, ArrivedWaits, Others, RoundKept
<1> QED
  BY <1>5, <1>6, <1>7, <1>8, <1>9 DEF IInv

LEMMA EnterInitInv ==
    ASSUME IInv, TypeOK', NEW c \in CPU, EnterInit(c)
    PROVE  IInv'
<1>1. /\ c \in init /\ init' = init \ {c}
      /\ PcKept(c) /\ McaKept(c) /\ Others(c)
      /\ UNCHANGED <<hub, word, params, note>>
  BY DEF EnterInit, IInv, TypeOK, Software, PcKept, McaKept, Others
<1>2. ~Orderly
  BY <1>1 DEF IInv, Ordered, OrderedAll
<1>3. RendezvousAccepted(hub)' /\ Registered'
  BY <1>1 DEF IInv, RendezvousAccepted, Registered
<1>4. Calls' /\ ArrivedWaits'
  BY <1>1 DEF IInv, Calls, ArrivedWaits, Inside, PcKept, McaKept, Others
<1>5. Fresh' /\ Zero' /\ Ordered'
  BY <1>1, <1>2 DEF IInv, Fresh, Zero, Ordered, Orderly, ByMemory
<1> QED
  BY <1>3, <1>4, <1>5 DEF IInv

LEMMA InitArriveInv ==
    ASSUME IInv, TypeOK', NEW c \in CPU, InitArrive(c)
    PROVE  IInv'
<1>1. /\ cpu[c].init = "taken"
      /\ PcKept(c) /\ McaKept(c) /\ Others(c)
      /\ UNCHANGED <<word, init, params>>
  BY DEF InitArrive, IInv, TypeOK, Software, PcKept, McaKept, Others
<1>2. /\ SetupKept(hub) /\ hub'.active = hub.active
      /\ hub'.required = hub.required /\ hub'.pending = hub.pending
      /\ hub'.current = hub.current
      /\ hub'.arrived = IF hub.active
                        THEN hub.arrived \union ({c} \intersect hub.required)
                        ELSE hub.arrived
  BY DEF InitArrive, Arrived, IInv, TypeOK, Registers, SetupKept
<1>3. /\ note'.disorder = note.disorder /\ note'.replaced = note.replaced
      /\ note'.byInit = IF hub.active THEN note.byInit \union {c} ELSE note.byInit
  BY DEF InitArrive, IInv, TypeOK, Notes
<1>4. ~Orderly
  BY <1>1 DEF IInv, Ordered, OrderedAll, OrderedWakeup
<1>5. RendezvousAccepted(hub)' /\ Registered'
  BY <1>1, <1>2, <1>3 DEF IInv, RendezvousAccepted, Registered, SetupKept
<1>6. Calls'
  BY <1>1, <1>2, <1>3, SMTT(40)
     DEF IInv, Calls, Inside, PcKept, McaKept, Others, SetupKept
<1>7. Fresh' /\ Zero' /\ Ordered'
  BY <1>1, <1>2, <1>3, <1>4, SMTT(40)
     DEF IInv, Fresh, Zero, Ordered, Orderly, ByMemory, SetupKept
<1>8. ArrivedWaits'
  BY <1>1, <1>2, <1>3 DEF IInv, ArrivedWaits, PcKept, Others
<1> QED
  BY <1>5, <1>6, <1>7, <1>8 DEF IInv

-----------------------------------------------------------------------------
(* The monarch.                                                            *)

LEMMA DisturbedEffect ==
    ASSUME note \in Notes, NEW b \in BOOLEAN, Disturbed(b)
    PROVE  /\ note'.replaced = note.replaced /\ note'.byInit = {}
           /\ note'.disorder <=> note.disorder \/ (b /\ ByMemory)
BY DEF Disturbed, Notes

LEMMA BeginInv ==
    ASSUME IInv, TypeOK', NEW m \in CPU, MonarchBegin(m)
    PROVE  IInv'
<1>1. /\ cpu[m].mca = "begin" /\ cpu'[m].mca = "read"
      /\ PcKept(m) /\ InitKept(m) /\ Others(m) /\ UNCHANGED <<word, params>>
  BY DEF MonarchBegin, BeginRendezvous, IInv, TypeOK, Software, PcKept, InitKept,
         Others
<1>2. /\ SetupKept(hub) /\ hub'.pending = hub.pending
      /\ hub'.current = hub.current /\ hub'.arrived = {}
      /\ hub'.required = hub.online \ {m}
      /\ hub'.active <=> hub.online \ {m} # {}
      /\ hub.vector => init' = init
  BY ZenonT(60) DEF MonarchBegin, BeginRendezvous, IInv, TypeOK, Registers, SetupKept
<1>3. /\ note'.replaced = note.replaced /\ note'.byInit = {}
      /\ note'.disorder <=>
            \/ note.disorder
            \/ /\ hub.active \/ ~hub.vector \/ params.writing # "none"
               /\ ByMemory
  BY DisturbedEffect, Zenon DEF MonarchBegin, IInv, TypeOK, Registers
<1>4. hub.online \ {m} # {}
  BY <1>1 DEF IInv, Calls
<1>5. RendezvousAccepted(hub)' /\ Registered'
  BY <1>1, <1>2, <1>3, SMTT(40) DEF IInv, RendezvousAccepted, Registered, SetupKept
<1>6. Calls'
  BY <1>1, <1>2, <1>3, <1>4
     DEF IInv, Calls, Inside, PcKept, Others, SetupKept
<1>7. Fresh' /\ Zero'
  BY <1>1, <1>2, <1>3 DEF IInv, Fresh, Zero, ByMemory, SetupKept
<1>8. Ordered'
  <2> SUFFICES ASSUME Orderly' PROVE OrderedAll'
    BY DEF Ordered
  <2>1. OrderedAll /\ ~hub.active /\ hub.vector /\ params.writing = "none"
    BY <1>1, <1>2, <1>3 DEF IInv, Ordered, Orderly, ByMemory, SetupKept
  <2>2. \A d \in CPU : OrderedWakeup(d)'
    BY <1>1, <1>2, <2>1 DEF OrderedAll, OrderedWakeup, PcKept, InitKept, Others
  <2>3. \A d \in CPU : d # m => cpu'[d].mca \notin Stops
                                /\ cpu'[d].mca # "init_wait"
    BY <1>1, <2>1 DEF OrderedAll, OrderedMonarch, Others
  <2>4. \A d \in CPU : OrderedMonarch(d)'
    BY <1>1, <1>2, <1>4, <2>3 DEF OrderedMonarch, Stops, SetupKept
  <2>5. OrderedWriting'
    BY <1>1, <2>1 DEF OrderedWriting
  <2> QED
    BY <1>2, <1>3, <2>1, <2>2, <2>4, <2>5, SMTT(40) DEF OrderedAll
<1>9. ArrivedWaits'
  BY <1>2 DEF ArrivedWaits
<1> QED
  BY <1>5, <1>6, <1>7, <1>8, <1>9 DEF IInv

\* The monarch alone goes on between BEGIN and RELEASE.
LEMMA MonarchLocal ==
    ASSUME IInv, TypeOK', NEW m \in CPU,
           UNCHANGED <<hub, word, init, params, note>>,
           PcKept(m), InitKept(m), Others(m),
           \/ /\ cpu[m].mca \in Stops
              /\ \/ cpu'[m].mca = "wait" /\ cpu'[m].req = hub.required
                 \/ /\ cpu'[m].mca \in {"status", "by_vector"}
                    /\ cpu'[m].req = cpu[m].req
                    /\ Orderly => /\ cpu[m].req = hub.required
                                  /\ hub.required \subseteq hub.arrived
                 \/ cpu'[m].mca \in {"alone", "by_init"}
           \/ cpu[m].mca = "init_wait" /\ cpu'[m].mca = "by_init"
    PROVE  IInv'
<1> USE DEF PcKept, InitKept
<1>1. RendezvousAccepted(hub)' /\ Registered'
  BY DEF IInv, RendezvousAccepted, Registered
<1>2. Calls'
  <2>1. cpu'[m].mca # "begin"
    OBVIOUS
  <2> QED
    BY <2>1 DEF IInv, Calls, Inside, Others
<1>3. Fresh' /\ Zero' /\ ArrivedWaits'
  BY DEF IInv, Fresh, Zero, ByMemory, ArrivedWaits, Others
<1>4. Ordered'
  <2> SUFFICES ASSUME Orderly' PROVE OrderedAll'
    BY DEF Ordered
  <2>1. Orderly /\ OrderedAll
    BY DEF IInv, Ordered, Orderly, ByMemory
  <2>2. \A d \in CPU : OrderedWakeup(d)'
    BY <2>1 DEF OrderedAll, OrderedWakeup, Others
  <2>3. \A d \in CPU : OrderedMonarch(d)'
    BY <2>1 DEF OrderedAll, OrderedMonarch, Others, Stops
  <2>4. OrderedWriting'
    BY <2>1 DEF OrderedAll, OrderedWriting, Others
  <2> QED
    BY <2>1, <2>2, <2>3, <2>4, SMTT(30) DEF OrderedAll
<1> QED
  BY <1>1, <1>2, <1>3, <1>4, SMTT(40) DEF IInv

LEMMA MonarchWaits ==
    ASSUME IInv, TypeOK', NEW m \in CPU,
           MonarchRead(m) \/ MonarchArrived(m) \/ MonarchStatus(m)
    PROVE  IInv'
<1> USE DEF PcKept, InitKept, Others
<1>0. cpu \in [CPU -> Software]
  BY DEF IInv, TypeOK
<1>1. CASE MonarchRead(m)
  <2>1. /\ cpu[m].mca \in Stops
        /\ \/ cpu'[m].mca = "wait" /\ cpu'[m].req = hub.required
           \/ cpu'[m].mca \in {"alone", "by_init"}
        /\ PcKept(m) /\ InitKept(m) /\ Others(m)
        /\ UNCHANGED <<hub, word, init, params, note>>
    BY <1>0, <1>1, SMTT(30) DEF MonarchRead, Software, Stops
  <2> HIDE DEF PcKept, InitKept, Others
  <2> QED
    BY <2>1, MonarchLocal
<1>2. CASE MonarchArrived(m)
  <2>1. /\ PcKept(m) /\ InitKept(m) /\ Others(m)
        /\ cpu'[m].req = cpu[m].req
        /\ UNCHANGED <<hub, word, init, params, note>>
    BY <1>0, <1>2 DEF MonarchArrived, Software
  <2>2. /\ cpu[m].req \subseteq hub.arrived
        /\ \/ cpu[m].mca = "wait" /\ cpu'[m].mca = "status"
           \/ cpu[m].mca = "init_wait" /\ cpu'[m].mca = "by_init"
    BY <1>0, <1>2, SMTT(30) DEF MonarchArrived, Software
  <2>3. cpu[m].mca = "wait" /\ Orderly => cpu[m].req = hub.required
    BY DEF IInv, Ordered, OrderedAll, OrderedMonarch
  <2>4. "wait" \in Stops
    BY DEF Stops
  <2> HIDE DEF PcKept, InitKept, Others
  <2> QED
    BY <2>1, <2>2, <2>3, <2>4, MonarchLocal
<1>3. CASE MonarchStatus(m)
  <2>1. /\ PcKept(m) /\ InitKept(m) /\ Others(m)
        /\ cpu'[m].req = cpu[m].req
        /\ UNCHANGED <<hub, word, init, params, note>>
    BY <1>0, <1>3 DEF MonarchStatus, Software
  <2>2. /\ cpu[m].mca = "status" /\ "status" \in Stops
        /\ cpu'[m].mca \in {"by_init", "by_vector"}
    BY <1>0, <1>3, SMTT(40) DEF MonarchStatus, Software, Stops
  <2>3. Orderly => cpu[m].req = hub.required /\ hub.required \subseteq hub.arrived
    BY <2>2 DEF IInv, Ordered, OrderedAll, OrderedMonarch
  <2> HIDE DEF PcKept, InitKept, Others
  <2> QED
    BY <2>1, <2>2, <2>3, MonarchLocal
<1> QED
  BY <1>1, <1>2, <1>3

LEMMA TimeoutInv ==
    ASSUME IInv, TypeOK', NEW m \in CPU, MonarchTimeout(m)
    PROVE  IInv'
<1>1. /\ cpu[m].mca = "wait" /\ cpu'[m].mca = "init_wait"
      /\ PcKept(m) /\ InitKept(m) /\ Others(m) /\ UNCHANGED <<word, params>>
  BY DEF MonarchTimeout, IInv, TypeOK, Software, PcKept, InitKept, Others
<1>2. /\ SetupKept(hub) /\ RoundKept(hub) /\ hub'.pending = hub.pending
      /\ hub'.current = hub.current
  BY DEF MonarchTimeout, RendezvousInit, IInv, TypeOK, Registers, SetupKept,
         RoundKept
<1>3. /\ note'.replaced = note.replaced /\ note'.byInit = note.byInit
      /\ note'.disorder <=> note.disorder \/ ByMemory
  BY DEF MonarchTimeout, IInv, TypeOK, Notes
<1>5. RendezvousAccepted(hub)' /\ Registered'
  BY <1>1, <1>2, <1>3, SMTT(30)
     DEF IInv, RendezvousAccepted, Registered, SetupKept, RoundKept
<1>6. Calls'
  BY <1>1, <1>2, <1>3
     DEF IInv, Calls, Inside, PcKept, Others, SetupKept
<1>7. Fresh' /\ Zero' /\ Ordered'
  BY <1>1, <1>2, <1>3, SMTT(40)
     DEF IInv, Fresh, Zero, Ordered, Orderly, ByMemory, SetupKept, RoundKept
<1>8. ArrivedWaits'
  BY <1>1, <1>2, <1>3, SMTT(40) DEF IInv, ArrivedWaits, PcKept, Others, RoundKept
<1> QED
  BY <1>5, <1>6, <1>7, <1>8 DEF IInv

\* RELEASE by processor m: in disorder from then on if the mechanism is the
\* memory word, unless the rendezvous of m was complete and is released once.
LEMMA ReleaseInv ==
    ASSUME IInv, TypeOK', NEW m \in CPU, Release, NEW b \in BOOLEAN, Disturbed(b),
           UNCHANGED <<init, params>>, PcKept(m), InitKept(m), Others(m),
           \/ McaKept(m) \/ cpu'[m].mca \in {"cleared", "failed"},
           ~b => /\ ~hub.active
                    \/ (cpu[m].mca = "by_vector" /\ cpu'[m].mca = "cleared")
                 /\ hub.pending = {}
    PROVE  IInv'
<1>0. hub \in Registers /\ note \in Notes
  BY SMTT(40) DEF IInv, TypeOK
<1>1. /\ SetupKept(hub) /\ ~hub'.active /\ hub'.required = {} /\ hub'.arrived = {}
      /\ hub'.pending = IF hub.mechanism = MEM THEN hub.required ELSE hub.pending
      /\ hub.mechanism # MEM => word' = word /\ hub'.current = hub.current
      /\ hub.mechanism = MEM /\ hub'.pending # {} => hub'.current \in hub'.pending
  BY <1>0, ReleaseEffect
<1>2. /\ note'.replaced = note.replaced /\ note'.byInit = {}
      /\ note'.disorder <=> note.disorder \/ (b /\ ByMemory)
  BY <1>0, DisturbedEffect
<1>3. RendezvousAccepted(hub)'
  <2>1. hub.required \subseteq hub.online /\ hub.pending \subseteq hub.online
    BY SMTT(40) DEF IInv, RendezvousAccepted
  <2> QED
    BY <1>1, <2>1 DEF RendezvousAccepted, SetupKept
<1>4. Registered'
  BY <1>1, <1>2, SMTT(40) DEF IInv, Registered, SetupKept
<1>5. Calls'
  BY <1>1, <1>2, SMTT(40) DEF IInv, Calls, Inside, PcKept, McaKept, Others, SetupKept
<1>6. Fresh' /\ Zero'
  BY <1>1, <1>2, SMTT(40) DEF IInv, Fresh, Zero, ByMemory, SetupKept
<1>7. Ordered'
  <2> SUFFICES ASSUME Orderly' PROVE OrderedAll'
    BY DEF Ordered
  <2>1. /\ OrderedAll /\ Orderly /\ ~b /\ hub.pending = {}
        /\ \/ ~hub.active
           \/ cpu[m].mca = "by_vector" /\ cpu'[m].mca = "cleared"
    BY <1>1, <1>2 DEF IInv, Ordered, Orderly, ByMemory, SetupKept
  <2>2. /\ hub.active => hub.required \subseteq hub.arrived
        /\ \A d \in CPU : d # m => cpu[d].mca \notin Stops
        /\ ~hub.active => hub.required = {} /\ cpu[m].mca \notin Stops
    BY <2>1, SMTT(40)
       DEF IInv, RendezvousAccepted, OrderedAll, OrderedMonarch, Stops
  <2>3. \A d \in CPU : d \in hub'.pending => cpu[d].pc = "wait"
    BY <1>1, <2>1, <2>2 DEF IInv, ArrivedWaits, Orderly, OrderedAll
  <2>4. \A d \in CPU : word # d + 1 /\ cpu[d].pc # "woken"
    BY <2>1 DEF OrderedAll, OrderedWakeup
  <2>5. \/ word' = word
        \/ hub'.current \in hub'.pending /\ word' = hub'.current + 1
    BY <1>0, ReleaseEffect
  <2>6. \A d \in CPU : word' = d + 1 => d = hub'.current /\ d \in hub'.pending
    <3>1. hub'.current \in Nat /\ \A d \in CPU : d \in Nat
      BY CpuAssumption, Zenon DEF TypeOK, Registers
    <3> QED
      BY <2>4, <2>5, <3>1
  <2>7. \A d \in CPU : cpu'[d].pc = cpu[d].pc /\ cpu'[d].init = cpu[d].init
    BY SMTT(40) DEF PcKept, InitKept, Others
  <2>8. \A d \in CPU : OrderedWakeup(d)'
    BY <1>1, <2>1, <2>3, <2>4, <2>6, <2>7, SMTT(40) DEF OrderedAll, OrderedWakeup
  <2>9. \A d \in CPU : cpu'[d].mca \notin Stops /\ cpu'[d].mca # "init_wait"
    BY <2>1, <2>2 DEF OrderedAll, OrderedMonarch, Others, McaKept, Stops
  <2>10. \A d \in CPU : OrderedMonarch(d)'
    BY <2>9 DEF OrderedMonarch, Stops
  <2>11. OrderedWriting'
    BY <1>1, <2>1, <2>2, <2>7 DEF OrderedAll, OrderedWriting
  <2> QED
    BY <1>2, <2>1, <2>8, <2>10, <2>11 DEF OrderedAll
<1>8. ArrivedWaits'
  BY <1>1 DEF ArrivedWaits
<1> QED
  BY <1>3, <1>4, <1>5, <1>6, <1>7, <1>8, SMTT(40) DEF IInv

LEMMA ReleaseActions ==
    ASSUME IInv, TypeOK', NEW m \in CPU, MonarchGiveUp(m) \/ ClearMca(m)
    PROVE  IInv'
<1>0. cpu \in [CPU -> Software]
  BY DEF IInv, TypeOK
<1>1. CASE MonarchGiveUp(m)
  <2>1. /\ Release /\ Disturbed(TRUE) /\ UNCHANGED <<init, params>>
        /\ cpu' = [cpu EXCEPT ![m].mca = "failed"]
    BY <1>1, Zenon DEF MonarchGiveUp
  <2>2. PcKept(m) /\ InitKept(m) /\ Others(m) /\ cpu'[m].mca = "failed"
    BY <1>0, <2>1 DEF Software, PcKept, InitKept, Others
  <2>3. TRUE \in BOOLEAN /\ (~TRUE => hub.pending = {})
    BY SMTT(40)
  <2> QED
    BY <2>1, <2>2, <2>3, ReleaseInv, Zenon
<1>2. CASE ClearMca(m)
  <2> DEFINE b == (hub.active /\ cpu[m].mca # "by_vector") \/ hub.pending # {}
  <2>1. Release /\ Disturbed(b) /\ UNCHANGED <<init, params>>
    BY <1>2, Zenon DEF ClearMca
  <2>2. PcKept(m) /\ InitKept(m) /\ Others(m)
    BY <1>0, <1>2 DEF ClearMca, Software, PcKept, InitKept, Others
  <2>3. /\ McaKept(m) \/ cpu'[m].mca = "cleared"
        /\ cpu[m].mca = "by_vector" => cpu'[m].mca = "cleared"
    BY <1>0, <1>2 DEF ClearMca, Software, McaKept
  <2>4. /\ b \in BOOLEAN
        /\ ~b => (~hub.active \/ cpu[m].mca = "by_vector") /\ hub.pending = {}
    OBVIOUS
  <2> HIDE DEF b
  <2> QED
    BY <2>1, <2>2, <2>3, <2>4, ReleaseInv
<1> QED
  BY <1>1, <1>2

-----------------------------------------------------------------------------
(* Registration and snapshots.                                             *)

LEMMA SetParamsInv ==
    ASSUME IInv, TypeOK', NEW c \in CPU, NEW mechanism \in {INT, MEM},
           SetParams(c, mechanism)
    PROVE  IInv'
<1>1. /\ params.writing = "none" /\ hub.mechanism = params.mechanism
      /\ UNCHANGED <<hub, word, init, cpu>>
  BY DEF SetParams, IInv, Registered
<1>2. /\ note'.replaced = note.replaced /\ note'.byInit = note.byInit
      /\ note'.disorder <=>
            note.disorder \/ (~AtRest /\ MEM \in {params.mechanism, mechanism})
  BY Zenon DEF SetParams, IInv, TypeOK, Notes
<1>3. params'.mechanism = mechanism /\ params'.writing = "mechanism"
  BY DEF SetParams
<1>4. RendezvousAccepted(hub)' /\ Registered'
  BY <1>1, <1>2, <1>3 DEF IInv, RendezvousAccepted, Registered
<1>5. AtRest => /\ ~hub.active /\ hub.pending = {} /\ init = {}
                /\ \A d \in CPU : /\ cpu[d].pc = "run" /\ cpu[d].mca = "none"
                                  /\ cpu[d].init = "none"
  <2>1. \A b : /\ Idle(b).pc = "run" /\ Idle(b).mca = "none"
               /\ Idle(b).init = "none"
    BY DEF Idle
  <2> QED
    BY <2>1, Zenon DEF AtRest
<1>6. Calls'
  <2> SUFFICES ASSUME NEW d \in CPU
               PROVE  /\ ~note'.disorder /\ cpu[d].pc \in Inside
                           => cpu[d].via = mechanism /\ mechanism # 0
                      /\ ~note'.disorder /\ cpu[d].pc = "woken" => mechanism = MEM
                      /\ cpu[d].mca = "begin" => hub.online \ {d} # {}
    BY <1>1, <1>3 DEF Calls
  <2>1. params.mechanism \in {0, INT, MEM}
    BY DEF IInv, TypeOK, Params, Mechanisms
  <2>2. cpu[d].pc \in Inside => ~AtRest
    BY <1>5 DEF Inside
  <2> QED
    BY <1>2, <2>1, <2>2 DEF IInv, Calls, Inside, INT, MEM
<1>7. ~note.disorder /\ AtRest => word = 0
  <2>1. CASE ByMemory
    <3>1. ~note.disorder => \A d \in CPU : word = d + 1 => d \in hub.pending
      BY <2>1 DEF IInv, Ordered, Orderly, OrderedAll, OrderedWakeup
    <3>2. \/ word = 0
          \/ \E d \in CPU : word = d + 1
      BY DEF IInv, TypeOK, Words
    <3> QED
      BY <1>5, <3>1, <3>2
  <2>2. CASE ~ByMemory
    BY <2>2 DEF IInv, Zero
  <2> QED
    BY <2>1, <2>2
<1>8. Fresh' /\ Zero' /\ ArrivedWaits'
  BY <1>1, <1>2, <1>3 DEF IInv, Fresh, Zero, ByMemory, ArrivedWaits
<1>9. Ordered'
  <2> SUFFICES ASSUME Orderly' PROVE OrderedAll'
    BY DEF Ordered
  <2>1. AtRest /\ word = 0
    BY <1>1, <1>2, <1>3, <1>7 DEF Orderly, ByMemory
  <2>2. \A d \in CPU : d + 1 # 0
    BY CpuAssumption
  <2>3. \A d \in CPU : OrderedWakeup(d)'
    BY <1>1, <1>5, <2>1, <2>2 DEF OrderedWakeup
  <2>4. \A d \in CPU : OrderedMonarch(d)'
    BY <1>1, <1>5, <2>1 DEF OrderedMonarch, Stops
  <2>5. OrderedWriting'
    BY <1>1, <1>5, <2>1 DEF OrderedWriting, Inside
  <2>6. note.byInit = {}
    BY <1>5, <2>1 DEF IInv, Fresh
  <2> QED
    BY <1>1, <1>2, <1>5, <2>1, <2>3, <2>4, <2>5, <2>6 DEF OrderedAll
<1> QED
  BY <1>4, <1>6, <1>8, <1>9 DEF IInv

\* What a write of a wake-up register leaves.
RegistersWritten ==
    /\ hub'.online = hub.online /\ RoundKept(hub)
    /\ hub'.pending = hub.pending /\ hub'.current = hub.current
    /\ UNCHANGED <<word, init, cpu>>
    /\ params'.mechanism = params.mechanism
    /\ note'.disorder = note.disorder /\ note'.byInit = note.byInit

LEMMA WrittenInv ==
    ASSUME IInv, TypeOK', params.writing # "none", RegistersWritten,
           Registered', Zero', ByMemory' => ByMemory
    PROVE  IInv'
<1>1. RendezvousAccepted(hub)'
  BY DEF IInv, RendezvousAccepted, RegistersWritten, RoundKept
<1>2. Calls'
  BY DEF IInv, Calls, RegistersWritten
<1>3. Fresh' /\ ArrivedWaits'
  BY DEF IInv, Fresh, ArrivedWaits, RegistersWritten, RoundKept
<1>4. Ordered'
  <2> SUFFICES ASSUME Orderly' PROVE OrderedAll'
    BY DEF Ordered
  <2>1. OrderedAll
    BY DEF IInv, Ordered, Orderly, RegistersWritten
  <2>2. \A d \in CPU : OrderedWakeup(d)'
    BY <2>1 DEF OrderedAll, OrderedWakeup, RegistersWritten, RoundKept
  <2>3. \A d \in CPU : OrderedMonarch(d)'
    BY <2>1 DEF OrderedAll, OrderedMonarch, RegistersWritten, RoundKept
  <2>4. OrderedWriting'
    BY <2>1 DEF OrderedAll, OrderedWriting, RegistersWritten, RoundKept
  <2> QED
    BY <2>1, <2>2, <2>3, <2>4 DEF OrderedAll, RegistersWritten
<1> QED
  BY <1>1, <1>2, <1>3, <1>4 DEF IInv

LEMMA SetMechanismInv ==
    ASSUME IInv, TypeOK', SetMechanism
    PROVE  IInv'
<1>1. /\ hub'.mechanism = params.mechanism /\ hub'.value = hub.value
      /\ hub'.online = hub.online /\ RoundKept(hub)
      /\ hub'.pending = hub.pending /\ hub'.current = hub.current
      /\ params.writing = "mechanism" /\ UNCHANGED <<word, init, cpu>>
  BY DEF SetMechanism, IInv, TypeOK, Registers, RoundKept
<1>2. params'.mechanism = params.mechanism /\ params'.writing = "value"
  BY DEF SetMechanism, IInv, TypeOK, Params
<1>3. /\ note'.disorder = note.disorder /\ note'.byInit = note.byInit
      /\ note'.replaced <=>
            note.replaced \/ (hub.mechanism = MEM /\ params.mechanism = INT)
  BY Zenon DEF SetMechanism, IInv, TypeOK, Notes
<1>4. RegistersWritten /\ (ByMemory' => ByMemory)
  BY <1>1, <1>2, <1>3 DEF RegistersWritten, ByMemory
<1>5. Registered'
  <2>1. params.mechanism \in {INT, MEM}
    BY <1>1 DEF IInv, Registered
  <2> QED
    BY <1>1, <1>2, <1>3, <2>1 DEF IInv, Registered
<1>6. Zero'
  <2> SUFFICES ASSUME ~note.disorder, ~ByMemory' PROVE word = 0 /\ hub.pending = {}
    BY <1>1, <1>3 DEF Zero
  <2>1. CASE ByMemory
    <3>1. OrderedAll
      BY <2>1 DEF IInv, Ordered, Orderly
    <3>2. hub.pending = {} /\ \A d \in CPU : word # d + 1
      BY <1>1, <3>1 DEF OrderedAll, OrderedWriting, OrderedWakeup
    <3> QED
      BY <3>2 DEF IInv, TypeOK, Words
  <2>2. CASE ~ByMemory
    BY <2>2 DEF IInv, Zero
  <2> QED
    BY <2>1, <2>2
<1> QED
  BY <1>1, <1>4, <1>5, <1>6, WrittenInv

LEMMA SetValueInv ==
    ASSUME IInv, TypeOK', SetValue
    PROVE  IInv'
<1>1. /\ hub'.mechanism = hub.mechanism
      /\ params.mechanism = INT => hub'.value = "vector"
      /\ hub'.online = hub.online /\ RoundKept(hub)
      /\ hub'.pending = hub.pending /\ hub'.current = hub.current
      /\ params.writing = "value" /\ UNCHANGED <<word, init, cpu>>
  BY DEF SetValue, IInv, TypeOK, Registers, RoundKept
<1>2. params'.mechanism = params.mechanism /\ params'.writing = "none"
  BY DEF SetValue, IInv, TypeOK, Params
<1>3. /\ note'.disorder = note.disorder /\ note'.byInit = note.byInit
      /\ note'.replaced <=> note.replaced /\ hub.pending # {}
  BY Zenon DEF SetValue, IInv, TypeOK, Notes
<1>4. RegistersWritten /\ (ByMemory' <=> ByMemory)
  BY <1>1, <1>2, <1>3 DEF RegistersWritten, ByMemory
<1>5. Registered'
  <2>1. params.mechanism \in {INT, MEM} /\ hub.mechanism = params.mechanism
    BY <1>1 DEF IInv, Registered
  <2> QED
    BY <1>1, <1>2, <1>3, <2>1 DEF IInv, Registered
<1>6. Zero'
  BY <1>1, <1>3, <1>4 DEF IInv, Zero
<1> QED
  BY <1>1, <1>4, <1>5, <1>6, WrittenInv

LEMMA ReloadInv ==
    ASSUME IInv, TypeOK', Reload
    PROVE  IInv'
<1>0. hub \in Registers /\ StartMemoryWakeup(hub) /\ UNCHANGED <<params, cpu>>
  BY DEF IInv, TypeOK, Reload
<1>1. /\ SetupKept(hub) /\ RoundKept(hub) /\ hub'.pending = hub.pending
      /\ hub.mechanism # MEM => hub'.current = hub.current /\ word' = word
      /\ ~note.replaced /\ hub'.pending # {} => hub'.current \in hub'.pending
  BY <1>0, StartEffect DEF IInv, Registered
<1>2. /\ note'.replaced = note.replaced /\ note'.byInit = note.byInit
      /\ note'.disorder <=> note.disorder \/ ByMemory
  BY Zenon DEF Reload, IInv, TypeOK, Notes
<1>4. RendezvousAccepted(hub)' /\ Registered'
  BY <1>0, <1>1, <1>2
     DEF IInv, RendezvousAccepted, Registered, SetupKept, RoundKept
<1>5. Calls'
  BY <1>0, <1>1, <1>2, SMTT(40) DEF IInv, Calls, SetupKept
<1>6. Fresh' /\ Zero'
  BY <1>0, <1>1, <1>2, SMTT(40)
     DEF IInv, Fresh, Zero, ByMemory, SetupKept, RoundKept
<1>7. Ordered' /\ ArrivedWaits'
  BY <1>0, <1>1, <1>2
     DEF IInv, Ordered, Orderly, ByMemory, ArrivedWaits, SetupKept, RoundKept
<1> QED
  BY <1>4, <1>5, <1>6, <1>7 DEF IInv

LEMMA InvStep ==
    ASSUME IInv, [Next]_vars
    PROVE  IInv'
<1>1. TypeOK'
  BY TypeStep DEF IInv
<1>2. CASE UNCHANGED vars
  BY <1>2, ZenonT(60)
     DEF vars, IInv, TypeOK, RendezvousAccepted, Registered, Calls, Fresh, Zero,
         ByMemory, Ordered, Orderly, OrderedAll, OrderedWriting, OrderedWakeup,
         OrderedMonarch, ArrivedWaits
<1>3. ASSUME NEW c \in CPU, Participant(c)
      PROVE  IInv'
  BY <1>1, <1>3, LocalActions, ArriveInv, WordInv, AckInv, ActiveInv, InitArriveInv
     DEF Participant
<1>4. ASSUME NEW c \in CPU, MonarchStep(c)
      PROVE  IInv'
  BY <1>1, <1>4, BeginInv, MonarchWaits, TimeoutInv, ReleaseActions, SMTT(40)
     DEF MonarchStep
<1>5. CASE Next
  BY <1>1, <1>3, <1>4, <1>5, LocalActions, EnterInitInv, ReleaseActions,
     SetParamsInv, SetMechanismInv, SetValueInv, ReloadInv
     DEF Next
<1> QED
  BY <1>2, <1>5

-----------------------------------------------------------------------------
(* The theorems.                                                           *)

\* Registers, software and histories keep their types, however often the
\* wake-up is registered.
THEOREM TypeCorrect == Spec => []TypeOK
<1> QED
  BY TypeInit, TypeStep, PTL DEF Spec

\* However many processors, machine checks, timeouts, clears, registrations
\* and snapshots there are, ia64_ras_hub_post_load accepts what a snapshot holds
\* of the rendezvous; it accepts the wake-up registers too, except from a write
\* of WAKEUP_MECHANISM that replaces the memory word by an interrupt to a write
\* of WAKEUP_VALUE with no wake-up pending.
THEOREM RegistersReload == Spec => []HubReloads
<1>1. Init => IInv
  BY InvInit
<1>2. IInv /\ [Next]_vars => IInv'
  BY InvStep
<1>3. IInv => HubReloads
  BY DEF IInv, Registered, HubReloads, WakeupAccepted, INT, MEM
<1> QED
  BY <1>1, <1>2, <1>3, PTL DEF Spec

\* While a rendezvous lasts, a processor that it counts as arrived is stopped
\* in SAL_MC_RENDEZ or has taken its INIT, however often the wake-up is
\* registered; with the memory word, as long as there was no disorder.
THEOREM ArrivedAreStopped == Spec => []ArrivedWaits
<1>1. Init => IInv
  BY InvInit
<1>2. IInv /\ [Next]_vars => IInv'
  BY InvStep
<1>3. IInv => ArrivedWaits
  BY DEF IInv
<1> QED
  BY <1>1, <1>2, <1>3, PTL DEF Spec

=============================================================================
