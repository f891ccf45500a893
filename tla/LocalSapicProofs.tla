-------------------------- MODULE LocalSapicProofs --------------------------
(***************************************************************************)
(* Proofs about LocalSapic for any number of processors and any vectors:   *)
(* type correctness; the exactness of CPU_INTERRUPT_HARD; deferrals,       *)
(* corrected errors and masked machine checks are not lost; the in-service *)
(* register is a priority stack; and LocalSapic implements SapicPort.      *)
(***************************************************************************)
EXTENDS LocalSapicPort, TLAPS, WellFoundedInduction

\* What HardTracksPending says of one processor's state.
Exact(s) == s.hard = (Special(s) \/ HasPending(s))

\* The inductive invariant.
HInv == TypeOK /\ HardTracksPending

-----------------------------------------------------------------------------
(* The fields of a processor's state.                                      *)

LEMMA Names ==
    /\ "irr" \in DOMAIN FieldType /\ "isr" \in DOMAIN FieldType
    /\ "tpr" \in DOMAIN FieldType /\ "mc" \in DOMAIN FieldType
    /\ "ic" \in DOMAIN FieldType /\ "pmi" \in DOMAIN FieldType
    /\ "init" \in DOMAIN FieldType /\ "pmiEntry" \in DOMAIN FieldType
    /\ "mcaPending" \in DOMAIN FieldType /\ "hard" \in DOMAIN FieldType
    /\ "mcaPendingId" \in DOMAIN FieldType /\ "reason" \in DOMAIN FieldType
    /\ "cmcv" \in DOMAIN FieldType /\ "xtp" \in DOMAIN FieldType
BY Zenon DEF FieldType

LEMMA BooleanFields ==
    /\ FieldType.i = BOOLEAN /\ FieldType.ic = BOOLEAN
    /\ FieldType.mc = BOOLEAN /\ FieldType.icInflight = BOOLEAN
    /\ FieldType.iDeferred = BOOLEAN /\ FieldType.pmiEntry = BOOLEAN
    /\ FieldType.init = BOOLEAN /\ FieldType.mcaPending = BOOLEAN
    /\ FieldType.mcaActive = BOOLEAN /\ FieldType.initActive = BOOLEAN
    /\ FieldType.initEntry = BOOLEAN /\ FieldType.context = BOOLEAN
    /\ FieldType.cmcPending = BOOLEAN /\ FieldType.hard = BOOLEAN
    /\ FieldType.haltRequest = BOOLEAN /\ FieldType.exec = BOOLEAN
    /\ FieldType.halted = BOOLEAN /\ FieldType.haltWake = BOOLEAN
BY Zenon DEF FieldType

LEMMA BitmapFields ==
    /\ FieldType.irr = SUBSET (0 .. 255) /\ FieldType.isr = SUBSET (0 .. 255)
    /\ FieldType.pmi = SUBSET (0 .. 255)
BY Zenon DEF FieldType

LEMMA ByteFields ==
    /\ FieldType.mcaPendingId = 0 .. 255 /\ FieldType.mcaActiveId = 0 .. 255
    /\ FieldType.reason = 0 .. 255
BY Zenon DEF FieldType

LEMMA ZeroByte == 0 \in FieldType.mcaActiveId /\ 0 \in FieldType.reason
<1>1. 0 \in 0 .. 255
  OBVIOUS
<1> QED
  BY <1>1, ByteFields, Zenon

LEMMA TprField == FieldType.tpr = [mmi : BOOLEAN, mic : 0 .. 15]
BY Zenon DEF FieldType

LEMMA XtpField == FieldType.xtp = [disable : BOOLEAN, priority : 0 .. 15]
BY Zenon DEF FieldType

LEMMA LidField == FieldType.lid = Nat \X Nat
BY Zenon DEF FieldType

LEMMA CmcvField == FieldType.cmcv = MASKED .. 255
BY Zenon DEF FieldType

LEMMA AreaField == FieldType.saveArea = SaveAreas
BY Zenon DEF FieldType

LEMMA FieldsOf ==
    ASSUME NEW s, EnvOK(s)
    PROVE  /\ s.irr \in SUBSET (0 .. 255) /\ s.isr \in SUBSET (0 .. 255)
           /\ s.pmi \in SUBSET (0 .. 255) /\ s.mc \in BOOLEAN
           /\ s.mcaPendingId \in 0 .. 255 /\ s.reason \in 0 .. 255
           /\ s.cmcv \in MASKED .. 255
           /\ s.xtp \in [disable : BOOLEAN, priority : 0 .. 15]
<1>1. /\ s.irr \in FieldType.irr /\ s.isr \in FieldType.isr
      /\ s.pmi \in FieldType.pmi /\ s.mc \in FieldType.mc
      /\ s.mcaPendingId \in FieldType.mcaPendingId
      /\ s.reason \in FieldType.reason /\ s.cmcv \in FieldType.cmcv
      /\ s.xtp \in FieldType.xtp
  BY Names, Zenon DEF EnvOK
<1>2. FieldType.mc = BOOLEAN
  BY BooleanFields, Zenon
<1>3. s.irr \in SUBSET (0 .. 255) /\ s.isr \in SUBSET (0 .. 255) /\ s.pmi \in SUBSET (0 .. 255)
  BY <1>1, BitmapFields
<1>4. s.mcaPendingId \in 0 .. 255 /\ s.reason \in 0 .. 255 /\ s.cmcv \in MASKED .. 255
  BY <1>1, ByteFields, CmcvField
<1>5. s.mc \in BOOLEAN /\ s.xtp \in [disable : BOOLEAN, priority : 0 .. 15]
  BY <1>1, <1>2, XtpField, Zenon
<1> QED
  BY <1>3, <1>4, <1>5, Zenon

-----------------------------------------------------------------------------
(* Vectors.                                                                *)

\* A non-empty set of naturals has a least element, and one of bytes has a
\* greatest one.
LEMMA LeastNatural ==
    ASSUME NEW T \in SUBSET Nat, T # {}
    PROVE  /\ \E n \in T : \A k \in T : n <= k
           /\ Least(T) \in T
<1> DEFINE R == OpToRel(<, Nat)
<1>1. PICK n \in T : \A k \in T : ~(<<k, n>> \in R)
  <2> HIDE DEF R
  <2>1. IsWellFoundedOn(R, Nat)
    BY NatLessThanWellFounded, Zenon DEF R
  <2> QED
    BY <2>1, WFMin, Zenon
<1>2. ASSUME NEW k \in T PROVE n <= k
  <2>1. k \in Nat /\ n \in Nat
    OBVIOUS
  <2>2. CASE k < n
    <3>1. <<k, n>> \in R
      BY <2>1, <2>2 DEF OpToRel
    <3> QED
      BY <1>1, <3>1, Zenon
  <2> QED
    BY <2>1, <2>2
<1> QED
  BY <1>2, Zenon DEF Least

LEMMA GreatestByte ==
    ASSUME NEW S \in SUBSET (0 .. 255), S # {}
    PROVE  \E v \in S : \A u \in S : u <= v
<1> DEFINE T == {255 - v : v \in S}
<1>1. T \in SUBSET Nat
  OBVIOUS
<1>2. T # {}
  <2>1. PICK v \in S : TRUE
    BY Zenon
  <2>2. 255 - v \in T
    OBVIOUS
  <2> QED
    BY <2>2
<1>3. PICK n \in T : \A k \in T : n <= k
  <2> HIDE DEF T
  <2> QED
    BY <1>1, <1>2, LeastNatural, Zenon
<1>4. PICK v \in S : n = 255 - v
  BY <1>3
<1>5. ASSUME NEW u \in S PROVE u <= v
  <2>1. 255 - u \in T
    OBVIOUS
  <2>2. 255 - v <= 255 - u
    BY <1>3, <1>4, <2>1, ZenonT(60)
  <2>3. u \in Int /\ v \in Int
    OBVIOUS
  <2> HIDE DEF T
  <2> QED
    BY <2>2, <2>3
<1> QED
  BY <1>5, Zenon

\* The search of a bitmap returns one of its vectors, or the spurious one.
LEMMA HighestNormalType ==
    ASSUME NEW S \in SUBSET (0 .. 255)
    PROVE  /\ HighestNormal(S) \in 0 .. 255
           /\ HighestNormal(S) # SPURIOUS => HighestNormal(S) \in S
<1> DEFINE normal == {v \in S : v >= 16}
<1>1. CASE normal = {}
  BY <1>1 DEF HighestNormal, SPURIOUS
<1>2. CASE normal # {}
  <2>1. \E v \in normal : \A u \in normal : u <= v
    BY <1>2, GreatestByte, Zenon
  <2>2. HighestNormal(S) = CHOOSE v \in normal : \A u \in normal : u <= v
    BY <1>2 DEF HighestNormal
  <2> QED
    BY <2>1, <2>2, Zenon
<1> QED
  BY <1>1, <1>2

LEMMA FindIrrType ==
    ASSUME NEW s, EnvOK(s)
    PROVE  FindIrr(s) \in 0 .. 255
<1>1. s.irr \in SUBSET (0 .. 255)
  BY FieldsOf
<1> QED
  BY <1>1, HighestNormalType DEF FindIrr, SPURIOUS

-----------------------------------------------------------------------------
(* Each operation on a processor's state keeps its type, and the ones that *)
(* recompute the HARD request make it exact.                               *)

\* The fields that decide whether something is deliverable, and the request.
Relevant(s) ==
    <<s.irr, s.isr, s.tpr, s.mc, s.ic, s.pmi, s.init, s.pmiEntry,
      s.mcaPending, s.hard>>

LEMMA SameRelevant ==
    ASSUME NEW s, NEW t, Exact(s), Relevant(t) = Relevant(s)
    PROVE  Exact(t)
BY DEF Relevant, Exact, Special, McaDeliverable, InitDeliverable,
       PmiDeliverable, HasPending, FindIrr, VectorUnmasked, FindIsr

LEMMA UpdatedExact ==
    ASSUME NEW s, EnvOK(s)
    PROVE  /\ EnvOK(Updated(s))
           /\ Exact(Updated(s))
<1> DEFINE t == Updated(s)
<1>0. (Special(s) \/ HasPending(s)) \in BOOLEAN
  OBVIOUS
<1>1. EnvOK(t)
  BY <1>0, BooleanFields, Zenon DEF Updated, EnvOK
<1>2. /\ t.irr = s.irr /\ t.isr = s.isr /\ t.tpr = s.tpr
      /\ t.mc = s.mc /\ t.ic = s.ic /\ t.pmi = s.pmi /\ t.init = s.init
      /\ t.pmiEntry = s.pmiEntry /\ t.mcaPending = s.mcaPending
      /\ t.hard = (Special(s) \/ HasPending(s))
  BY Names, Zenon DEF Updated, EnvOK
<1>3. Special(t) = Special(s)
  BY <1>2 DEF Special, McaDeliverable, InitDeliverable, PmiDeliverable
<1>4. HasPending(t) = HasPending(s)
  BY <1>2 DEF HasPending, FindIrr, VectorUnmasked, FindIsr
<1> QED
  BY <1>1, <1>2, <1>3, <1>4 DEF Exact

LEMMA SetPsrOK ==
    ASSUME NEW s, EnvOK(s),
           NEW i \in BOOLEAN, NEW ic \in BOOLEAN, NEW mc \in BOOLEAN
    PROVE  EnvOK(SetPsr(s, i, ic, mc))
<1> DEFINE inflight == s.icInflight \/ ic # s.ic
           deferred == i /\ (s.iDeferred \/ (~s.i /\ inflight))
           t == [s EXCEPT !.i = i, !.ic = ic, !.mc = mc,
                          !.icInflight = inflight, !.iDeferred = deferred]
<1>1. inflight \in BOOLEAN /\ deferred \in BOOLEAN
  OBVIOUS
<1>2. EnvOK(t)
  <2> HIDE DEF inflight, deferred
  <2> QED BY <1>1, BooleanFields, Zenon DEF EnvOK
<1>3. EnvOK(Updated(t))
  BY <1>2, UpdatedExact
<1> QED
  BY <1>2, <1>3 DEF SetPsr

\* ia64_set_psr recomputes the request when PSR.i, ic or mc changed, and
\* otherwise changes nothing that the request depends on.
LEMMA SetPsrExact ==
    ASSUME NEW s, EnvOK(s), Exact(s),
           NEW i \in BOOLEAN, NEW ic \in BOOLEAN, NEW mc \in BOOLEAN
    PROVE  Exact(SetPsr(s, i, ic, mc))
<1> DEFINE inflight == s.icInflight \/ ic # s.ic
           deferred == i /\ (s.iDeferred \/ (~s.i /\ inflight))
           t == [s EXCEPT !.i = i, !.ic = ic, !.mc = mc,
                          !.icInflight = inflight, !.iDeferred = deferred]
<1>1. inflight \in BOOLEAN /\ deferred \in BOOLEAN
  OBVIOUS
<1>2. EnvOK(t)
  <2> HIDE DEF inflight, deferred
  <2> QED BY <1>1, BooleanFields, Zenon DEF EnvOK
<1>3. CASE <<i, ic, mc>> # <<s.i, s.ic, s.mc>>
  <2>1. SetPsr(s, i, ic, mc) = Updated(t)
    BY <1>3 DEF SetPsr
  <2> QED
    BY <1>2, <2>1, UpdatedExact
<1>4. CASE <<i, ic, mc>> = <<s.i, s.ic, s.mc>>
  <2>1. SetPsr(s, i, ic, mc) = t
    BY <1>4 DEF SetPsr
  <2>2. Relevant(t) = Relevant(s)
    BY <1>4, Names, Zenon DEF Relevant, EnvOK
  <2> QED
    BY <2>1, <2>2, SameRelevant
<1> QED
  BY <1>3, <1>4

LEMMA SerializeDataOK ==
    ASSUME NEW s, EnvOK(s)
    PROVE  /\ EnvOK(SerializeData(s))
           /\ Exact(s) => Exact(SerializeData(s))
<1>1. EnvOK(SerializeData(s))
  BY BooleanFields, Zenon DEF SerializeData, EnvOK
<1>2. Relevant(SerializeData(s)) = Relevant(s)
  BY Names, Zenon DEF SerializeData, EnvOK, Relevant
<1> QED
  BY <1>1, <1>2, SameRelevant

LEMMA EntryPsrOK ==
    ASSUME NEW s, EnvOK(s)
    PROVE  /\ EnvOK(EntryPsr(s))
           /\ Exact(s) => Exact(EntryPsr(s))
BY SetPsrOK, SetPsrExact, SerializeDataOK, Zenon DEF EntryPsr

LEMMA SetIrqExact ==
    ASSUME NEW s, EnvOK(s), NEW v \in 0 .. 255
    PROVE  EnvOK(SetIrq(s, v)) /\ Exact(SetIrq(s, v))
<1>1. s.irr \union {v} \in SUBSET (0 .. 255)
  BY FieldsOf
<1>2. EnvOK([s EXCEPT !.irr = s.irr \union {v}])
  BY <1>1, BitmapFields, ZenonT(60) DEF EnvOK
<1> QED
  BY <1>2, UpdatedExact DEF SetIrq

LEMMA UpdateCmcExact ==
    ASSUME NEW s, EnvOK(s), Exact(s)
    PROVE  EnvOK(UpdateCmc(s)) /\ Exact(UpdateCmc(s))
<1>1. EnvOK([s EXCEPT !.cmcPending = FALSE])
  BY BooleanFields, Zenon DEF EnvOK
<1>2. s.cmcv # MASKED => s.cmcv \in 0 .. 255
  BY FieldsOf DEF MASKED
<1> QED
  BY <1>1, <1>2, SetIrqExact DEF UpdateCmc

LEMMA ApplyWorkExact ==
    ASSUME NEW s, EnvOK(s), Exact(s), NEW w \in Works
    PROVE  EnvOK(ApplyWork(s, w)) /\ Exact(ApplyWork(s, w))
<1> USE DEF Works
<1>1. CASE w.kind = "IRQ"
  BY <1>1, SetIrqExact DEF ApplyWork
<1>2. CASE w.kind = "PMI"
  <2>1. EnvOK([s EXCEPT !.pmi = @ \union {w.arg}])
    <3>1. s.pmi \union {w.arg} \in FieldType.pmi
      BY FieldsOf, BitmapFields
    <3> QED
      BY <3>1, Zenon DEF EnvOK
  <2> QED
    BY <1>2, <2>1, UpdatedExact DEF ApplyWork
<1>3. CASE w.kind = "INIT"
  <2>1. EnvOK([s EXCEPT !.init = TRUE,
                        !.reason = IF ~s.init \/ w.arg > s.reason
                                   THEN w.arg ELSE s.reason])
    BY FieldsOf, BooleanFields, ByteFields, ZenonT(60) DEF EnvOK
  <2> QED
    BY <1>3, <2>1, UpdatedExact DEF ApplyWork, RequestInit
<1>4. CASE w.kind = "MCA"
  <2>1. EnvOK([s EXCEPT !.mcaPendingId = w.arg, !.mcaPending = TRUE])
    BY BooleanFields, ByteFields, ZenonT(60) DEF EnvOK
  <2> QED
    BY <1>4, <2>1, UpdatedExact DEF ApplyWork, RequestMca
<1>5. CASE w.kind = "CMC"
  <2> DEFINE t == [s EXCEPT !.cmcPending = TRUE]
  <2>1. EnvOK(t)
    BY BooleanFields, Zenon DEF EnvOK
  <2>2. Relevant(t) = Relevant(s)
    BY Names, Zenon DEF EnvOK, Relevant
  <2> QED
    BY <1>5, <2>1, <2>2, SameRelevant, UpdateCmcExact DEF ApplyWork
<1>6. CASE w.kind = "INIT_ENTRY"
  <2> DEFINE t == [s EXCEPT !.initEntry = (w.arg # 0)]
  <2>1. EnvOK(t)
    BY BooleanFields, Zenon DEF EnvOK
  <2>2. Relevant(t) = Relevant(s)
    BY Names, Zenon DEF EnvOK, Relevant
  <2> QED
    BY <1>6, <2>1, <2>2, SameRelevant DEF ApplyWork
<1> QED
  BY <1>1, <1>2, <1>3, <1>4, <1>5, <1>6

LEMMA ResetOK ==
    ASSUME NEW c \in CPU, NEW e \in BOOLEAN
    PROVE  EnvOK(ResetEnv(c, e))
<1> DEFINE r == ResetEnv(c, e)
<1>1. DOMAIN r = DOMAIN FieldType
  BY Zenon DEF ResetEnv, FieldType
<1>2. {} \in SUBSET (0 .. 255) /\ 0 \in 0 .. 255 /\ MASKED \in MASKED .. 255
  BY DEF MASKED
<1>3. <<c, 0>> \in Nat \X Nat
  BY CpuAssumption
<1>4. /\ [mmi |-> FALSE, mic |-> 0] \in [mmi : BOOLEAN, mic : 0 .. 15]
      /\ [disable |-> TRUE, priority |-> 0] \in [disable : BOOLEAN, priority : 0 .. 15]
  OBVIOUS
<1>5. "NONE" \in SaveAreas /\ (c # 0) \in BOOLEAN
  BY Zenon DEF SaveAreas
<1>6. /\ r.irr \in FieldType.irr /\ r.isr \in FieldType.isr
      /\ r.tpr \in FieldType.tpr /\ r.i \in FieldType.i
      /\ r.ic \in FieldType.ic /\ r.mc \in FieldType.mc
      /\ r.icInflight \in FieldType.icInflight /\ r.iDeferred \in FieldType.iDeferred
      /\ r.pmi \in FieldType.pmi /\ r.pmiEntry \in FieldType.pmiEntry
      /\ r.init \in FieldType.init /\ r.reason \in FieldType.reason
      /\ r.mcaPending \in FieldType.mcaPending /\ r.mcaPendingId \in FieldType.mcaPendingId
      /\ r.mcaActive \in FieldType.mcaActive /\ r.mcaActiveId \in FieldType.mcaActiveId
  BY <1>2, <1>3, <1>4, <1>5, Zenon DEF ResetEnv, FieldType
<1>9. /\ r.initActive \in FieldType.initActive /\ r.initEntry \in FieldType.initEntry
      /\ r.saveArea \in FieldType.saveArea /\ r.context \in FieldType.context
      /\ r.cmcv \in FieldType.cmcv /\ r.cmcPending \in FieldType.cmcPending
      /\ r.hard \in FieldType.hard /\ r.haltRequest \in FieldType.haltRequest
      /\ r.exec \in FieldType.exec /\ r.halted \in FieldType.halted
      /\ r.haltWake \in FieldType.haltWake /\ r.lid \in FieldType.lid
      /\ r.xtp \in FieldType.xtp
  BY <1>2, <1>3, <1>4, <1>5, Zenon DEF ResetEnv, FieldType
<1>7. DOMAIN FieldType = {"irr", "isr", "tpr", "i", "ic", "mc",
          "icInflight", "iDeferred", "pmi", "pmiEntry", "init", "reason",
          "mcaPending", "mcaPendingId", "mcaActive", "mcaActiveId", "initActive", "initEntry",
          "saveArea", "context", "cmcv", "cmcPending", "hard", "haltRequest",
          "exec", "halted", "haltWake", "lid", "xtp"}
  BY Zenon DEF FieldType
<1>8. ASSUME NEW f \in DOMAIN FieldType PROVE r[f] \in FieldType[f]
  <2> HIDE DEF r
  <2> QED
    BY <1>6, <1>9, <1>7, Zenon
<1> QED
  BY <1>1, <1>8, Zenon DEF EnvOK

LEMMA ResetExact ==
    ASSUME NEW c \in CPU, NEW e \in BOOLEAN
    PROVE  Exact(ResetEnv(c, e))
<1>2. HighestNormal({}) = SPURIOUS
  BY DEF HighestNormal
<1>3. ~HasPending(ResetEnv(c, e))
  BY <1>2 DEF ResetEnv, HasPending, FindIrr
<1>4. ~Special(ResetEnv(c, e))
  BY DEF ResetEnv, Special, McaDeliverable, InitDeliverable, PmiDeliverable
<1>5. ResetEnv(c, e).hard = FALSE
  BY DEF ResetEnv
<1> QED
  BY <1>3, <1>4, <1>5, Zenon DEF Exact

\* The four ways into a handler, and the request that is dropped.
LEMMA EntriesExact ==
    ASSUME NEW s, EnvOK(s), Exact(s)
    PROVE  /\ EnvOK(DropMca(s)) /\ Exact(DropMca(s))
           /\ EnvOK(EnterMca(s)) /\ Exact(EnterMca(s))
           /\ EnvOK(EnterInit(s)) /\ Exact(EnterInit(s))
           /\ EnvOK(EnterPmi(s)) /\ Exact(EnterPmi(s))
           /\ EnvOK(EnterExternal(s)) /\ Exact(EnterExternal(s))
<1>1. EnvOK(DropMca(s)) /\ Exact(DropMca(s))
  <2>1. EnvOK([s EXCEPT !.mcaPending = FALSE])
    BY BooleanFields, Zenon DEF EnvOK
  <2> QED
    BY <2>1, UpdatedExact DEF DropMca
<1>2. EnvOK(EnterMca(s)) /\ Exact(EnterMca(s))
  <2>1. EnvOK([s EXCEPT !.mcaPending = FALSE, !.mcaActive = TRUE,
                        !.mcaActiveId = s.mcaPendingId,
                        !.context = TRUE, !.halted = FALSE])
    <3>1. s.mcaPendingId \in 0 .. 255
      BY FieldsOf
    <3>2. s.mcaPendingId \in FieldType.mcaActiveId
      BY <3>1, ByteFields, Zenon
    <3> QED
      BY <3>2, BooleanFields, Zenon DEF EnvOK
  <2> QED
    BY <2>1, EntryPsrOK, UpdatedExact DEF EnterMca
<1>3. EnvOK(EnterInit(s)) /\ Exact(EnterInit(s))
  <2>1. EnvOK([s EXCEPT !.init = FALSE, !.reason = 0, !.initActive = TRUE,
                        !.context = TRUE, !.halted = FALSE])
    BY BooleanFields, ZeroByte, Zenon DEF EnvOK
  <2> QED
    BY <2>1, EntryPsrOK, UpdatedExact DEF EnterInit
<1>4. EnvOK(EnterPmi(s)) /\ Exact(EnterPmi(s))
  <2>1. ASSUME NEW v
        PROVE  EnvOK([s EXCEPT !.pmi = s.pmi \ {v}, !.halted = FALSE])
    <3>1. s.pmi \ {v} \in FieldType.pmi
      BY FieldsOf, BitmapFields
    <3> QED
      BY <3>1, BooleanFields, Zenon DEF EnvOK
  <2> QED
    BY <2>1, EntryPsrOK, UpdatedExact, Zenon DEF EnterPmi
<1>5. EnvOK(EnterExternal(s)) /\ Exact(EnterExternal(s))
  <2> DEFINE t == SetPsr(s, FALSE, FALSE, s.mc)
  <2>1. EnvOK(t) /\ Exact(t)
    <3>1. s.mc \in BOOLEAN
      BY FieldsOf
    <3> QED
      BY <3>1, SetPsrOK, SetPsrExact, Zenon
  <2> HIDE DEF t
  <2>2. EnvOK([t EXCEPT !.icInflight = FALSE, !.halted = FALSE])
    BY <2>1, BooleanFields, Zenon DEF EnvOK
  <2>3. Relevant([t EXCEPT !.icInflight = FALSE, !.halted = FALSE]) = Relevant(t)
    BY <2>1, Names, Zenon DEF EnvOK, Relevant
  <2> QED
    BY <2>1, <2>2, <2>3, SameRelevant, ZenonT(60) DEF EnterExternal, t
<1> QED
  BY <1>1, <1>2, <1>3, <1>4, <1>5

-----------------------------------------------------------------------------
(* The theorem: one step per action.                                       *)

\* A step that replaces one processor's state by an exact one.
LEMMA EnvStep ==
    ASSUME HInv, NEW c \in CPU, NEW t, EnvOK(t), Exact(t),
           env' = [env EXCEPT ![c] = t]
    PROVE  /\ DOMAIN env' = CPU
           /\ \A d \in CPU : EnvOK(env'[d]) /\ Exact(env'[d])
BY DEF HInv, TypeOK, HardTracksPending, Exact

\* A message goes to one of the processors.
LEMMA DestinationInCpu ==
    ASSUME HInv, NEW id, NEW eid, NEW redirect \in BOOLEAN, NEW mode,
           CpusWithLid(id, eid) # {}
    PROVE  Destination(id, eid, redirect, mode) \in CPU
<1> DEFINE r == Least(CpusWithLid(id, eid))
<1>1. r \in CPU
  BY LeastNatural, CpuAssumption DEF CpusWithLid
<1>2. RedirectTarget(r) \in CPU
  <2> DEFINE eligible == {c \in CPU : /\ env[c].lid[2] = env[r].lid[2]
                                      /\ ~env[c].xtp.disable}
             best == {c \in eligible : \A d \in eligible :
                         env[c].xtp.priority <= env[d].xtp.priority}
             after == {c \in best : c >= r}
             priorities == {env[c].xtp.priority : c \in eligible}
  <2>1. CASE eligible = {}
    BY <1>1, <2>1 DEF RedirectTarget
  <2>2. CASE eligible # {}
    <3>1. ASSUME NEW c \in CPU PROVE env[c].xtp.priority \in Nat
      <4>1. env[c].xtp \in [disable : BOOLEAN, priority : 0 .. 15]
        BY FieldsOf DEF HInv, TypeOK
      <4> QED
        BY <4>1, SMTT(40)
    <3>2. priorities \in SUBSET Nat /\ priorities # {}
      BY <2>2, <3>1, Zenon
    <3>3. PICK n \in priorities : \A k \in priorities : n <= k
      <4> HIDE DEF priorities
      <4> QED
        BY <3>2, LeastNatural
    <3>4. best # {}
      BY <3>3
    <3>5. Least(best) \in best
      BY <3>4, LeastNatural, CpuAssumption, Zenon
    <3>6. after # {} => Least(after) \in after
      BY LeastNatural, CpuAssumption, ZenonT(60)
    <3>7. RedirectTarget(r) = IF after # {} THEN Least(after) ELSE Least(best)
      BY <2>2 DEF RedirectTarget
    <3> QED
      BY <3>5, <3>6, <3>7, Zenon
  <2> QED
    BY <2>1, <2>2
<1> QED
  BY <1>1, <1>2 DEF Destination

LEMMA SubmitStep ==
    ASSUME HInv, NEW r, NEW c \in CPU, NEW w \in Works,
           Submit(r, c, w), serving' = serving
    PROVE  HInv'
<1>1. EnvOK(env[c]) /\ Exact(env[c])
  BY DEF HInv, TypeOK, HardTracksPending, Exact
<1>2. CASE r = c
  <2>1. env' = [env EXCEPT ![c] = ApplyWork(env[c], w)] /\ work' = work
    BY <1>2 DEF Submit
  <2>2. EnvOK(ApplyWork(env[c], w)) /\ Exact(ApplyWork(env[c], w))
    BY <1>1, ApplyWorkExact
  <2> QED
    BY <2>1, <2>2, EnvStep DEF HInv, TypeOK, HardTracksPending, Exact
<1>3. CASE r # c
  <2>1. env' = env /\ work' = [work EXCEPT ![c] = Append(@, w)]
    BY <1>3 DEF Submit
  <2>2. work' \in [CPU -> Seq(Works)]
    BY <2>1, SMTT(40) DEF HInv, TypeOK
  <2> QED
    BY <2>1, <2>2 DEF HInv, TypeOK, HardTracksPending
<1> QED
  BY <1>2, <1>3

\* A requester's vector fits the byte that the message carries.
LEMMA MessageWorkType ==
    ASSUME NEW mode \in Modes, NEW v \in 0 .. 255
    PROVE  MessageWork(mode, v) \in Works
<1>1. MessageVector(mode, v) \in 0 .. 255
  BY DEF MessageVector, Modes
<1>2. (IF mode \in {"PMI", "INIT"} THEN mode ELSE "IRQ")
         \in {"IRQ", "PMI", "INIT", "MCA", "CMC", "INIT_ENTRY"}
  BY DEF Modes
<1> QED
  BY <1>1, <1>2 DEF MessageWork, Works

\* The guest's operations.
LEMMA AcceptEoiExact ==
    ASSUME NEW s, EnvOK(s), Exact(s)
    PROVE  /\ EnvOK(Accept(s)) /\ Exact(Accept(s))
           /\ EnvOK(Eoi(s)) /\ Exact(Eoi(s))
<1>1. ASSUME NEW v \in 0 .. 255
      PROVE  EnvOK([s EXCEPT !.irr = s.irr \ {v}, !.isr = s.isr \union {v}])
  <2>2. s.irr \subseteq 0 .. 255 /\ s.isr \subseteq 0 .. 255
    BY FieldsOf, ZenonT(60)
  <2>3. s.irr \ {v} \in SUBSET (0 .. 255) /\ s.isr \union {v} \in SUBSET (0 .. 255)
    BY <2>2, ZenonT(60)
  <2>1. s.irr \ {v} \in FieldType.irr /\ s.isr \union {v} \in FieldType.isr
    BY <2>3, BitmapFields, ZenonT(60)
  <2> QED
    BY <2>1, Zenon DEF EnvOK
<1>2. ASSUME NEW v PROVE EnvOK([s EXCEPT !.isr = s.isr \ {v}])
  <2>1. s.isr \ {v} \in FieldType.isr
    BY FieldsOf, BitmapFields
  <2> QED
    BY <2>1, Zenon DEF EnvOK
<1>3. EnvOK(Accept(s)) /\ Exact(Accept(s))
  BY <1>1, FindIrrType, UpdatedExact, Zenon DEF Accept
<1> QED
  BY <1>2, <1>3, UpdatedExact, Zenon DEF Eoi

LEMMA ResumedExact ==
    ASSUME NEW s, EnvOK(s), Exact(s), NEW p \in PsrValue, NEW cmci \in BOOLEAN
    PROVE  EnvOK(Resumed(s, p, cmci)) /\ Exact(Resumed(s, p, cmci))
<1> DEFINE t == SerializeData(SetPsr(s, p.i, p.ic, p.mc))
           u == [t EXCEPT !.context = FALSE, !.mcaActive = FALSE,
                          !.mcaActiveId = 0, !.initActive = FALSE,
                          !.cmcPending = t.cmcPending \/ cmci]
<1>1. EnvOK(t) /\ Exact(t)
  <2>1. p.i \in BOOLEAN /\ p.ic \in BOOLEAN /\ p.mc \in BOOLEAN
    BY PsrAssumption
  <2> QED
    BY <2>1, SetPsrOK, SetPsrExact, SerializeDataOK, Zenon
<1>2. EnvOK(u) /\ Relevant(u) = Relevant(t)
  <2> HIDE DEF t
  <2>1. t.cmcPending \/ cmci \in BOOLEAN
    OBVIOUS
  <2>2. EnvOK(u)
    BY <1>1, <2>1, BooleanFields, ZeroByte, Zenon DEF EnvOK
  <2>3. Relevant(u) = Relevant(t)
    BY <1>1, Names, Zenon DEF EnvOK, Relevant
  <2> QED
    BY <2>2, <2>3
<1>3. Exact(u)
  BY <1>1, <1>2, SameRelevant
<1>4. EnvOK(UpdateCmc(u))
  BY <1>2, <1>3, UpdateCmcExact
<1> QED
  BY <1>4, UpdatedExact DEF Resumed

\* The history without its last vector.
LEMMA FrontElements ==
    ASSUME NEW S, NEW q \in Seq(S), q # <<>>
    PROVE  /\ SubSeq(q, 1, Len(q) - 1) \in Seq(S)
           /\ Len(SubSeq(q, 1, Len(q) - 1)) = Len(q) - 1
           /\ \A k \in 1 .. Len(q) - 1 : SubSeq(q, 1, Len(q) - 1)[k] = q[k]
<1>1. Len(q) \in Nat /\ Len(q) > 0 /\ \A k \in 1 .. Len(q) : q[k] \in S
  OBVIOUS
<1> DEFINE n == Len(q) - 1
<1>3. n \in Int /\ n >= 0 /\ \A k \in 1 .. n : q[k] \in S
  BY <1>1
<1> HIDE DEF n
<1>4. /\ SubSeq(q, 1, n) \in Seq(S)
      /\ Len(SubSeq(q, 1, n)) = IF 1 <= n THEN n - 1 + 1 ELSE 0
      /\ \A k \in 1 .. n - 1 + 1 : SubSeq(q, 1, n)[k] = q[1 + k - 1]
  BY <1>3
<1>5. Len(SubSeq(q, 1, n)) = n
  BY <1>3, <1>4
<1>6. ASSUME NEW k \in 1 .. n PROVE SubSeq(q, 1, n)[k] = q[k]
  <2>1. k \in 1 .. n - 1 + 1 /\ 1 + k - 1 = k
    BY <1>3
  <2> QED
    BY <1>4, <2>1
<1> QED
  BY <1>4, <1>5, <1>6 DEF n

\* A guest operation replaces its processor's state and leaves the queues.
LEMMA GuestHInv ==
    ASSUME HInv, NEW c \in CPU, NEW t, EnvOK(t), Exact(t), Guest(c, t),
           serving' \in [CPU -> Seq(0 .. 255)]
    PROVE  HInv'
<1>1. env' = [env EXCEPT ![c] = t] /\ work' = work
  BY DEF Guest
<1> QED
  BY <1>1, EnvStep DEF HInv, TypeOK, HardTracksPending, Exact

LEMMA GuestStepHInv ==
    ASSUME HInv, NEW c \in CPU, GuestStep(c)
    PROVE  HInv'
<1> DEFINE s == env[c]
<1>0. EnvOK(s) /\ Exact(s) /\ serving \in [CPU -> Seq(0 .. 255)]
  BY DEF HInv, TypeOK, HardTracksPending, Exact
<1>ss. serving' = serving => serving' \in [CPU -> Seq(0 .. 255)]
  BY <1>0
<1> HIDE DEF s
<1>1. CASE ReadIvr(c)
  <2>1. Guest(c, Accept(s))
    BY <1>1 DEF ReadIvr, s
  <2>2. serving' \in [CPU -> Seq(0 .. 255)]
    <3>1. FindIrr(s) \in 0 .. 255
      BY <1>0, FindIrrType
    <3>2. Append(serving[c], FindIrr(s)) \in Seq(0 .. 255) /\ serving[c] \in Seq(0 .. 255)
      BY <1>0, <3>1
    <3>3. \E q \in Seq(0 .. 255) : serving' = [serving EXCEPT ![c] = q]
      BY <1>1, <3>2, Zenon DEF ReadIvr, s
    <3> QED
      BY <1>0, <3>3
  <2> QED
    BY <1>0, <2>1, <2>2, AcceptEoiExact, GuestHInv
<1>2. CASE WriteEoi(c)
  <2>1. Guest(c, Eoi(s))
    BY <1>2, Zenon DEF WriteEoi, s
  <2>2. serving' \in [CPU -> Seq(0 .. 255)]
    <3>1. serving[c] # <<>> => SubSeq(serving[c], 1, Len(serving[c]) - 1) \in Seq(0 .. 255)
      BY <1>0, FrontElements
    <3>2. \E q \in Seq(0 .. 255) : serving' = [serving EXCEPT ![c] = q]
      BY <1>0, <1>2, <3>1, Zenon DEF WriteEoi
    <3> QED
      BY <1>0, <3>2
  <2> QED
    BY <1>0, <2>1, <2>2, AcceptEoiExact, GuestHInv
<1>3. CASE WriteTpr(c)
  <2>1. PICK t \in TprValue : Guest(c, Updated([s EXCEPT !.tpr = t]))
    BY <1>3 DEF WriteTpr, s
  <2>2. EnvOK([s EXCEPT !.tpr = t])
    BY <1>0, TprAssumption, TprField, Zenon DEF EnvOK
  <2>3. serving' = serving
    BY <1>3 DEF WriteTpr
  <2> QED
    BY <1>ss, <2>1, <2>2, <2>3, UpdatedExact, GuestHInv
<1>4. CASE WriteLid(c)
  <2>1. PICK l \in LidValue : Guest(c, [s EXCEPT !.lid = l])
    BY <1>4 DEF WriteLid, s
  <2>2. EnvOK([s EXCEPT !.lid = l])
    BY <1>0, LidAssumption, LidField, Zenon DEF EnvOK
  <2>3. Relevant([s EXCEPT !.lid = l]) = Relevant(s)
    BY <1>0, Names, Zenon DEF EnvOK, Relevant
  <2>4. serving' = serving
    BY <1>4 DEF WriteLid
  <2> QED
    BY <1>0, <1>ss, <2>1, <2>2, <2>3, <2>4, SameRelevant, GuestHInv
<1>5. CASE WriteXtp(c)
  <2>1. PICK x \in XtpValue : Guest(c, [s EXCEPT !.xtp = x])
    BY <1>5 DEF WriteXtp, s
  <2>2. EnvOK([s EXCEPT !.xtp = x])
    BY <1>0, XtpAssumption, XtpField, Zenon DEF EnvOK
  <2>3. Relevant([s EXCEPT !.xtp = x]) = Relevant(s)
    BY <1>0, Names, Zenon DEF EnvOK, Relevant
  <2>4. serving' = serving
    BY <1>5 DEF WriteXtp
  <2> QED
    BY <1>0, <1>ss, <2>1, <2>2, <2>3, <2>4, SameRelevant, GuestHInv
<1>6. CASE WriteCmcv(c)
  <2>1. PICK v \in CmcVector \union {MASKED} :
           Guest(c, UpdateCmc([s EXCEPT !.cmcv = v]))
    BY <1>6 DEF WriteCmcv, s
  <2>2. v \in MASKED .. 255
    BY VectorAssumption DEF MASKED
  <2>3. EnvOK([s EXCEPT !.cmcv = v])
    BY <1>0, <2>2, CmcvField, Zenon DEF EnvOK
  <2>4. Relevant([s EXCEPT !.cmcv = v]) = Relevant(s)
    BY <1>0, Names, Zenon DEF EnvOK, Relevant
  <2>5. serving' = serving
    BY <1>6 DEF WriteCmcv
  <2> QED
    BY <1>0, <1>ss, <2>1, <2>3, <2>4, <2>5, SameRelevant, UpdateCmcExact, GuestHInv, Zenon
<1>7. CASE ChangePsr(c)
  <2>1. PICK p \in PsrValue : Guest(c, SetPsr(s, p.i, p.ic, p.mc))
    BY <1>7 DEF ChangePsr, s
  <2>2. p.i \in BOOLEAN /\ p.ic \in BOOLEAN /\ p.mc \in BOOLEAN
    BY PsrAssumption
  <2>3. serving' = serving
    BY <1>7 DEF ChangePsr
  <2> QED
    BY <1>0, <1>ss, <2>1, <2>2, <2>3, SetPsrOK, SetPsrExact, GuestHInv, Zenon
<1>8. CASE Serialize(c)
  <2>1. serving' = serving
    BY <1>8 DEF Serialize
  <2>2. CASE Guest(c, SerializeData(s))
    BY <1>0, <1>ss, <2>1, <2>2, SerializeDataOK, GuestHInv
  <2>3. CASE Guest(c, [s EXCEPT !.iDeferred = FALSE])
    <3>1. EnvOK([s EXCEPT !.iDeferred = FALSE])
      BY <1>0, BooleanFields, Zenon DEF EnvOK
    <3>2. Relevant([s EXCEPT !.iDeferred = FALSE]) = Relevant(s)
      BY <1>0, Names, Zenon DEF EnvOK, Relevant
    <3> QED
      BY <1>0, <1>ss, <2>1, <2>3, <3>1, <3>2, SameRelevant, GuestHInv, Zenon
  <2> QED
    BY <1>8, <2>2, <2>3 DEF Serialize, s
<1>9. CASE Fault(c)
  <2> DEFINE t == SetPsr(s, FALSE, FALSE, s.mc)
             u == [t EXCEPT !.icInflight = FALSE]
  <2>1. Guest(c, u) /\ serving' = serving
    BY <1>9 DEF Fault, s
  <2>2. EnvOK(t) /\ Exact(t)
    <3>1. s.mc \in BOOLEAN
      BY <1>0, FieldsOf
    <3> QED
      BY <1>0, <3>1, SetPsrOK, SetPsrExact, Zenon
  <2> HIDE DEF t
  <2>3. EnvOK(u)
    BY <2>2, BooleanFields, Zenon DEF EnvOK
  <2>4. Relevant(u) = Relevant(t)
    BY <2>2, Names, Zenon DEF EnvOK, Relevant
  <2> QED
    BY <1>ss, <2>1, <2>2, <2>3, <2>4, SameRelevant, GuestHInv
<1>10. CASE PalHalt(c)
  <2> DEFINE t == [s EXCEPT !.haltWake = TRUE, !.haltRequest = TRUE]
  <2>1. Guest(c, t) /\ serving' = serving
    BY <1>10 DEF PalHalt, s
  <2>2. EnvOK(t) /\ Relevant(t) = Relevant(s)
    BY <1>0, Names, BooleanFields, Zenon DEF EnvOK, Relevant
  <2> QED
    BY <1>0, <1>ss, <2>1, <2>2, SameRelevant, GuestHInv
<1>11. CASE PalPmiEntrypoint(c)
  <2>1. PICK e \in PmiEntry : Guest(c, Updated([s EXCEPT !.pmiEntry = e]))
    BY <1>11 DEF PalPmiEntrypoint, s
  <2>2. EnvOK([s EXCEPT !.pmiEntry = e])
    BY <1>0, EntryAssumption, BooleanFields, Zenon DEF EnvOK
  <2>3. serving' = serving
    BY <1>11 DEF PalPmiEntrypoint
  <2> QED
    BY <1>ss, <2>1, <2>2, <2>3, UpdatedExact, GuestHInv
<1>12. CASE PalMcRegisterMem(c)
  <2>1. PICK a \in SaveArea : Guest(c, [s EXCEPT !.saveArea = a])
    BY <1>12 DEF PalMcRegisterMem, s
  <2>2. EnvOK([s EXCEPT !.saveArea = a])
    <3>1. a \in SaveAreas
      BY EntryAssumption DEF SaveAreas
    <3> QED
      BY <1>0, <3>1, AreaField, Zenon DEF EnvOK
  <2>3. Relevant([s EXCEPT !.saveArea = a]) = Relevant(s)
    BY <1>0, Names, Zenon DEF EnvOK, Relevant
  <2>4. serving' = serving
    BY <1>12 DEF PalMcRegisterMem
  <2> QED
    BY <1>0, <1>ss, <2>1, <2>2, <2>3, <2>4, SameRelevant, GuestHInv, Zenon
<1>13. CASE PalMcResume(c)
  <2>1. PICK p \in PsrValue, cmci \in BOOLEAN : Guest(c, Resumed(s, p, cmci))
    BY <1>13 DEF PalMcResume, s
  <2>2. serving' = serving
    BY <1>13 DEF PalMcResume
  <2> QED
    BY <1>0, <1>ss, <2>1, <2>2, ResumedExact, GuestHInv
<1> QED
  BY <1>1, <1>2, <1>3, <1>4, <1>5, <1>6, <1>7, <1>8, <1>9, <1>10, <1>11,
     <1>12, <1>13, Zenon DEF GuestStep

LEMMA LoopStepHInv ==
    ASSUME HInv, NEW c \in CPU, LoopStep(c)
    PROVE  HInv'
<1> DEFINE s == env[c]
<1>0. EnvOK(s) /\ Exact(s) /\ DOMAIN env = CPU
  BY DEF HInv, TypeOK, HardTracksPending, Exact
<1> HIDE DEF s
<1>1. CASE RunWork(c)
  <2>1. work[c] \in Seq(Works) /\ work[c] # <<>>
    BY <1>1 DEF RunWork, HInv, TypeOK
  <2>2. Head(work[c]) \in Works /\ Tail(work[c]) \in Seq(Works)
    BY <2>1
  <2>3. work' \in [CPU -> Seq(Works)]
    BY <1>1, <2>2 DEF RunWork, HInv, TypeOK
  <2>4. EnvOK(ApplyWork(s, Head(work[c]))) /\ Exact(ApplyWork(s, Head(work[c])))
    BY <1>0, <2>2, ApplyWorkExact
  <2>5. env' = [env EXCEPT ![c] = ApplyWork(s, Head(work[c]))] /\ serving' = serving
    BY <1>1 DEF RunWork, s
  <2> QED
    BY <2>3, <2>4, <2>5, EnvStep DEF HInv, TypeOK, HardTracksPending, Exact
<1>2. CASE EnterExec(c)
  <2> DEFINE t == [s EXCEPT !.exec = TRUE, !.halted = FALSE]
  <2>1. env' = [env EXCEPT ![c] = t] /\ work' = work /\ serving' = serving
    BY <1>0, <1>2, Zenon DEF EnterExec, s
  <2>2. EnvOK(t)
    BY <1>0, BooleanFields, Zenon DEF EnvOK
  <2>3. Relevant(t) = Relevant(s)
    BY <1>0, Names, Zenon DEF EnvOK, Relevant
  <2>4. Exact(t)
    BY <1>0, <2>3, SameRelevant
  <2> HIDE DEF t
  <2>5. work' \in [CPU -> Seq(Works)] /\ serving' \in [CPU -> Seq(0 .. 255)]
    BY <2>1 DEF HInv, TypeOK
  <2>6. DOMAIN env' = CPU /\ \A d \in CPU : EnvOK(env'[d]) /\ Exact(env'[d])
    BY <2>1, <2>2, <2>4, EnvStep, Zenon
  <2> QED
    BY <2>5, <2>6 DEF HInv, TypeOK, HardTracksPending, Exact
<1>3. CASE LeaveExec(c)
  <2> DEFINE t == [s EXCEPT !.exec = FALSE]
  <2>1. env' = [env EXCEPT ![c] = t] /\ work' = work /\ serving' = serving
    BY <1>0, <1>3 DEF LeaveExec, s
  <2>2. EnvOK(t)
    BY <1>0, BooleanFields, Zenon DEF EnvOK
  <2>3. Relevant(t) = Relevant(s)
    BY <1>0, Names, Zenon DEF EnvOK, Relevant
  <2>4. Exact(t)
    BY <1>0, <2>3, SameRelevant, Zenon
  <2> HIDE DEF t
  <2>5. work' \in [CPU -> Seq(Works)] /\ serving' \in [CPU -> Seq(0 .. 255)]
    BY <2>1 DEF HInv, TypeOK
  <2>6. DOMAIN env' = CPU /\ \A d \in CPU : EnvOK(env'[d]) /\ Exact(env'[d])
    BY <2>1, <2>2, <2>4, EnvStep, Zenon
  <2> QED
    BY <2>5, <2>6 DEF HInv, TypeOK, HardTracksPending, Exact
<1>4. CASE TakeHalt(c)
  <2> DEFINE t == [s EXCEPT !.haltRequest = FALSE, !.halted = TRUE, !.exec = FALSE]
  <2>1. env' = [env EXCEPT ![c] = t] /\ work' = work /\ serving' = serving
    BY <1>0, <1>4, Zenon DEF TakeHalt, s
  <2>2. EnvOK(t)
    BY <1>0, BooleanFields, Zenon DEF EnvOK
  <2>3. Relevant(t) = Relevant(s)
    BY <1>0, Names, Zenon DEF EnvOK, Relevant
  <2>4. Exact(t)
    BY <1>0, <2>3, SameRelevant, Zenon
  <2> HIDE DEF t
  <2>5. work' \in [CPU -> Seq(Works)] /\ serving' \in [CPU -> Seq(0 .. 255)]
    BY <2>1 DEF HInv, TypeOK
  <2>6. DOMAIN env' = CPU /\ \A d \in CPU : EnvOK(env'[d]) /\ Exact(env'[d])
    BY <2>1, <2>2, <2>4, EnvStep, Zenon
  <2> QED
    BY <2>5, <2>6 DEF HInv, TypeOK, HardTracksPending, Exact
<1> QED
  BY <1>1, <1>2, <1>3, <1>4 DEF LoopStep

LEMMA ExecInterruptHInv ==
    ASSUME HInv, NEW c \in CPU, ExecInterrupt(c)
    PROVE  HInv'
<1> DEFINE s == env[c]
<1>0. EnvOK(s) /\ Exact(s)
  BY DEF HInv, TypeOK, HardTracksPending, Exact
<1>1. EnvOK(DropMca(s)) /\ Exact(DropMca(s))
  BY <1>0, EntriesExact
<1>2. ASSUME NEW t, EnvOK(t), Exact(t), env' = [env EXCEPT ![c] = t],
             work' = work, serving' \in [CPU -> Seq(0 .. 255)]
      PROVE  HInv'
  BY <1>2, EnvStep DEF HInv, TypeOK, HardTracksPending, Exact
<1>3. serving' = serving => serving' \in [CPU -> Seq(0 .. 255)]
  BY DEF HInv, TypeOK
<1>4. CASE ExecMca(c)
  BY <1>0, <1>2, <1>3, <1>4, EntriesExact, Zenon DEF ExecMca
<1>5. CASE ExecInit(c)
  <2>1. CASE ~s.initActive /\ s.initEntry /\ CanSave(s)
    BY <1>1, <1>2, <1>3, <1>5, <2>1, EntriesExact DEF ExecInit
  <2>2. CASE ~(~s.initActive /\ s.initEntry /\ CanSave(s))
    <3>1. env' = [env EXCEPT ![c] = ResetEnv(c, TRUE)] /\ work' = work
      BY <1>5, <2>2, Zenon DEF ExecInit
    <3>2. serving' = [serving EXCEPT ![c] = <<>>]
      BY <1>5, <2>2, Zenon DEF ExecInit
    <3>3. serving' \in [CPU -> Seq(0 .. 255)]
      BY <3>2 DEF HInv, TypeOK
    <3> QED
      BY <1>2, <3>1, <3>3, ResetOK, ResetExact, Zenon
  <2> QED
    BY <2>1, <2>2
<1>6. CASE ExecPmi(c)
  BY <1>1, <1>2, <1>3, <1>6, EntriesExact, Zenon DEF ExecPmi
<1>7. CASE ExecExternal(c)
  BY <1>1, <1>2, <1>3, <1>7, EntriesExact, Zenon DEF ExecExternal
<1>8. CASE ExecDropMca(c)
  BY <1>1, <1>2, <1>3, <1>8, Zenon DEF ExecDropMca
<1> QED
  BY <1>4, <1>5, <1>6, <1>7, <1>8 DEF ExecInterrupt

LEMMA HInvInit == Init => HInv
<1> SUFFICES ASSUME Init PROVE HInv
  OBVIOUS
<1>1. \A c \in CPU : EnvOK(env[c]) /\ Exact(env[c])
  BY ResetOK, ResetExact, Zenon DEF Init
<1>2. DOMAIN env = CPU /\ work \in [CPU -> Seq(Works)] /\ serving \in [CPU -> Seq(0 .. 255)]
  BY DEF Init
<1> QED
  BY <1>1, <1>2 DEF HInv, TypeOK, HardTracksPending, Exact

LEMMA HInvStep == HInv /\ [Next]_vars => HInv'
<1> SUFFICES ASSUME HInv, [Next]_vars PROVE HInv'
  OBVIOUS
<1>1. CASE SendMessage
  <2>1. PICK r \in Requesters, lid \in LidValue, redirect \in BOOLEAN,
             mode \in Mode, v \in Vector \union PmiVector :
               Deliver(r, lid[1], lid[2], redirect, mode, v)
    BY <1>1 DEF SendMessage
  <2>2. MessageWork(mode, v) \in Works
    BY MessageWorkType, ModeAssumption, VectorAssumption, PmiAssumption
  <2>3. Destination(lid[1], lid[2], redirect, mode) \in CPU
    BY <2>1, DestinationInCpu DEF Deliver, Deliverable
  <2> QED
    BY <2>1, <2>2, <2>3, SubmitStep DEF Deliver
<1>2. CASE RasRequest
  BY <1>2, SubmitStep, RasAssumption DEF RasRequest
<1>3. ASSUME NEW c \in CPU, LoopStep(c) \/ ExecInterrupt(c) \/ GuestStep(c)
      PROVE  HInv'
  BY <1>3, LoopStepHInv, ExecInterruptHInv, GuestStepHInv
<1>4. CASE UNCHANGED vars
  BY <1>4 DEF vars, HInv, TypeOK, HardTracksPending
<1> QED
  BY <1>1, <1>2, <1>3, <1>4 DEF Next

\* The interrupt state of every processor, its work queue and the history
\* keep their types (the fields of CPUIA64State in cpu.h).
THEOREM TypeCorrect == Spec => []TypeOK
<1>1. HInv => TypeOK
  BY DEF HInv
<1> QED
  BY <1>1, HInvInit, HInvStep, PTL DEF Spec

\* CPU_INTERRUPT_HARD is exact in every reachable state: every operation that
\* changes what is deliverable ends in ia64_sapic_update_interrupt().
THEOREM HardExact == Spec => []HardTracksPending
<1>1. HInv => HardTracksPending
  BY DEF HInv
<1> QED
  BY <1>1, HInvInit, HInvStep, PTL DEF Spec
-----------------------------------------------------------------------------
(* Deferred PSR.i, corrected errors, and the context of machine checks.    *)

LEMMA RasNames ==
    /\ "i" \in DOMAIN FieldType /\ "icInflight" \in DOMAIN FieldType
    /\ "iDeferred" \in DOMAIN FieldType /\ "cmcPending" \in DOMAIN FieldType
    /\ "mcaActive" \in DOMAIN FieldType /\ "initActive" \in DOMAIN FieldType
    /\ "context" \in DOMAIN FieldType
BY Zenon DEF FieldType

\* What DeferralIsInFlight, ActiveHasContext and CmcNotStranded say of one
\* processor's state.
Deferral(s) == s.iDeferred => s.i /\ s.icInflight
Context(s) == s.mcaActive \/ s.initActive => s.context
Announced(s) == s.cmcPending => s.cmcv = MASKED \/ ~VectorValid(s.cmcv)
Sound(s) == Deferral(s) /\ Context(s) /\ Announced(s)

\* An operation that keeps what is sound and forgets no machine check.
Good(s, t) == (Sound(s) => Sound(t)) /\ (s.mcaPending => t.mcaPending)

\* An operation that touches none of it.
Calm(s, t) ==
    /\ t.i = s.i /\ t.icInflight = s.icInflight /\ t.iDeferred = s.iDeferred
    /\ t.mcaActive = s.mcaActive /\ t.initActive = s.initActive
    /\ t.context = s.context /\ t.cmcPending = s.cmcPending
    /\ t.cmcv = s.cmcv /\ t.mcaPending = s.mcaPending

LEMMA CalmGood ==
    ASSUME NEW s, NEW t, Calm(s, t)
    PROVE  /\ Good(s, t)
           /\ Deferral(s) => Deferral(t)
           /\ Context(s) => Context(t)
BY Zenon DEF Calm, Good, Sound, Deferral, Context, Announced

LEMMA GoodTransitive ==
    ASSUME NEW s, NEW t, NEW u, Good(s, t), Good(t, u)
    PROVE  Good(s, u)
BY Zenon DEF Good

LEMMA UpdatedCalm ==
    ASSUME NEW s, EnvOK(s)
    PROVE  Calm(s, Updated(s)) /\ Good(s, Updated(s)) /\ EnvOK(Updated(s))
<1>1. Calm(s, Updated(s))
  BY Names, RasNames, Zenon DEF EnvOK, Updated, Calm
<1> QED
  BY <1>1, CalmGood, UpdatedExact

\* ia64_set_psr defers an unmasking only behind a change in flight, and a
\* masked PSR.i is never deferred.
LEMMA SetPsrGood ==
    ASSUME NEW s, EnvOK(s),
           NEW i \in BOOLEAN, NEW ic \in BOOLEAN, NEW mc \in BOOLEAN
    PROVE  LET t == SetPsr(s, i, ic, mc) IN
           /\ EnvOK(t) /\ Good(s, t)
           /\ i = FALSE => ~t.iDeferred
           /\ Context(s) => Context(t)
<1> DEFINE inflight == s.icInflight \/ ic # s.ic
           deferred == i /\ (s.iDeferred \/ (~s.i /\ inflight))
           t == [s EXCEPT !.i = i, !.ic = ic, !.mc = mc,
                          !.icInflight = inflight, !.iDeferred = deferred]
<1>0. /\ Deferral(s) => (deferred => i /\ inflight)
      /\ i = FALSE => ~deferred
  BY Zenon DEF Deferral
<1>1. inflight \in BOOLEAN /\ deferred \in BOOLEAN
  OBVIOUS
<1>3. SetPsr(s, i, ic, mc) = t \/ SetPsr(s, i, ic, mc) = Updated(t)
  BY DEF SetPsr
<1> HIDE DEF inflight, deferred
<1>2. EnvOK(t)
  BY <1>1, BooleanFields, Zenon DEF EnvOK
<1>4. /\ t.i = i /\ t.icInflight = inflight /\ t.iDeferred = deferred
      /\ t.mcaActive = s.mcaActive /\ t.initActive = s.initActive
      /\ t.context = s.context /\ t.cmcPending = s.cmcPending
      /\ t.cmcv = s.cmcv /\ t.mcaPending = s.mcaPending
  BY Names, RasNames, Zenon DEF EnvOK
<1> HIDE DEF t
<1>5. Good(s, t) /\ (i = FALSE => ~t.iDeferred) /\ (Context(s) => Context(t))
  BY <1>0, <1>4, Zenon DEF Good, Sound, Deferral, Context, Announced
<1>6. /\ EnvOK(Updated(t)) /\ Good(s, Updated(t))
      /\ (i = FALSE => ~Updated(t).iDeferred) /\ (Context(s) => Context(Updated(t)))
  <2>1. EnvOK(Updated(t)) /\ Calm(t, Updated(t)) /\ Good(t, Updated(t))
    BY <1>2, UpdatedCalm, Zenon
  <2>2. Updated(t).iDeferred = t.iDeferred
    BY <2>1, Zenon DEF Calm
  <2> QED
    BY <1>5, <2>1, <2>2, CalmGood, GoodTransitive, Zenon
<1> QED
  BY <1>2, <1>3, <1>5, <1>6, Zenon

LEMMA SerializeDataGood ==
    ASSUME NEW s, EnvOK(s)
    PROVE  LET t == SerializeData(s) IN
           /\ EnvOK(t) /\ Good(s, t) /\ Deferral(t)
           /\ Context(s) => Context(t)
<1> DEFINE t == SerializeData(s)
<1>1. /\ t.iDeferred = FALSE
      /\ t.mcaActive = s.mcaActive /\ t.initActive = s.initActive
      /\ t.context = s.context /\ t.cmcPending = s.cmcPending
      /\ t.cmcv = s.cmcv /\ t.mcaPending = s.mcaPending
  BY Names, RasNames, Zenon DEF EnvOK, SerializeData
<1>2. EnvOK(t)
  BY SerializeDataOK
<1> HIDE DEF t
<1>3. Good(s, t) /\ Deferral(t) /\ (Context(s) => Context(t))
  BY <1>1, Zenon DEF Good, Sound, Deferral, Context, Announced
<1> QED
  BY <1>2, <1>3 DEF t

LEMMA EntryPsrGood ==
    ASSUME NEW s, EnvOK(s)
    PROVE  EnvOK(EntryPsr(s)) /\ Good(s, EntryPsr(s))
<1>1. EnvOK(SetPsr(s, FALSE, FALSE, TRUE)) /\ Good(s, SetPsr(s, FALSE, FALSE, TRUE))
  BY SetPsrGood, Zenon
<1> QED
  BY <1>1, SerializeDataGood, GoodTransitive, Zenon DEF EntryPsr

LEMMA SetIrqCalm ==
    ASSUME NEW s, EnvOK(s), NEW v \in 0 .. 255
    PROVE  Calm(s, SetIrq(s, v))
<1> DEFINE t == [s EXCEPT !.irr = s.irr \union {v}]
<1>1. s.irr \union {v} \in FieldType.irr
  BY FieldsOf, BitmapFields
<1>2. EnvOK(t)
  BY <1>1, Zenon DEF EnvOK
<1>3. Calm(s, t)
  BY Names, RasNames, Zenon DEF EnvOK, Calm
<1>4. SetIrq(s, v) = Updated(t)
  BY DEF SetIrq
<1> HIDE DEF t
<1>5. Calm(t, Updated(t))
  BY <1>2, UpdatedCalm
<1> QED
  BY <1>3, <1>4, <1>5, Zenon DEF Calm

\* ia64_ras_update_cmc turns a corrected error into its interrupt, unless
\* CMCV is masked or reserved.
LEMMA UpdateCmcSound ==
    ASSUME NEW s, EnvOK(s)
    PROVE  LET t == UpdateCmc(s) IN
           /\ EnvOK(t) /\ Announced(t)
           /\ Deferral(s) => Deferral(t)
           /\ Context(s) => Context(t)
           /\ s.mcaPending => t.mcaPending
<1> DEFINE t == [s EXCEPT !.cmcPending = FALSE]
           u == SetIrq(t, s.cmcv)
<1>1. EnvOK(t)
  BY BooleanFields, Zenon DEF EnvOK
<1>2. /\ t.i = s.i /\ t.icInflight = s.icInflight /\ t.iDeferred = s.iDeferred
      /\ t.mcaActive = s.mcaActive /\ t.initActive = s.initActive
      /\ t.context = s.context /\ t.cmcPending = FALSE
      /\ t.mcaPending = s.mcaPending
  BY Names, RasNames, Zenon DEF EnvOK
<1>3. CASE s.cmcPending /\ s.cmcv # MASKED /\ VectorValid(s.cmcv)
  <2>1. UpdateCmc(s) = u
    BY <1>3, Zenon DEF UpdateCmc
  <2>2. s.cmcv \in 0 .. 255
    BY <1>3, FieldsOf, SMTT(40) DEF MASKED
  <2> HIDE DEF t
  <2>3. Calm(t, u) /\ EnvOK(u)
    BY <1>1, <2>2, SetIrqCalm, SetIrqExact, Zenon
  <2> HIDE DEF u
  <2> QED
    BY <1>2, <2>1, <2>3, Zenon DEF Calm, Announced, Deferral, Context
<1>4. CASE ~(s.cmcPending /\ s.cmcv # MASKED /\ VectorValid(s.cmcv))
  <2>1. UpdateCmc(s) = s
    BY <1>4, Zenon DEF UpdateCmc
  <2> QED
    BY <1>4, <2>1, Zenon DEF Announced
<1> QED
  BY <1>3, <1>4

LEMMA ApplyWorkGood ==
    ASSUME NEW s, EnvOK(s), NEW w \in Works
    PROVE  Good(s, ApplyWork(s, w))
<1>0. w.arg \in 0 .. 255 /\ w.kind \in {"IRQ", "PMI", "INIT", "MCA", "CMC", "INIT_ENTRY"}
  BY DEF Works
<1>1. CASE w.kind = "IRQ"
  <2>1. Calm(s, SetIrq(s, w.arg))
    BY <1>0, SetIrqCalm
  <2>2. ApplyWork(s, w) = SetIrq(s, w.arg)
    BY <1>1 DEF ApplyWork
  <2> QED
    BY <2>1, <2>2, CalmGood
<1>2. CASE w.kind = "PMI"
  <2> DEFINE t == [s EXCEPT !.pmi = s.pmi \union {w.arg}]
  <2>1. s.pmi \union {w.arg} \in FieldType.pmi
    BY <1>0, FieldsOf, BitmapFields
  <2>2. EnvOK(t)
    BY <2>1, Zenon DEF EnvOK
  <2>3. Calm(s, t)
    BY Names, RasNames, Zenon DEF EnvOK, Calm
  <2>4. ApplyWork(s, w) = Updated(t)
    BY <1>2, Zenon DEF ApplyWork
  <2> HIDE DEF t
  <2> QED
    BY <2>2, <2>3, <2>4, UpdatedCalm, CalmGood, GoodTransitive, Zenon
<1>3. CASE w.kind = "INIT"
  <2> DEFINE reason == IF ~s.init \/ w.arg > s.reason THEN w.arg ELSE s.reason
             t == [s EXCEPT !.init = TRUE, !.reason = reason]
  <2>1. reason \in 0 .. 255
    BY <1>0, FieldsOf
  <2>2. ApplyWork(s, w) = Updated(t)
    BY <1>3 DEF ApplyWork, RequestInit
  <2> HIDE DEF reason
  <2>3. EnvOK(t)
    BY <2>1, BooleanFields, ByteFields, ZenonT(60) DEF EnvOK
  <2>4. Calm(s, t)
    BY Names, RasNames, Zenon DEF EnvOK, Calm
  <2> HIDE DEF t
  <2> QED
    BY <2>2, <2>3, <2>4, UpdatedCalm, CalmGood, GoodTransitive, ZenonT(60)
<1>4. CASE w.kind = "MCA"
  <2> DEFINE t == [s EXCEPT !.mcaPendingId = w.arg, !.mcaPending = TRUE]
  <2>1. EnvOK(t)
    BY <1>0, BooleanFields, ByteFields, ZenonT(60) DEF EnvOK
  <2>2. /\ t.i = s.i /\ t.icInflight = s.icInflight /\ t.iDeferred = s.iDeferred
        /\ t.mcaActive = s.mcaActive /\ t.initActive = s.initActive
        /\ t.context = s.context /\ t.cmcPending = s.cmcPending
        /\ t.cmcv = s.cmcv /\ t.mcaPending = TRUE
    BY Names, RasNames, Zenon DEF EnvOK
  <2>3. ApplyWork(s, w) = Updated(t) \/ ApplyWork(s, w) = s
    BY <1>4 DEF ApplyWork, RequestMca
  <2> HIDE DEF t
  <2>4. Good(s, t) /\ Good(s, s)
    BY <2>2, Zenon DEF Good, Sound, Deferral, Context, Announced
  <2> QED
    BY <2>1, <2>3, <2>4, UpdatedCalm, GoodTransitive
<1>5. CASE w.kind = "CMC"
  <2> DEFINE t == [s EXCEPT !.cmcPending = TRUE]
  <2>1. EnvOK(t)
    BY BooleanFields, Zenon DEF EnvOK
  <2>2. /\ t.i = s.i /\ t.icInflight = s.icInflight /\ t.iDeferred = s.iDeferred
        /\ t.mcaActive = s.mcaActive /\ t.initActive = s.initActive
        /\ t.context = s.context /\ t.mcaPending = s.mcaPending
    BY Names, RasNames, Zenon DEF EnvOK
  <2>3. ApplyWork(s, w) = UpdateCmc(t)
    BY <1>5 DEF ApplyWork
  <2> HIDE DEF t
  <2>4. (Deferral(s) => Deferral(t)) /\ (Context(s) => Context(t))
    BY <2>2, Zenon DEF Deferral, Context
  <2> QED
    BY <2>1, <2>2, <2>3, <2>4, UpdateCmcSound, Zenon DEF Good, Sound
<1>6. CASE w.kind = "INIT_ENTRY"
  <2> DEFINE t == [s EXCEPT !.initEntry = (w.arg # 0)]
  <2>1. Calm(s, t)
    BY Names, RasNames, Zenon DEF EnvOK, Calm
  <2>2. ApplyWork(s, w) = t
    BY <1>6 DEF ApplyWork
  <2> HIDE DEF t
  <2> QED
    BY <2>1, <2>2, CalmGood
<1> QED
  BY <1>0, <1>1, <1>2, <1>3, <1>4, <1>5, <1>6, Zenon

\* An entry is made for a machine check that PSR.mc does not mask.
Follows(s, t) ==
    /\ Sound(s) => Sound(t)
    /\ s.mcaPending /\ s.mc => t.mcaPending

LEMMA DropMcaFollows ==
    ASSUME NEW s, EnvOK(s)
    PROVE  /\ EnvOK(DropMca(s)) /\ Follows(s, DropMca(s))
           /\ DropMca(s).mc = s.mc
<1> DEFINE t == [s EXCEPT !.mcaPending = FALSE]
<1>1. EnvOK(t)
  BY BooleanFields, Zenon DEF EnvOK
<1>2. /\ t.i = s.i /\ t.icInflight = s.icInflight /\ t.iDeferred = s.iDeferred
      /\ t.mcaActive = s.mcaActive /\ t.initActive = s.initActive
      /\ t.context = s.context /\ t.cmcPending = s.cmcPending
      /\ t.cmcv = s.cmcv /\ t.mc = s.mc
  BY Names, RasNames, Zenon DEF EnvOK
<1>3. (DropMca(s) = Updated(t) /\ ~s.mc) \/ DropMca(s) = s
  BY DEF DropMca, McaDeliverable
<1> HIDE DEF t
<1>4. Sound(s) => Sound(t)
  BY <1>2, Zenon DEF Sound, Deferral, Context, Announced
<1>5. EnvOK(Updated(t)) /\ (Sound(t) => Sound(Updated(t))) /\ Updated(t).mc = t.mc
  BY <1>1, UpdatedCalm, Names, Zenon DEF Good, EnvOK, Updated
<1>6. CASE DropMca(s) = Updated(t) /\ ~s.mc
  BY <1>2, <1>4, <1>5, <1>6, Zenon DEF Follows
<1>7. CASE DropMca(s) = s
  BY <1>7, Zenon DEF Follows
<1> QED
  BY <1>3, <1>6, <1>7

LEMMA EntriesFollow ==
    ASSUME NEW s, EnvOK(s)
    PROVE  /\ ~s.mc => Follows(s, EnterMca(s)) /\ Follows(s, EnterInit(s))
           /\ Good(s, EnterPmi(s)) /\ Good(s, EnterExternal(s))
<1>1. Sound(s) => Sound(EnterMca(s))
  <2> DEFINE t == [s EXCEPT !.mcaPending = FALSE, !.mcaActive = TRUE,
                            !.mcaActiveId = s.mcaPendingId,
                            !.context = TRUE, !.halted = FALSE]
  <2>0. s.mcaPendingId \in 0 .. 255
    BY FieldsOf
  <2>1. s.mcaPendingId \in FieldType.mcaActiveId
    BY <2>0, ByteFields, Zenon
  <2>2. EnvOK(t)
    BY <2>1, BooleanFields, Zenon DEF EnvOK
  <2>3. /\ t.i = s.i /\ t.icInflight = s.icInflight /\ t.iDeferred = s.iDeferred
        /\ t.context = TRUE /\ t.cmcPending = s.cmcPending /\ t.cmcv = s.cmcv
    BY Names, RasNames, Zenon DEF EnvOK
  <2>4. EnterMca(s) = Updated(EntryPsr(t))
    BY DEF EnterMca
  <2> HIDE DEF t
  <2>5. Sound(s) => Sound(t)
    BY <2>3, Zenon DEF Sound, Deferral, Context, Announced
  <2>6. Good(t, EntryPsr(t)) /\ Good(EntryPsr(t), Updated(EntryPsr(t)))
    BY <2>2, EntryPsrGood, UpdatedCalm, Zenon
  <2> QED
    BY <2>4, <2>5, <2>6, Zenon DEF Good
<1>2. Sound(s) => Sound(EnterInit(s))
  <2> DEFINE t == [s EXCEPT !.init = FALSE, !.reason = 0, !.initActive = TRUE,
                            !.context = TRUE, !.halted = FALSE]
  <2>1. EnvOK(t)
    BY ZeroByte, BooleanFields, Zenon DEF EnvOK
  <2>2. /\ t.i = s.i /\ t.icInflight = s.icInflight /\ t.iDeferred = s.iDeferred
        /\ t.context = TRUE /\ t.cmcPending = s.cmcPending /\ t.cmcv = s.cmcv
    BY Names, RasNames, Zenon DEF EnvOK
  <2>3. EnterInit(s) = Updated(EntryPsr(t))
    BY Zenon DEF EnterInit
  <2> HIDE DEF t
  <2>4. Sound(s) => Sound(t)
    BY <2>2, Zenon DEF Sound, Deferral, Context, Announced
  <2>5. Good(t, EntryPsr(t)) /\ Good(EntryPsr(t), Updated(EntryPsr(t)))
    BY <2>1, EntryPsrGood, UpdatedCalm, Zenon
  <2> QED
    BY <2>3, <2>4, <2>5, Zenon DEF Good
<1>3. Good(s, EnterPmi(s))
  <2> DEFINE v == CHOOSE v \in s.pmi : \A u \in s.pmi : u <= v
             t == [s EXCEPT !.pmi = s.pmi \ {v}, !.halted = FALSE]
  <2>0. EnterPmi(s) = EntryPsr(Updated(t))
    BY DEF EnterPmi
  <2> HIDE DEF v
  <2>1. s.pmi \ {v} \in FieldType.pmi
    BY FieldsOf, BitmapFields
  <2>2. EnvOK(t)
    BY <2>1, BooleanFields, Zenon DEF EnvOK
  <2>3. Calm(s, t)
    BY Names, RasNames, Zenon DEF EnvOK, Calm
  <2> HIDE DEF t
  <2>4. /\ Good(s, t) /\ Good(t, Updated(t))
        /\ Good(Updated(t), EntryPsr(Updated(t)))
    BY <2>2, <2>3, CalmGood, EntryPsrGood, UpdatedCalm, Zenon
  <2> QED
    BY <2>0, <2>4, GoodTransitive
<1>4. Good(s, EnterExternal(s))
  <2> DEFINE t == SetPsr(s, FALSE, FALSE, s.mc)
             u == [t EXCEPT !.icInflight = FALSE, !.halted = FALSE]
  <2>1. EnvOK(t) /\ Good(s, t) /\ ~t.iDeferred
    <3>1. s.mc \in BOOLEAN
      BY FieldsOf
    <3> QED
      BY <3>1, SetPsrGood, Zenon
  <2>2. EnterExternal(s) = u
    BY DEF EnterExternal
  <2> HIDE DEF t
  <2>3. /\ u.iDeferred = t.iDeferred
        /\ u.mcaActive = t.mcaActive /\ u.initActive = t.initActive
        /\ u.context = t.context /\ u.cmcPending = t.cmcPending
        /\ u.cmcv = t.cmcv /\ u.mcaPending = t.mcaPending
    BY <2>1, Names, RasNames, Zenon DEF EnvOK
  <2> HIDE DEF u
  <2>4. Good(t, u)
    BY <2>1, <2>3, Zenon DEF Good, Sound, Deferral, Context, Announced
  <2> QED
    BY <2>1, <2>2, <2>4, GoodTransitive
<1> QED
  BY <1>1, <1>2, <1>3, <1>4, Zenon DEF Follows

\* pal_mc_resume ends the handlers and looks for a corrected error at once.
LEMMA ResumedGood ==
    ASSUME NEW s, EnvOK(s), NEW p \in PsrValue, NEW cmci \in BOOLEAN
    PROVE  Good(s, Resumed(s, p, cmci))
<1> DEFINE r == SetPsr(s, p.i, p.ic, p.mc)
           t == SerializeData(r)
           b == t.cmcPending \/ cmci
           u == [t EXCEPT !.context = FALSE, !.mcaActive = FALSE,
                          !.mcaActiveId = 0, !.initActive = FALSE,
                          !.cmcPending = b]
           x == UpdateCmc(u)
<1>1. EnvOK(t) /\ Deferral(t) /\ (s.mcaPending => t.mcaPending)
  <2>1. p.i \in BOOLEAN /\ p.ic \in BOOLEAN /\ p.mc \in BOOLEAN
    BY PsrAssumption
  <2>2. EnvOK(r) /\ (s.mcaPending => r.mcaPending)
    BY <2>1, SetPsrGood, Zenon DEF Good
  <2> HIDE DEF r
  <2> QED
    BY <2>2, SerializeDataGood, Zenon DEF Good
<1>2. Resumed(s, p, cmci) = Updated(x)
  BY DEF Resumed
<1>3. b \in BOOLEAN
  OBVIOUS
<1> HIDE DEF t, b
<1>4. EnvOK(u)
  BY <1>1, <1>3, BooleanFields, ZeroByte, Zenon DEF EnvOK
<1>5. /\ u.i = t.i /\ u.icInflight = t.icInflight /\ u.iDeferred = t.iDeferred
      /\ u.mcaActive = FALSE /\ u.initActive = FALSE
      /\ u.mcaPending = t.mcaPending
  BY <1>1, Names, RasNames, Zenon DEF EnvOK
<1> HIDE DEF u
<1>6. Deferral(u) /\ Context(u)
  BY <1>1, <1>5, Zenon DEF Deferral, Context
<1>7. Sound(x) /\ EnvOK(x) /\ (u.mcaPending => x.mcaPending)
  BY <1>4, <1>6, UpdateCmcSound, Zenon DEF Sound
<1> HIDE DEF x
<1>8. Good(x, Updated(x))
  BY <1>7, UpdatedCalm
<1> QED
  BY <1>1, <1>2, <1>5, <1>7, <1>8, Zenon DEF Good

LEMMA FollowsAt ==
    ASSUME HInv, NEW d \in CPU, NEW t, env' = [env EXCEPT ![d] = t],
           Follows(env[d], t)
    PROVE  \A c \in CPU : Follows(env[c], env'[c])
<1>1. DOMAIN env = CPU
  BY DEF HInv, TypeOK
<1>2. \A c \in CPU : Follows(env[c], env[c])
  BY Zenon DEF Follows
<1>3. env'[d] = t /\ \A c \in CPU : c # d => env'[c] = env[c]
  BY <1>1
<1> QED
  BY <1>2, <1>3, Zenon

LEMMA GoodFollows ==
    ASSUME NEW s, NEW t
    PROVE  /\ Calm(s, t) => Follows(s, t)
           /\ Good(s, t) => Follows(s, t)
BY CalmGood, Zenon DEF Good, Follows

LEMMA SubmitFollows ==
    ASSUME HInv, NEW r, NEW d \in CPU, NEW w \in Works, Submit(r, d, w)
    PROVE  \A c \in CPU : Follows(env[c], env'[c])
<1>0. EnvOK(env[d])
  BY DEF HInv, TypeOK
<1>1. CASE r = d
  <2>1. env' = [env EXCEPT ![d] = ApplyWork(env[d], w)]
    BY <1>1 DEF Submit
  <2>2. Follows(env[d], ApplyWork(env[d], w))
    BY <1>0, ApplyWorkGood, GoodFollows
  <2> QED
    BY <2>1, <2>2, FollowsAt, Zenon
<1>2. CASE r # d
  <2>1. env' = env
    BY <1>2 DEF Submit
  <2> QED
    BY <2>1, Zenon DEF Follows
<1> QED
  BY <1>1, <1>2

LEMMA LoopFollows ==
    ASSUME HInv, NEW d \in CPU, LoopStep(d)
    PROVE  \A c \in CPU : Follows(env[c], env'[c])
<1> DEFINE s == env[d]
<1>0. EnvOK(s) /\ DOMAIN env = CPU
  BY DEF HInv, TypeOK
<1>1. CASE RunWork(d)
  <2>1. work[d] \in Seq(Works) /\ work[d] # <<>>
    BY <1>1 DEF RunWork, HInv, TypeOK
  <2>2. Head(work[d]) \in Works
    BY <2>1
  <2>3. env' = [env EXCEPT ![d] = ApplyWork(s, Head(work[d]))]
    BY <1>1 DEF RunWork
  <2> QED
    BY <1>0, <2>2, <2>3, ApplyWorkGood, GoodFollows, FollowsAt, Zenon
<1>2. CASE EnterExec(d)
  <2> DEFINE t == [s EXCEPT !.exec = TRUE, !.halted = FALSE]
  <2>1. env' = [env EXCEPT ![d] = t]
    BY <1>0, <1>2, Zenon DEF EnterExec
  <2>2. Calm(s, t)
    BY <1>0, Names, RasNames, Zenon DEF EnvOK, Calm
  <2> HIDE DEF t
  <2> QED
    BY <2>1, <2>2, GoodFollows, FollowsAt, Zenon
<1>3. CASE LeaveExec(d)
  <2> DEFINE t == [s EXCEPT !.exec = FALSE]
  <2>1. env' = [env EXCEPT ![d] = t]
    BY <1>0, <1>3 DEF LeaveExec
  <2>2. Calm(s, t)
    BY <1>0, Names, RasNames, Zenon DEF EnvOK, Calm
  <2> HIDE DEF t
  <2> QED
    BY <2>1, <2>2, GoodFollows, FollowsAt, Zenon
<1>4. CASE TakeHalt(d)
  <2> DEFINE t == [s EXCEPT !.haltRequest = FALSE, !.halted = TRUE, !.exec = FALSE]
  <2>1. env' = [env EXCEPT ![d] = t]
    BY <1>0, <1>4, Zenon DEF TakeHalt
  <2>2. Calm(s, t)
    BY <1>0, Names, RasNames, ZenonT(60) DEF EnvOK, Calm
  <2> HIDE DEF t
  <2> QED
    BY <2>1, <2>2, GoodFollows, FollowsAt, Zenon
<1> QED
  BY <1>1, <1>2, <1>3, <1>4 DEF LoopStep

LEMMA ResetSound ==
    ASSUME NEW c, NEW e
    PROVE  Sound(ResetEnv(c, e))
BY Zenon DEF Sound, Deferral, Context, Announced, ResetEnv

\* ia64_cpu_exec_interrupt: only a machine check that PSR.mc does not mask is
\* entered or dropped, and only an INIT that it does not mask resets.
LEMMA InterruptFollows ==
    ASSUME HInv, NEW d \in CPU, ExecInterrupt(d)
    PROVE  \A c \in CPU : Follows(env[c], env'[c])
<1> DEFINE s == env[d]
           m == DropMca(s)
<1>0. EnvOK(s)
  BY DEF HInv, TypeOK
<1>1. EnvOK(m) /\ Follows(s, m) /\ m.mc = s.mc
  BY <1>0, DropMcaFollows
<1>2. ASSUME NEW t, Good(m, t)
      PROVE  Follows(s, t)
  BY <1>1, <1>2, Zenon DEF Good, Follows
<1>3. CASE ExecMca(d)
  <2>1. env' = [env EXCEPT ![d] = EnterMca(s)] /\ ~s.mc
    BY <1>3 DEF ExecMca, McaEnterable, McaDeliverable
  <2> QED
    BY <1>0, <2>1, EntriesFollow, FollowsAt, Zenon
<1>4. CASE ExecInit(d)
  <2>0. ~s.mc
    BY <1>4 DEF ExecInit, InitDeliverable
  <2>1. CASE ~s.initActive /\ s.initEntry /\ CanSave(s)
    <3>1. env' = [env EXCEPT ![d] = EnterInit(m)]
      BY <1>4, <2>1 DEF ExecInit
    <3> HIDE DEF m
    <3>2. Follows(m, EnterInit(m))
      BY <1>1, <2>0, EntriesFollow
    <3>3. Follows(s, EnterInit(m))
      BY <1>1, <2>0, <3>2, Zenon DEF Follows
    <3> QED
      BY <3>1, <3>3, FollowsAt, Zenon
  <2>2. CASE ~(~s.initActive /\ s.initEntry /\ CanSave(s))
    <3>1. env' = [env EXCEPT ![d] = ResetEnv(d, TRUE)]
      BY <1>4, <2>2, Zenon DEF ExecInit
    <3>2. Follows(s, ResetEnv(d, TRUE))
      BY <2>0, ResetSound, Zenon DEF Follows
    <3> QED
      BY <3>1, <3>2, FollowsAt, Zenon
  <2> QED
    BY <2>1, <2>2
<1>5. CASE ExecPmi(d)
  <2>1. env' = [env EXCEPT ![d] = EnterPmi(m)]
    BY <1>5 DEF ExecPmi
  <2> HIDE DEF m
  <2> QED
    BY <1>1, <1>2, <2>1, EntriesFollow, FollowsAt, Zenon
<1>6. CASE ExecExternal(d)
  <2>1. env' = [env EXCEPT ![d] = EnterExternal(m)]
    BY <1>6 DEF ExecExternal
  <2> HIDE DEF m
  <2> QED
    BY <1>1, <1>2, <2>1, EntriesFollow, FollowsAt, Zenon
<1>7. CASE ExecDropMca(d)
  BY <1>1, <1>7, FollowsAt, ZenonT(60) DEF ExecDropMca
<1> QED
  BY <1>3, <1>4, <1>5, <1>6, <1>7, Zenon DEF ExecInterrupt

LEMMA UpdatedOver ==
    ASSUME NEW s, NEW t, DOMAIN t = DOMAIN FieldType, Calm(s, t)
    PROVE  Calm(s, Updated(t))
<1>1. Calm(t, Updated(t))
  BY Names, RasNames, Zenon DEF Updated, Calm
<1> QED
  BY <1>1, Zenon DEF Calm

LEMMA GuestFollows ==
    ASSUME HInv, NEW d \in CPU, GuestStep(d)
    PROVE  \A c \in CPU : Follows(env[c], env'[c])
<1> DEFINE s == env[d]
<1>0. EnvOK(s)
  BY DEF HInv, TypeOK
<1>f. ASSUME NEW t, Guest(d, t), Good(s, t) \/ Calm(s, t)
      PROVE  \A c \in CPU : Follows(env[c], env'[c])
  BY <1>f, GoodFollows, FollowsAt, Zenon DEF Guest
<1> HIDE DEF s
<1>1. CASE ReadIvr(d)
  <2> DEFINE v == FindIrr(s)
             t == [s EXCEPT !.irr = s.irr \ {v}, !.isr = s.isr \union {v}]
  <2>1. Accept(s) = s \/ Accept(s) = Updated(t)
    BY DEF Accept
  <2> HIDE DEF v
  <2>2. Calm(s, t) /\ DOMAIN t = DOMAIN FieldType /\ Calm(s, s)
    BY <1>0, Names, RasNames, ZenonT(60) DEF EnvOK, Calm
  <2> HIDE DEF t
  <2>3. Calm(s, Accept(s))
    BY <2>1, <2>2, UpdatedOver, Zenon
  <2>4. Guest(d, Accept(s))
    BY <1>1 DEF ReadIvr, s
  <2> QED
    BY <1>f, <2>3, <2>4
<1>2. CASE WriteEoi(d)
  <2> DEFINE v == FindIsr(s)
             t == [s EXCEPT !.isr = s.isr \ {v}]
  <2>1. Eoi(s) = Updated(t)
    BY DEF Eoi
  <2> HIDE DEF v
  <2>2. Calm(s, t) /\ DOMAIN t = DOMAIN FieldType
    BY <1>0, Names, RasNames, ZenonT(60) DEF EnvOK, Calm
  <2> HIDE DEF t
  <2>3. Guest(d, Eoi(s))
    BY <1>2 DEF WriteEoi, s
  <2> QED
    BY <1>f, <2>1, <2>2, <2>3, UpdatedOver
<1>3. CASE WriteTpr(d)
  <2>1. PICK x \in TprValue : Guest(d, Updated([s EXCEPT !.tpr = x]))
    BY <1>3 DEF WriteTpr, s
  <2> DEFINE t == [s EXCEPT !.tpr = x]
  <2>2. Calm(s, t) /\ DOMAIN t = DOMAIN FieldType
    BY <1>0, Names, RasNames, Zenon DEF EnvOK, Calm
  <2> QED
    BY <1>f, <2>1, <2>2, UpdatedOver, Zenon
<1>4. CASE WriteLid(d)
  <2>1. PICK x \in LidValue : Guest(d, [s EXCEPT !.lid = x])
    BY <1>4 DEF WriteLid, s
  <2>2. Calm(s, [s EXCEPT !.lid = x])
    BY <1>0, Names, RasNames, Zenon DEF EnvOK, Calm
  <2> QED
    BY <1>f, <2>1, <2>2
<1>5. CASE WriteXtp(d)
  <2>1. PICK x \in XtpValue : Guest(d, [s EXCEPT !.xtp = x])
    BY <1>5 DEF WriteXtp, s
  <2>2. Calm(s, [s EXCEPT !.xtp = x])
    BY <1>0, Names, RasNames, ZenonT(60) DEF EnvOK, Calm
  <2> QED
    BY <1>f, <2>1, <2>2
<1>6. CASE WriteCmcv(d)
  <2>1. PICK v \in CmcVector \union {MASKED} :
           Guest(d, UpdateCmc([s EXCEPT !.cmcv = v]))
    BY <1>6 DEF WriteCmcv, s
  <2> DEFINE t == [s EXCEPT !.cmcv = v]
  <2>2. v \in MASKED .. 255
    BY VectorAssumption DEF MASKED
  <2>3. EnvOK(t)
    BY <1>0, <2>2, CmcvField, ZenonT(60) DEF EnvOK
  <2>4. /\ t.i = s.i /\ t.icInflight = s.icInflight /\ t.iDeferred = s.iDeferred
        /\ t.mcaActive = s.mcaActive /\ t.initActive = s.initActive
        /\ t.context = s.context /\ t.mcaPending = s.mcaPending
    BY <1>0, Names, RasNames, Zenon DEF EnvOK
  <2>5. Guest(d, UpdateCmc(t))
    BY <2>1
  <2> HIDE DEF t
  <2>6. (Deferral(s) => Deferral(t)) /\ (Context(s) => Context(t))
    BY <2>4, Zenon DEF Deferral, Context
  <2>7. Good(s, UpdateCmc(t))
    BY <2>3, <2>4, <2>6, UpdateCmcSound, ZenonT(60) DEF Good, Sound
  <2> QED
    BY <1>f, <2>5, <2>7, Zenon
<1>7. CASE ChangePsr(d)
  <2>1. PICK p \in PsrValue : Guest(d, SetPsr(s, p.i, p.ic, p.mc))
    BY <1>7 DEF ChangePsr, s
  <2>2. p.i \in BOOLEAN /\ p.ic \in BOOLEAN /\ p.mc \in BOOLEAN
    BY PsrAssumption
  <2> QED
    BY <1>0, <1>f, <2>1, <2>2, SetPsrGood, Zenon
<1>8. CASE Serialize(d)
  <2>1. CASE Guest(d, SerializeData(s))
    BY <1>0, <1>f, <2>1, SerializeDataGood
  <2>2. CASE Guest(d, [s EXCEPT !.iDeferred = FALSE])
    <3> DEFINE t == [s EXCEPT !.iDeferred = FALSE]
    <3>1. /\ t.iDeferred = FALSE
          /\ t.mcaActive = s.mcaActive /\ t.initActive = s.initActive
          /\ t.context = s.context /\ t.cmcPending = s.cmcPending
          /\ t.cmcv = s.cmcv /\ t.mcaPending = s.mcaPending
      BY <1>0, Names, RasNames, Zenon DEF EnvOK
    <3>2. Guest(d, t)
      BY <2>2
    <3> HIDE DEF t
    <3>3. Good(s, t)
      BY <3>1, ZenonT(60) DEF Good, Sound, Deferral, Context, Announced
    <3> QED
      BY <1>f, <3>2, <3>3
  <2> QED
    BY <1>8, <2>1, <2>2 DEF Serialize, s
<1>9. CASE Fault(d)
  <2> DEFINE t == SetPsr(s, FALSE, FALSE, s.mc)
             u == [t EXCEPT !.icInflight = FALSE]
  <2>1. Guest(d, u)
    BY <1>9 DEF Fault, s
  <2>2. EnvOK(t) /\ Good(s, t) /\ ~t.iDeferred
    <3>1. s.mc \in BOOLEAN
      BY <1>0, FieldsOf
    <3> QED
      BY <1>0, <3>1, SetPsrGood, Zenon
  <2> HIDE DEF t
  <2>3. /\ u.iDeferred = t.iDeferred
        /\ u.mcaActive = t.mcaActive /\ u.initActive = t.initActive
        /\ u.context = t.context /\ u.cmcPending = t.cmcPending
        /\ u.cmcv = t.cmcv /\ u.mcaPending = t.mcaPending
    BY <2>2, Names, RasNames, Zenon DEF EnvOK
  <2> HIDE DEF u
  <2>4. Good(t, u)
    BY <2>2, <2>3, Zenon DEF Good, Sound, Deferral, Context, Announced
  <2> QED
    BY <1>f, <2>1, <2>2, <2>4, GoodTransitive, Zenon
<1>10. CASE PalHalt(d)
  <2> DEFINE t == [s EXCEPT !.haltWake = TRUE, !.haltRequest = TRUE]
  <2>1. Guest(d, t)
    BY <1>10 DEF PalHalt, s
  <2>2. Calm(s, t)
    BY <1>0, Names, RasNames, Zenon DEF EnvOK, Calm
  <2> HIDE DEF t
  <2> QED
    BY <1>f, <2>1, <2>2
<1>11. CASE PalPmiEntrypoint(d)
  <2>1. PICK x \in PmiEntry : Guest(d, Updated([s EXCEPT !.pmiEntry = x]))
    BY <1>11 DEF PalPmiEntrypoint, s
  <2> DEFINE t == [s EXCEPT !.pmiEntry = x]
  <2>2. Calm(s, t) /\ DOMAIN t = DOMAIN FieldType
    BY <1>0, Names, RasNames, Zenon DEF EnvOK, Calm
  <2> QED
    BY <1>f, <2>1, <2>2, UpdatedOver, Zenon
<1>12. CASE PalMcRegisterMem(d)
  <2>1. PICK x \in SaveArea : Guest(d, [s EXCEPT !.saveArea = x])
    BY <1>12 DEF PalMcRegisterMem, s
  <2>2. Calm(s, [s EXCEPT !.saveArea = x])
    BY <1>0, Names, RasNames, ZenonT(60) DEF EnvOK, Calm
  <2> QED
    BY <1>f, <2>1, <2>2
<1>13. CASE PalMcResume(d)
  <2>1. PICK p \in PsrValue, cmci \in BOOLEAN : Guest(d, Resumed(s, p, cmci))
    BY <1>13 DEF PalMcResume, s
  <2> QED
    BY <1>0, <1>f, <2>1, ResumedGood, Zenon
<1> QED
  BY <1>1, <1>2, <1>3, <1>4, <1>5, <1>6, <1>7, <1>8, <1>9, <1>10, <1>11,
     <1>12, <1>13, ZenonT(60) DEF GuestStep

LEMMA StepFollows ==
    ASSUME HInv, [Next]_vars
    PROVE  \A c \in CPU : Follows(env[c], env'[c])
<1>1. CASE SendMessage
  <2>1. PICK r \in Requesters, lid \in LidValue, redirect \in BOOLEAN,
             mode \in Mode, v \in Vector \union PmiVector :
               Deliver(r, lid[1], lid[2], redirect, mode, v)
    BY <1>1 DEF SendMessage
  <2>2. MessageWork(mode, v) \in Works
    BY MessageWorkType, ModeAssumption, VectorAssumption, PmiAssumption
  <2>3. Destination(lid[1], lid[2], redirect, mode) \in CPU
    BY <2>1, DestinationInCpu DEF Deliver, Deliverable
  <2> QED
    BY <2>1, <2>2, <2>3, SubmitFollows, Zenon DEF Deliver
<1>2. CASE RasRequest
  BY <1>2, SubmitFollows, RasAssumption, Zenon DEF RasRequest
<1>3. ASSUME NEW d \in CPU, LoopStep(d) \/ ExecInterrupt(d) \/ GuestStep(d)
      PROVE  \A c \in CPU : Follows(env[c], env'[c])
  BY <1>3, LoopFollows, InterruptFollows, GuestFollows
<1>4. CASE UNCHANGED vars
  BY <1>4, Zenon DEF vars, Follows
<1> QED
  BY <1>1, <1>2, <1>3, <1>4, Zenon DEF Next

\* The inductive invariant of the three properties below.
SInv == HInv /\ \A c \in CPU : Sound(env[c])

LEMMA SInvariant == Spec => []SInv
<1>1. Init => SInv
  <2> SUFFICES ASSUME Init PROVE SInv
    OBVIOUS
  <2>1. \A c \in CPU : Sound(env[c])
    BY ResetSound, Zenon DEF Init
  <2> QED
    BY <2>1, HInvInit DEF SInv
<1>2. SInv /\ [Next]_vars => SInv'
  <2> SUFFICES ASSUME SInv, [Next]_vars PROVE SInv'
    OBVIOUS
  <2>1. HInv'
    BY HInvStep DEF SInv
  <2>2. \A c \in CPU : Sound(env'[c])
    BY StepFollows, Zenon DEF SInv, Follows
  <2> QED
    BY <2>1, <2>2 DEF SInv
<1> QED
  BY <1>1, <1>2, PTL DEF Spec

\* A deferral of PSR.i never outlives PSR.i or the change of PSR.ic it waits
\* for, so that ia64_external_interrupt_enabled() is not false for good.
THEOREM DeferralsEnd == Spec => []DeferralIsInFlight
<1>1. SInv => DeferralIsInFlight
  BY Zenon DEF SInv, Sound, Deferral, DeferralIsInFlight
<1> QED
  BY <1>1, SInvariant, PTL

\* A machine-check or INIT handler always has the register-stack context that
\* PAL_MC_RESUME restores.
THEOREM HandlersHaveContext == Spec => []ActiveHasContext
<1>1. SInv => ActiveHasContext
  BY Zenon DEF SInv, Sound, Context, ActiveHasContext
<1> QED
  BY <1>1, SInvariant, PTL

\* A corrected machine check waits only for a write of CR.CMCV.
THEOREM CorrectedErrorsAnnounced == Spec => []CmcNotStranded
<1>1. SInv => CmcNotStranded
  BY Zenon DEF SInv, Sound, Announced, CmcNotStranded
<1> QED
  BY <1>1, SInvariant, PTL

\* No step of any processor or device makes a processor forget a machine check
\* that its PSR.mc masks.
THEOREM MaskedMachineChecksWait == Spec => MaskedMcaRetained
<1>1. HInv /\ [Next]_vars =>
         [\A c \in CPU : env[c].mcaPending /\ env[c].mc => env'[c].mcaPending]_vars
  BY StepFollows, Zenon DEF Follows
<1> QED
  BY <1>1, HInvInit, HInvStep, PTL DEF Spec, MaskedMcaRetained

-----------------------------------------------------------------------------
(* What each operation of interrupt.c, exception.c and pal.c does to the   *)
(* interrupt-request and in-service registers.                             *)

-----------------------------------------------------------------------------
(* Priorities.                                                             *)

\* Vectors that can be accepted are ordered by their priorities.
LEMMA PriorityOrder ==
    ASSUME NEW u \in 0 .. 255, NEW v \in 0 .. 255, VectorValid(v)
    PROVE  /\ VectorPriority(v) \in 0 .. 257 /\ VectorPriority(u) \in -1 .. 257
           /\ ~VectorValid(u) => VectorPriority(u) = -1
           /\ VectorValid(u) /\ VectorPriority(u) = VectorPriority(v) => u = v
           /\ VectorPriority(SPURIOUS) = -1
BY DEF VectorValid, VectorPriority, NMI, SPURIOUS

LEMMA PriorityInt ==
    ASSUME NEW v \in 0 .. 255
    PROVE  VectorPriority(v) \in Int
BY DEF VectorPriority, NMI

\* sapic_find_highest_normal finds the greatest normal vector.
LEMMA HighestIsGreatest ==
    ASSUME NEW S \in SUBSET (0 .. 255), NEW u \in S, u >= 16
    PROVE  /\ HighestNormal(S) \in S /\ HighestNormal(S) >= 16
           /\ u <= HighestNormal(S)
<1> DEFINE normal == {v \in S : v >= 16}
<1>1. u \in normal /\ normal \in SUBSET (0 .. 255)
  BY Zenon
<1>2. \E v \in normal : \A w \in normal : w <= v
  <2> HIDE DEF normal
  <2> QED BY <1>1, GreatestByte
<1>3. HighestNormal(S) = CHOOSE v \in normal : \A w \in normal : w <= v
  BY <1>1 DEF HighestNormal
<1> HIDE DEF normal
<1>4. HighestNormal(S) \in normal /\ \A w \in normal : w <= HighestNormal(S)
  BY <1>2, <1>3
<1> QED BY <1>1, <1>4 DEF normal

\* sapic_find_isr finds the vector of the highest priority in service.
LEMMA FindIsrIsHighest ==
    ASSUME NEW s, s.isr \in SUBSET (0 .. 255), \A v \in s.isr : VectorValid(v)
    PROVE  /\ s.isr # {} => FindIsr(s) \in s.isr
           /\ \A u \in s.isr : VectorPriority(u) <= VectorPriority(FindIsr(s))
           /\ s.isr = {} => FindIsr(s) = SPURIOUS
<1>1. CASE 2 \in s.isr
  BY <1>1 DEF FindIsr, VectorPriority, NMI
<1>2. CASE 2 \notin s.isr /\ 0 \in s.isr
  BY <1>2 DEF FindIsr, VectorPriority, NMI
<1>3. CASE 2 \notin s.isr /\ 0 \notin s.isr
  <2>1. FindIsr(s) = HighestNormal(s.isr)
    BY <1>3 DEF FindIsr
  <2>2. \A u \in s.isr : u \in 0 .. 255 /\ u >= 16
    BY <1>3 DEF VectorValid, NMI
  <2>3. \A u \in s.isr : /\ HighestNormal(s.isr) \in s.isr
                         /\ HighestNormal(s.isr) >= 16 /\ u <= HighestNormal(s.isr)
    BY <2>2, HighestIsGreatest, Zenon
  <2>4. s.isr = {} => HighestNormal(s.isr) = SPURIOUS
    BY DEF HighestNormal
  <2> QED BY <2>1, <2>2, <2>3, <2>4, SMTT(40) DEF VectorPriority, NMI
<1> QED BY <1>1, <1>2, <1>3

\* What a read of CR.IVR accepts is pending, valid and above all in service.
LEMMA FindIrrAccepts ==
    ASSUME NEW s, s.irr \in SUBSET (0 .. 255), s.isr \in SUBSET (0 .. 255),
           \A v \in s.isr : VectorValid(v), FindIrr(s) # SPURIOUS
    PROVE  /\ FindIrr(s) \in s.irr /\ VectorValid(FindIrr(s))
           /\ \A u \in s.isr : VectorPriority(u) < VectorPriority(FindIrr(s))
<1> DEFINE v == FindIrr(s)
<1>1. v \in s.irr /\ VectorUnmasked(s, v) /\ VectorValid(v)
  <2>1. HighestNormal(s.irr) # SPURIOUS => HighestNormal(s.irr) \in s.irr
                                           /\ HighestNormal(s.irr) >= 16
    <3>1. CASE \E u \in s.irr : u >= 16
      BY <3>1, HighestIsGreatest
    <3>2. CASE ~\E u \in s.irr : u >= 16
      BY <3>2 DEF HighestNormal
    <3> QED BY <3>1, <3>2
  <2> QED BY <2>1 DEF FindIrr, VectorValid, NMI
<1>2. VectorPriority(v) > VectorPriority(FindIsr(s))
  BY <1>1 DEF VectorUnmasked
<1>3. ASSUME NEW u \in s.isr
      PROVE  VectorPriority(u) < VectorPriority(v)
  <2>1. FindIsr(s) \in s.isr /\ VectorPriority(u) <= VectorPriority(FindIsr(s))
    BY FindIsrIsHighest, Zenon
  <2>2. /\ VectorPriority(u) \in Int /\ VectorPriority(v) \in Int
        /\ VectorPriority(FindIsr(s)) \in Int
    <3>1. u \in 0 .. 255 /\ v \in 0 .. 255 /\ FindIsr(s) \in 0 .. 255
      BY <1>1, <2>1
    <3> HIDE DEF v
    <3> QED BY <3>1, PriorityInt, ZenonT(60)
  <2>3. \A a, b, d \in Int : a <= b /\ d > b => a < d
    OBVIOUS
  <2> HIDE DEF v
  <2> QED BY <1>2, <2>1, <2>2, <2>3, ZenonT(60)
<1> QED BY <1>1, <1>3, Zenon

-----------------------------------------------------------------------------
(* What each operation does to the registers of the port.                  *)

\* The request register may gain a valid vector; the rest stays.
Keeps(s, t) ==
    /\ t.isr = s.isr
    /\ t.init => s.init
    /\ \/ t.irr = s.irr
       \/ \E v \in 0 .. 255 : VectorValid(v) /\ t.irr = s.irr \union {v}

\* Nothing of the port changes.
Quiet(s, t) == t.isr = s.isr /\ t.irr = s.irr /\ (t.init => s.init)

LEMMA QuietKeeps ==
    ASSUME NEW s, NEW t, NEW u, Quiet(s, t)
    PROVE  /\ Keeps(s, t)
           /\ Keeps(t, u) => Keeps(s, u)
           /\ Quiet(t, u) => Quiet(s, u)
BY ZenonT(60) DEF Quiet, Keeps

LEMMA UpdatedQuiet ==
    ASSUME NEW s, EnvOK(s)
    PROVE  /\ Updated(s).irr = s.irr /\ Updated(s).isr = s.isr
           /\ Updated(s).init = s.init
           /\ Quiet(s, Updated(s))
BY Names, Zenon DEF EnvOK, Updated, Quiet

LEMMA SetPsrQuiet ==
    ASSUME NEW s, EnvOK(s),
           NEW i \in BOOLEAN, NEW ic \in BOOLEAN, NEW mc \in BOOLEAN
    PROVE  Quiet(s, SetPsr(s, i, ic, mc))
<1> DEFINE inflight == s.icInflight \/ ic # s.ic
           deferred == i /\ (s.iDeferred \/ (~s.i /\ inflight))
           t == [s EXCEPT !.i = i, !.ic = ic, !.mc = mc,
                          !.icInflight = inflight, !.iDeferred = deferred]
<1>1. inflight \in BOOLEAN /\ deferred \in BOOLEAN
  OBVIOUS
<1>2. EnvOK(t) /\ Quiet(s, t)
  <2> HIDE DEF inflight, deferred
  <2>1. EnvOK(t)
    BY <1>1, BooleanFields, Zenon DEF EnvOK
  <2>2. Quiet(s, t)
    BY Names, Zenon DEF EnvOK, Quiet
  <2> QED BY <2>1, <2>2, Zenon
<1>3. SetPsr(s, i, ic, mc) = t \/ SetPsr(s, i, ic, mc) = Updated(t)
  BY DEF SetPsr
<1> HIDE DEF t
<1>4. Quiet(s, Updated(t))
  BY <1>2, UpdatedQuiet, QuietKeeps
<1> QED BY <1>2, <1>3, <1>4

LEMMA SerializeDataQuiet ==
    ASSUME NEW s, EnvOK(s)
    PROVE  Quiet(s, SerializeData(s))
BY Names, Zenon DEF SerializeData, EnvOK, Quiet

LEMMA EntryPsrQuiet ==
    ASSUME NEW s, EnvOK(s)
    PROVE  EnvOK(EntryPsr(s)) /\ Quiet(s, EntryPsr(s))
<1>1. EnvOK(SetPsr(s, FALSE, FALSE, TRUE)) /\ Quiet(s, SetPsr(s, FALSE, FALSE, TRUE))
  BY SetPsrOK, SetPsrQuiet, Zenon
<1> QED BY <1>1, SerializeDataQuiet, QuietKeeps, EntryPsrOK, Zenon DEF EntryPsr

\* An interrupt request adds its vector.
LEMMA SetIrqRaises ==
    ASSUME NEW s, EnvOK(s), NEW v \in 0 .. 255
    PROVE  LET t == SetIrq(s, v) IN
           t.irr = s.irr \union {v} /\ t.isr = s.isr /\ t.init = s.init
<1> DEFINE t == [s EXCEPT !.irr = s.irr \union {v}]
<1>1. s.irr \union {v} \in SUBSET (0 .. 255)
  BY FieldsOf
<1>5. s.irr \union {v} \in FieldType.irr
  BY <1>1, BitmapFields, ZenonT(60)
<1>2. EnvOK(t)
  BY <1>5, Zenon DEF EnvOK
<1>3. t.irr = s.irr \union {v} /\ t.isr = s.isr /\ t.init = s.init
  BY Names, Zenon DEF EnvOK
<1>4. SetIrq(s, v) = Updated(t)
  BY DEF SetIrq
<1> HIDE DEF t
<1> QED BY <1>2, <1>3, <1>4, UpdatedQuiet, Zenon

\* A corrected machine check raises the vector of CR.CMCV, when it is valid.
LEMMA UpdateCmcKeeps ==
    ASSUME NEW s, EnvOK(s)
    PROVE  Keeps(s, UpdateCmc(s))
<1> DEFINE t == [s EXCEPT !.cmcPending = FALSE]
<1>1. EnvOK(t)
  BY BooleanFields, Zenon DEF EnvOK
<1>2. Quiet(s, t)
  BY Names, Zenon DEF EnvOK, Quiet
<1>3. CASE s.cmcPending /\ s.cmcv # MASKED /\ VectorValid(s.cmcv)
  <2>1. UpdateCmc(s) = SetIrq(t, s.cmcv)
    BY <1>3 DEF UpdateCmc
  <2>2. s.cmcv \in 0 .. 255
    BY <1>3, FieldsOf, SMTT(40) DEF MASKED
  <2> DEFINE u == SetIrq(t, s.cmcv)
  <2> HIDE DEF t
  <2>4. u.irr = t.irr \union {s.cmcv} /\ u.isr = t.isr /\ u.init = t.init
    BY <1>1, <2>2, SetIrqRaises, Zenon
  <2> HIDE DEF u
  <2>3. Keeps(t, u)
    BY <1>3, <2>2, <2>4, Zenon DEF Keeps
  <2> QED BY <1>2, <2>1, <2>3, QuietKeeps DEF u
<1>4. CASE ~(s.cmcPending /\ s.cmcv # MASKED /\ VectorValid(s.cmcv))
  BY <1>4, Zenon DEF UpdateCmc, Keeps
<1> QED BY <1>3, <1>4, Zenon

LEMMA UpdateCmcOK ==
    ASSUME NEW s, EnvOK(s)
    PROVE  EnvOK(UpdateCmc(s))
<1>1. EnvOK([s EXCEPT !.cmcPending = FALSE])
  BY BooleanFields, ZenonT(60) DEF EnvOK
<1>2. s.cmcv # MASKED => s.cmcv \in 0 .. 255
  BY FieldsOf DEF MASKED
<1> QED BY <1>1, <1>2, SetIrqExact DEF UpdateCmc

\* What a request does on its processor: an interrupt request adds its vector,
\* only an INIT request makes an INIT pending, and the others keep the port.
Worked(s, w, t) ==
    /\ t.isr = s.isr
    /\ t.init => s.init \/ w.kind = "INIT"
    /\ IF w.kind = "IRQ" THEN t.irr = s.irr \union {w.arg}
       ELSE \/ t.irr = s.irr
            \/ \E v \in 0 .. 255 : VectorValid(v) /\ t.irr = s.irr \union {v}

LEMMA KeepsWorked ==
    ASSUME NEW s, NEW t, NEW w, w.kind # "IRQ", Keeps(s, t)
    PROVE  Worked(s, w, t)
BY Zenon DEF Keeps, Worked

LEMMA ApplyWorked ==
    ASSUME NEW s, EnvOK(s), NEW w \in Works
    PROVE  Worked(s, w, ApplyWork(s, w))
<1>0. w.arg \in 0 .. 255 /\ w.kind \in {"IRQ", "PMI", "INIT", "MCA", "CMC", "INIT_ENTRY"}
  BY DEF Works
<1>1. CASE w.kind = "IRQ"
  <2> DEFINE t == SetIrq(s, w.arg)
  <2>1. t.irr = s.irr \union {w.arg} /\ t.isr = s.isr /\ t.init = s.init
    BY <1>0, SetIrqRaises, Zenon
  <2>2. ApplyWork(s, w) = t
    BY <1>1 DEF ApplyWork
  <2> HIDE DEF t
  <2> QED BY <1>1, <2>1, <2>2, ZenonT(60) DEF Worked
<1>2. CASE w.kind = "PMI"
  <2> DEFINE t == [s EXCEPT !.pmi = s.pmi \union {w.arg}]
  <2>1. EnvOK(t)
    <3>1. s.pmi \union {w.arg} \in FieldType.pmi
      BY <1>0, FieldsOf, BitmapFields
    <3> QED BY <3>1, Zenon DEF EnvOK
  <2>2. Quiet(s, t)
    BY Names, ZenonT(60) DEF EnvOK, Quiet
  <2>3. ApplyWork(s, w) = Updated(t)
    BY <1>2, Zenon DEF ApplyWork
  <2> HIDE DEF t
  <2> QED BY <1>2, <2>1, <2>2, <2>3, UpdatedQuiet, QuietKeeps, KeepsWorked, Zenon
<1>3. CASE w.kind = "INIT"
  <2> DEFINE reason == IF ~s.init \/ w.arg > s.reason THEN w.arg ELSE s.reason
             t == [s EXCEPT !.init = TRUE, !.reason = reason]
  <2>1. reason \in 0 .. 255
    BY <1>0, FieldsOf
  <2>2. ApplyWork(s, w) = Updated(t)
    BY <1>3 DEF ApplyWork, RequestInit
  <2> HIDE DEF reason
  <2>3. EnvOK(t)
    BY <2>1, BooleanFields, ByteFields, ZenonT(60) DEF EnvOK
  <2>4. t.irr = s.irr /\ t.isr = s.isr
    BY Names, Zenon DEF EnvOK
  <2> HIDE DEF t
  <2> QED BY <1>3, <2>2, <2>3, <2>4, UpdatedQuiet, Zenon DEF Worked
<1>4. CASE w.kind = "MCA"
  <2> DEFINE t == [s EXCEPT !.mcaPendingId = w.arg, !.mcaPending = TRUE]
  <2>1. EnvOK(t)
    BY <1>0, BooleanFields, ByteFields, ZenonT(60) DEF EnvOK
  <2>2. Quiet(s, t) /\ Quiet(s, s)
    BY Names, Zenon DEF EnvOK, Quiet
  <2>3. ApplyWork(s, w) = Updated(t) \/ ApplyWork(s, w) = s
    BY <1>4 DEF ApplyWork, RequestMca
  <2> HIDE DEF t
  <2>4. Quiet(s, ApplyWork(s, w))
    BY <2>1, <2>2, <2>3, UpdatedQuiet, QuietKeeps, Zenon
  <2> QED BY <1>4, <2>4, QuietKeeps, KeepsWorked, Zenon
<1>5. CASE w.kind = "CMC"
  <2> DEFINE t == [s EXCEPT !.cmcPending = TRUE]
  <2>1. EnvOK(t)
    BY BooleanFields, Zenon DEF EnvOK
  <2>2. Quiet(s, t)
    BY Names, Zenon DEF EnvOK, Quiet
  <2>3. ApplyWork(s, w) = UpdateCmc(t)
    BY <1>5 DEF ApplyWork
  <2> HIDE DEF t
  <2> QED BY <1>5, <2>1, <2>2, <2>3, UpdateCmcKeeps, QuietKeeps, KeepsWorked, Zenon
<1>6. CASE w.kind = "INIT_ENTRY"
  <2> DEFINE t == [s EXCEPT !.initEntry = (w.arg # 0)]
  <2>1. Quiet(s, t)
    BY Names, Zenon DEF EnvOK, Quiet
  <2>2. ApplyWork(s, w) = t
    BY <1>6 DEF ApplyWork
  <2> HIDE DEF t
  <2> QED BY <1>6, <2>1, <2>2, QuietKeeps, KeepsWorked, Zenon
<1> QED BY <1>0, <1>1, <1>2, <1>3, <1>4, <1>5, <1>6, Zenon

\* Entering a handler other than through CR.IVR, and dropping a machine check,
\* leave the port alone.
LEMMA EntriesQuiet ==
    ASSUME NEW s, EnvOK(s)
    PROVE  /\ EnvOK(DropMca(s)) /\ Quiet(s, DropMca(s))
           /\ Quiet(s, EnterMca(s)) /\ Quiet(s, EnterInit(s))
           /\ Quiet(s, EnterPmi(s)) /\ Quiet(s, EnterExternal(s))
<1>u. ASSUME NEW t, EnvOK(t), Quiet(s, t)
      PROVE  Quiet(s, Updated(t)) /\ Quiet(s, EntryPsr(t)) /\ EnvOK(EntryPsr(t))
             /\ EnvOK(Updated(t))
  BY <1>u, UpdatedQuiet, UpdatedExact, EntryPsrQuiet, QuietKeeps, ZenonT(60)
<1>1. EnvOK(DropMca(s)) /\ Quiet(s, DropMca(s))
  <2> DEFINE t == [s EXCEPT !.mcaPending = FALSE]
  <2>1. EnvOK(t)
    BY BooleanFields, Zenon DEF EnvOK
  <2>2. Quiet(s, t) /\ Quiet(s, s)
    BY Names, Zenon DEF EnvOK, Quiet
  <2>3. DropMca(s) = Updated(t) \/ DropMca(s) = s
    BY DEF DropMca
  <2> HIDE DEF t
  <2> QED BY <1>u, <2>1, <2>2, <2>3, Zenon
<1>2. Quiet(s, EnterMca(s))
  <2> DEFINE t == [s EXCEPT !.mcaPending = FALSE, !.mcaActive = TRUE,
                            !.mcaActiveId = s.mcaPendingId,
                            !.context = TRUE, !.halted = FALSE]
  <2>0. s.mcaPendingId \in 0 .. 255
    BY FieldsOf
  <2>4. s.mcaPendingId \in FieldType.mcaActiveId
    BY <2>0, ByteFields, Zenon
  <2>1. EnvOK(t)
    BY <2>4, BooleanFields, Zenon DEF EnvOK
  <2>2. Quiet(s, t)
    BY Names, ZenonT(60) DEF EnvOK, Quiet
  <2>3. EnterMca(s) = Updated(EntryPsr(t))
    BY DEF EnterMca
  <2> HIDE DEF t
  <2> QED BY <1>u, <2>1, <2>2, <2>3, Zenon
<1>3. Quiet(s, EnterInit(s))
  <2> DEFINE t == [s EXCEPT !.init = FALSE, !.reason = 0, !.initActive = TRUE,
                            !.context = TRUE, !.halted = FALSE]
  <2>1. EnvOK(t)
    BY ZeroByte, BooleanFields, Zenon DEF EnvOK
  <2>2. Quiet(s, t)
    BY Names, Zenon DEF EnvOK, Quiet
  <2>3. EnterInit(s) = Updated(EntryPsr(t))
    BY DEF EnterInit
  <2> HIDE DEF t
  <2> QED BY <1>u, <2>1, <2>2, <2>3
<1>4. Quiet(s, EnterPmi(s))
  <2> DEFINE v == CHOOSE v \in s.pmi : \A u \in s.pmi : u <= v
             t == [s EXCEPT !.pmi = s.pmi \ {v}, !.halted = FALSE]
  <2>0. EnterPmi(s) = EntryPsr(Updated(t))
    BY DEF EnterPmi
  <2> HIDE DEF v
  <2>1. s.pmi \ {v} \in FieldType.pmi
    BY FieldsOf, BitmapFields
  <2>2. EnvOK(t)
    BY <2>1, BooleanFields, Zenon DEF EnvOK
  <2>3. Quiet(s, t)
    BY Names, Zenon DEF EnvOK, Quiet
  <2> HIDE DEF t
  <2> QED BY <1>u, <2>0, <2>2, <2>3, Zenon
<1>5. Quiet(s, EnterExternal(s))
  <2> DEFINE t == SetPsr(s, FALSE, FALSE, s.mc)
             u == [t EXCEPT !.icInflight = FALSE, !.halted = FALSE]
  <2>1. EnvOK(t) /\ Quiet(s, t)
    <3>1. s.mc \in BOOLEAN
      BY FieldsOf
    <3> QED BY <3>1, SetPsrOK, SetPsrQuiet, Zenon
  <2>2. EnterExternal(s) = u
    BY DEF EnterExternal
  <2> HIDE DEF t
  <2>3. Quiet(t, u)
    BY <2>1, Names, Zenon DEF EnvOK, Quiet
  <2> HIDE DEF u
  <2> QED BY <2>1, <2>2, <2>3, QuietKeeps
<1> QED BY <1>1, <1>2, <1>3, <1>4, <1>5, Zenon

\* pal_mc_resume restores the PSR and may find a corrected machine check.
LEMMA ResumedKeeps ==
    ASSUME NEW s, EnvOK(s), NEW p \in PsrValue, NEW cmci \in BOOLEAN
    PROVE  Keeps(s, Resumed(s, p, cmci))
<1> DEFINE r == SetPsr(s, p.i, p.ic, p.mc)
           t == SerializeData(r)
           b == t.cmcPending \/ cmci
           u == [t EXCEPT !.context = FALSE, !.mcaActive = FALSE,
                          !.mcaActiveId = 0, !.initActive = FALSE,
                          !.cmcPending = b]
           x == UpdateCmc(u)
<1>1. EnvOK(t) /\ Quiet(s, t)
  <2>1. p.i \in BOOLEAN /\ p.ic \in BOOLEAN /\ p.mc \in BOOLEAN
    BY PsrAssumption
  <2>2. EnvOK(r) /\ Quiet(s, r)
    BY <2>1, SetPsrOK, SetPsrQuiet
  <2> HIDE DEF r
  <2> QED BY <2>2, SerializeDataOK, SerializeDataQuiet, QuietKeeps
<1>2. Resumed(s, p, cmci) = Updated(x)
  BY DEF Resumed
<1>3. b \in BOOLEAN
  OBVIOUS
<1> HIDE DEF t, b
<1>4. EnvOK(u)
  BY <1>1, <1>3, BooleanFields, ZeroByte, ZenonT(60) DEF EnvOK
<1>5. Quiet(t, u)
  BY <1>1, Names, Zenon DEF EnvOK, Quiet
<1> HIDE DEF u
<1>6. Keeps(s, x) /\ EnvOK(x)
  <2>1. Quiet(s, u)
    BY <1>1, <1>5, QuietKeeps
  <2>2. Keeps(u, x)
    BY <1>4, UpdateCmcKeeps
  <2>3. EnvOK(x)
    BY <1>4, UpdateCmcOK
  <2> QED BY <2>1, <2>2, <2>3, QuietKeeps, Zenon
<1> HIDE DEF x
<1> QED BY <1>2, <1>6, UpdatedQuiet, ZenonT(60) DEF Keeps

\* Reading CR.IVR accepts a pending vector above everything in service.
Accepted(s, t, v) ==
    /\ v \in s.irr /\ VectorValid(v)
    /\ \A u \in s.isr : VectorPriority(u) < VectorPriority(v)
    /\ t.irr = s.irr \ {v} /\ t.isr = s.isr \union {v} /\ t.init = s.init

LEMMA AcceptAccepts ==
    ASSUME NEW s, EnvOK(s), \A v \in s.isr : VectorValid(v), HasPending(s)
    PROVE  Accepted(s, Accept(s), FindIrr(s))
<1> DEFINE v == FindIrr(s)
           t == [s EXCEPT !.irr = s.irr \ {v}, !.isr = s.isr \union {v}]
<1>1. s.irr \in SUBSET (0 .. 255) /\ s.isr \in SUBSET (0 .. 255)
  BY FieldsOf, ZenonT(60)
<1>2. /\ v \in s.irr /\ VectorValid(v)
      /\ \A u \in s.isr : VectorPriority(u) < VectorPriority(v)
  BY <1>1, FindIrrAccepts DEF HasPending
<1>3. Accept(s) = Updated(t)
  BY DEF Accept, HasPending
<1> HIDE DEF v
<1>4. s.irr \ {v} \in SUBSET (0 .. 255) /\ s.isr \union {v} \in SUBSET (0 .. 255)
  BY <1>1, <1>2, ZenonT(60)
<1>8. s.irr \ {v} \in FieldType.irr /\ s.isr \union {v} \in FieldType.isr
  BY <1>4, BitmapFields, Zenon
<1>5. EnvOK(t)
  BY <1>8, Zenon DEF EnvOK
<1>6. t.irr = s.irr \ {v} /\ t.isr = s.isr \union {v} /\ t.init = s.init
  BY Names, Zenon DEF EnvOK
<1> HIDE DEF t
<1>7. /\ Accept(s).irr = s.irr \ {v} /\ Accept(s).isr = s.isr \union {v}
      /\ Accept(s).init = s.init
  BY <1>3, <1>5, <1>6, UpdatedQuiet
<1> QED BY <1>2, <1>7, ZenonT(60) DEF Accepted, v

\* Writing CR.EOI takes one vector out of service.
Retired(s, t, v) ==
    t.irr = s.irr /\ t.isr = s.isr \ {v} /\ t.init = s.init

LEMMA EoiRetires ==
    ASSUME NEW s, EnvOK(s)
    PROVE  Retired(s, Eoi(s), FindIsr(s))
<1> DEFINE v == FindIsr(s)
           t == [s EXCEPT !.isr = s.isr \ {v}]
<1>1. s.isr \in SUBSET (0 .. 255)
  BY FieldsOf
<1>2. Eoi(s) = Updated(t)
  BY DEF Eoi
<1> HIDE DEF v
<1>3. s.isr \ {v} \in SUBSET (0 .. 255)
  BY <1>1
<1>6. s.isr \ {v} \in FieldType.isr
  BY <1>3, BitmapFields, ZenonT(60)
<1>4. EnvOK(t)
  BY <1>6, Zenon DEF EnvOK
<1>5. t.irr = s.irr /\ t.isr = s.isr \ {v} /\ t.init = s.init
  BY Names, Zenon DEF EnvOK
<1> HIDE DEF t
<1> QED BY <1>2, <1>4, <1>5, UpdatedQuiet, ZenonT(60) DEF Retired, v

-----------------------------------------------------------------------------
(* LocalSapic implements SapicPort, and its in-service register is a       *)
(* priority stack.                                                         *)

-----------------------------------------------------------------------------
(* The invariant.                                                          *)

\* The in-service register holds the vectors of the history, which rise.
Nested(s, h) ==
    /\ s.isr = {h[k] : k \in DOMAIN h}
    /\ \A j, k \in DOMAIN h : j < k => VectorPriority(h[j]) < VectorPriority(h[k])

\* One processor, with its registers s, its queue q and its history h: only
\* vectors that can be accepted are in service, and an INIT is pending or
\* queued only where INITs exist at all.
CpuInv(c, s, q, h) ==
    /\ \A v \in s.isr : VectorValid(v)
    /\ s.init => c \in Initable
    /\ \A k \in DOMAIN q : q[k].kind = "INIT" => c \in Initable
    /\ Nested(s, h)

PInv == HInv /\ \A c \in CPU : CpuInv(c, env[c], work[c], serving[c])

-----------------------------------------------------------------------------
(* The steps of one processor, from registers s, queue q and history h to  *)
(* t, p and g.                                                             *)

\* A request that its sender may make of processor c.
Allowed(c, w) ==
    /\ w.kind = "IRQ" => VectorValid(w.arg)
    /\ w.kind = "INIT" => c \in Initable

KeepStep(s, q, h, t, p, g) == Keeps(s, t) /\ p = q /\ g = h

EnqueueStep(c, s, q, h, t, p, g) ==
    t = s /\ g = h /\ \E w \in Works : Allowed(c, w) /\ p = Append(q, w)

OwnStep(c, s, q, h, t, p, g) ==
    p = q /\ g = h /\ \E w \in Works : Allowed(c, w) /\ Worked(s, w, t)

QueueStep(s, q, h, t, p, g) ==
    q # <<>> /\ p = Tail(q) /\ g = h /\ Worked(s, Head(q), t)

AcceptStep(s, q, h, t, p, g) ==
    p = q /\ \E v : Accepted(s, t, v) /\ g = Append(h, v)

RetireStep(s, q, h, t, p, g) ==
    /\ p = q /\ Retired(s, t, FindIsr(s))
    /\ g = IF h = <<>> THEN h ELSE SubSeq(h, 1, Len(h) - 1)

ResetStep(s, q, h, t, p, g) ==
    s.init /\ t.irr = {} /\ t.isr = {} /\ ~t.init /\ p = q /\ g = <<>>

StepOf(c, s, q, h, t, p, g) ==
    \/ KeepStep(s, q, h, t, p, g)
    \/ EnqueueStep(c, s, q, h, t, p, g)
    \/ OwnStep(c, s, q, h, t, p, g)
    \/ QueueStep(s, q, h, t, p, g)
    \/ AcceptStep(s, q, h, t, p, g)
    \/ RetireStep(s, q, h, t, p, g)
    \/ ResetStep(s, q, h, t, p, g)

\* The oldest request leaves the queue; the others move up.
LEMMA TailElements ==
    ASSUME NEW q \in Seq(Works), q # <<>>
    PROVE  /\ Head(q) = q[1] /\ 1 \in DOMAIN q
           /\ \A k \in DOMAIN Tail(q) : k + 1 \in DOMAIN q /\ Tail(q)[k] = q[k + 1]
           /\ \A k \in DOMAIN q : k = 1 \/ (k - 1 \in DOMAIN Tail(q)
                                            /\ Tail(q)[k - 1] = q[k])
OBVIOUS

LEMMA AppendElements ==
    ASSUME NEW S, NEW q \in Seq(S), NEW w \in S
    PROVE  /\ DOMAIN Append(q, w) = DOMAIN q \union {Len(q) + 1}
           /\ Append(q, w)[Len(q) + 1] = w
           /\ \A k \in DOMAIN q : Append(q, w)[k] = q[k]
OBVIOUS

\* The last vector of a rising history has the highest priority: it is the one
\* that sapic_find_isr() finds.
LEMMA LastIsHighest ==
    ASSUME NEW s, s.isr \in SUBSET (0 .. 255), NEW h \in Seq(0 .. 255), h # <<>>,
           Nested(s, h), \A v \in s.isr : VectorValid(v)
    PROVE  FindIsr(s) = h[Len(h)]
<1> DEFINE n == Len(h)
<1>1. n \in Nat /\ n > 0 /\ DOMAIN h = 1 .. n /\ n \in DOMAIN h
  OBVIOUS
<1>2. h[n] \in s.isr
  BY <1>1 DEF Nested
<1>3. /\ FindIsr(s) \in s.isr
      /\ VectorPriority(h[n]) <= VectorPriority(FindIsr(s))
  BY <1>2, FindIsrIsHighest, Zenon
<1>4. PICK j \in DOMAIN h : FindIsr(s) = h[j]
  BY <1>3 DEF Nested
<1>5. CASE j = n
  BY <1>4, <1>5
<1>6. CASE j # n
  <2>1. j < n
    BY <1>1, <1>6
  <2>2. VectorPriority(h[j]) < VectorPriority(h[n])
    BY <1>1, <2>1, ZenonT(60) DEF Nested
  <2>6. h[j] \in 0 .. 255 /\ h[n] \in 0 .. 255
    BY <1>1, SMTT(40)
  <2>3. VectorPriority(h[j]) \in Int /\ VectorPriority(h[n]) \in Int
    BY <2>6, PriorityInt, ZenonT(60)
  <2>4. VectorPriority(h[n]) <= VectorPriority(h[j])
    BY <1>3, <1>4, Zenon
  <2>5. \A a, b \in Int : ~(a < b /\ b <= a)
    OBVIOUS
  <2> QED BY <2>2, <2>3, <2>4, <2>5, ZenonT(60)
<1> QED BY <1>5, <1>6, Zenon

\* Accepting above everything in service keeps the history rising.
LEMMA AcceptNested ==
    ASSUME NEW s, NEW t, NEW h \in Seq(0 .. 255), NEW v \in 0 .. 255,
           Nested(s, h), t.isr = s.isr \union {v},
           \A u \in s.isr : VectorPriority(u) < VectorPriority(v)
    PROVE  Nested(t, Append(h, v))
<1> DEFINE n == Len(h)
           g == Append(h, v)
<1>1. n \in Nat /\ DOMAIN h = 1 .. n
  OBVIOUS
<1>2. DOMAIN g = 1 .. n + 1 /\ g[n + 1] = v /\ \A k \in 1 .. n : g[k] = h[k]
  OBVIOUS
<1> HIDE DEF n, g
<1>3. \A k \in 1 .. n : h[k] \in s.isr
  BY <1>1, Zenon DEF Nested
<1>4. t.isr = {g[k] : k \in DOMAIN g}
  <2>1. {g[k] : k \in 1 .. n + 1} = {h[k] : k \in 1 .. n} \union {v}
    BY <1>1, <1>2, SMTT(40)
  <2> QED BY <1>1, <1>2, <2>1, Zenon DEF Nested
<1>5. ASSUME NEW j \in DOMAIN g, NEW k \in DOMAIN g, j < k
      PROVE  VectorPriority(g[j]) < VectorPriority(g[k])
  <2>1. j \in 1 .. n /\ g[j] = h[j]
    BY <1>1, <1>2, <1>5, SMTT(40)
  <2>2. CASE k = n + 1
    BY <1>2, <1>3, <2>1, <2>2, Zenon
  <2>3. CASE k # n + 1
    <3>1. k \in 1 .. n /\ g[k] = h[k]
      BY <1>1, <1>2, <2>3
    <3> QED BY <1>1, <1>5, <2>1, <3>1, Zenon DEF Nested
  <2> QED BY <2>2, <2>3, Zenon
<1> QED BY <1>4, <1>5, ZenonT(60) DEF Nested, g

\* What is read from a sequence is of the sequence's element type.
LEMMA ElementOf ==
    ASSUME NEW S, NEW q \in Seq(S), NEW k \in 1 .. Len(q)
    PROVE  q[k] \in S
OBVIOUS

\* Retiring the last vector of the history leaves the others in service.
LEMMA RetireNested ==
    ASSUME NEW s, NEW t, NEW h \in Seq(0 .. 255), h # <<>>,
           Nested(s, h), t.isr = s.isr \ {h[Len(h)]}
    PROVE  Nested(t, SubSeq(h, 1, Len(h) - 1))
<1> DEFINE n == Len(h)
           g == SubSeq(h, 1, Len(h) - 1)
<1>1. n \in Nat /\ n > 0 /\ DOMAIN h = 1 .. n
  OBVIOUS
<1>7. n \in 1 .. Len(h)
  BY <1>1
<1>6. h[n] \in 0 .. 255
  BY <1>7, ElementOf, Zenon
<1>2. DOMAIN g = 1 .. n - 1 /\ \A k \in 1 .. n - 1 : g[k] = h[k]
  <2>1. g \in Seq(0 .. 255) /\ Len(g) = n - 1 /\ \A k \in 1 .. n - 1 : g[k] = h[k]
    BY FrontElements, ZenonT(60)
  <2> HIDE DEF g
  <2> QED BY <2>1, SMTT(40)
<1>3. \A k \in 1 .. n - 1 : h[k] # h[n]
  <2> SUFFICES ASSUME NEW k \in 1 .. n - 1 PROVE h[k] # h[n]
    OBVIOUS
  <2>1. k \in DOMAIN h /\ n \in DOMAIN h /\ k < n
    BY <1>1
  <2>2. VectorPriority(h[k]) < VectorPriority(h[n])
    BY <2>1, Zenon DEF Nested
  <2>4. VectorPriority(h[n]) \in Int
    BY <1>6, PriorityInt, Zenon
  <2>5. \A a \in Int : ~(a < a)
    OBVIOUS
  <2> QED BY <2>2, <2>4, <2>5, Zenon
<1> HIDE DEF n, g
<1>4. t.isr = {g[k] : k \in DOMAIN g}
  <2>1. t.isr = {h[k] : k \in 1 .. n} \ {h[n]}
    BY <1>1 DEF Nested, n
  <2>2. \A k \in 1 .. n : k = n \/ k \in 1 .. n - 1
    BY <1>1
  <2>3. \A k \in 1 .. n - 1 : k \in 1 .. n
    BY <1>1
  <2>4. ASSUME NEW v \in t.isr PROVE v \in {g[k] : k \in DOMAIN g}
    <3>1. PICK k \in 1 .. n : v = h[k] /\ v # h[n]
      BY <2>1
    <3>2. k \in 1 .. n - 1
      BY <2>2, <3>1, ZenonT(60)
    <3> QED BY <1>2, <3>1, <3>2, Zenon
  <2>5. ASSUME NEW v \in {g[k] : k \in DOMAIN g} PROVE v \in t.isr
    <3>1. PICK k \in 1 .. n - 1 : v = h[k]
      BY <1>2, <2>5
    <3>2. v # h[n] /\ k \in 1 .. n
      BY <1>3, <2>3, <3>1, Zenon
    <3> QED BY <2>1, <3>1, <3>2, Zenon
  <2> QED BY <2>4, <2>5, Zenon
<1>5. ASSUME NEW j \in DOMAIN g, NEW k \in DOMAIN g, j < k
      PROVE  VectorPriority(g[j]) < VectorPriority(g[k])
  <2>1. j \in DOMAIN h /\ k \in DOMAIN h /\ g[j] = h[j] /\ g[k] = h[k]
    BY <1>1, <1>2, SMTT(40)
  <2> QED BY <1>5, <2>1, Zenon DEF Nested
<1> QED BY <1>4, <1>5, Zenon DEF Nested, g

\* Every step of a processor keeps its part of the invariant.
LEMMA StepKeepsCpuInv ==
    ASSUME NEW c \in CPU, NEW s, EnvOK(s), NEW t,
           NEW q \in Seq(Works), NEW p \in Seq(Works),
           NEW h \in Seq(0 .. 255), NEW g \in Seq(0 .. 255),
           CpuInv(c, s, q, h), StepOf(c, s, q, h, t, p, g)
    PROVE  CpuInv(c, t, p, g)
<1>0. s.isr \in SUBSET (0 .. 255) /\ s.irr \in SUBSET (0 .. 255)
  BY FieldsOf, ZenonT(60)
<1>1. CASE KeepStep(s, q, h, t, p, g)
  <2>1. t.isr = s.isr /\ (t.init => s.init) /\ p = q /\ g = h
    BY <1>1, Zenon DEF KeepStep, Keeps
  <2>2. Nested(t, g)
    BY <2>1, Zenon DEF CpuInv, Nested
  <2> QED BY <2>1, <2>2, Zenon DEF CpuInv
<1>2. CASE EnqueueStep(c, s, q, h, t, p, g)
  <2>1. PICK w \in Works : Allowed(c, w) /\ p = Append(q, w)
    BY <1>2, Zenon DEF EnqueueStep
  <2>2. \A k \in DOMAIN p : p[k] = w \/ (k \in DOMAIN q /\ p[k] = q[k])
    BY <2>1, AppendElements, SMTT(40)
  <2>3. \A k \in DOMAIN p : p[k].kind = "INIT" => c \in Initable
    BY <2>1, <2>2, Zenon DEF Allowed, CpuInv
  <2> QED BY <1>2, <2>3, Zenon DEF EnqueueStep, CpuInv
<1>3. CASE OwnStep(c, s, q, h, t, p, g)
  <2>1. PICK w \in Works : Allowed(c, w) /\ Worked(s, w, t)
    BY <1>3 DEF OwnStep
  <2>2. t.isr = s.isr /\ (t.init => c \in Initable) /\ p = q /\ g = h
    BY <1>3, <2>1, Zenon DEF OwnStep, Allowed, Worked, CpuInv
  <2>3. Nested(t, g)
    BY <2>2, Zenon DEF CpuInv, Nested
  <2> QED BY <2>2, <2>3, Zenon DEF CpuInv
<1>4. CASE QueueStep(s, q, h, t, p, g)
  <2>1. q # <<>> /\ p = Tail(q) /\ g = h /\ Worked(s, Head(q), t)
    BY <1>4 DEF QueueStep
  <2>2. /\ Head(q) = q[1] /\ 1 \in DOMAIN q
        /\ \A k \in DOMAIN p : k + 1 \in DOMAIN q /\ p[k] = q[k + 1]
    BY <2>1, TailElements
  <2>3. t.isr = s.isr /\ (t.init => c \in Initable)
    BY <2>1, <2>2, Zenon DEF Worked, CpuInv
  <2>4. \A k \in DOMAIN p : p[k].kind = "INIT" => c \in Initable
    BY <2>2, Zenon DEF CpuInv
  <2>5. Nested(t, g)
    BY <2>1, <2>3, Zenon DEF CpuInv, Nested
  <2> QED BY <2>3, <2>4, <2>5, ZenonT(60) DEF CpuInv
<1>5. CASE AcceptStep(s, q, h, t, p, g)
  <2>1. PICK v : Accepted(s, t, v) /\ g = Append(h, v)
    BY <1>5, Zenon DEF AcceptStep
  <2>2. v \in 0 .. 255
    BY <1>0, <2>1, Zenon DEF Accepted
  <2>3. Nested(t, g)
    BY <2>1, <2>2, AcceptNested, ZenonT(60) DEF Accepted, CpuInv
  <2>4. \A u \in t.isr : VectorValid(u)
    BY <2>1, Zenon DEF Accepted, CpuInv
  <2>5. t.init = s.init /\ p = q
    BY <1>5, <2>1, Zenon DEF Accepted, AcceptStep
  <2> QED BY <2>3, <2>4, <2>5, ZenonT(60) DEF CpuInv
<1>6. CASE RetireStep(s, q, h, t, p, g)
  <2>1. p = q /\ t.isr = s.isr \ {FindIsr(s)} /\ t.init = s.init
    BY <1>6, Zenon DEF RetireStep, Retired
  <2>2. Nested(t, g)
    <3>1. CASE h = <<>>
      <4>1. s.isr = {} /\ g = h
        BY <1>6, <3>1, SMTT(40) DEF CpuInv, Nested, RetireStep
      <4>2. t.isr = s.isr
        BY <2>1, <4>1
      <4> QED BY <4>1, <4>2, ZenonT(60) DEF CpuInv, Nested
    <3>2. CASE h # <<>>
      <4>1. FindIsr(s) = h[Len(h)]
        BY <1>0, <3>2, LastIsHighest, Zenon DEF CpuInv
      <4>2. g = SubSeq(h, 1, Len(h) - 1)
        BY <1>6, <3>2 DEF RetireStep
      <4>3. t.isr = s.isr \ {h[Len(h)]}
        BY <2>1, <4>1, Zenon
      <4> QED BY <3>2, <4>2, <4>3, RetireNested, Zenon DEF CpuInv
    <3> QED BY <3>1, <3>2
  <2>3. \A u \in t.isr : VectorValid(u)
    BY <2>1, ZenonT(60) DEF CpuInv
  <2> QED BY <2>1, <2>2, <2>3, Zenon DEF CpuInv
<1>7. CASE ResetStep(s, q, h, t, p, g)
  <2>1. Nested(t, g)
    BY <1>7 DEF ResetStep, Nested
  <2> QED BY <1>7, <2>1, Zenon DEF ResetStep, CpuInv
<1> QED BY <1>1, <1>2, <1>3, <1>4, <1>5, <1>6, <1>7, Zenon DEF StepOf

-----------------------------------------------------------------------------
(* Every step of a processor is a step of its port, or leaves it alone.    *)

\* What a step of the port of c may do: from pending P and service S to P1, S1.
PortMove(c, P, S, P1, S1) ==
    \/ P1 = P /\ S1 = S
    \/ S1 = S /\ \E v : VectorValid(v) /\ P1 = P \union {v}
    \/ \E v \in P : /\ \A u \in S : VectorPriority(u) < VectorPriority(v)
                    /\ S1 = S \union {v} /\ (P1 = P \ {v} \/ P1 = P)
    \/ S # {} /\ P1 = P /\ S1 = S \ {Port!Innermost(S)}
    \/ c \in Initable /\ P1 \subseteq P /\ S1 = {}

PortMoves(c, s, q, t, p) ==
    PortMove(c, s.irr \union QueuedVectors(q), s.isr,
                t.irr \union QueuedVectors(p), t.isr)

LEMMA QueuedAfterAppend ==
    ASSUME NEW q \in Seq(Works), NEW w \in Works
    PROVE  QueuedVectors(Append(q, w)) =
               QueuedVectors(q) \union (IF w.kind = "IRQ" THEN {w.arg} ELSE {})
<1> DEFINE p == Append(q, w)
           n == Len(q) + 1
<1>1. /\ DOMAIN p = DOMAIN q \union {n} /\ p[n] = w
      /\ \A k \in DOMAIN q : p[k] = q[k]
  BY AppendElements
<1> HIDE DEF p, n
<1>2. ASSUME NEW v PROVE v \in QueuedVectors(p) <=>
          v \in QueuedVectors(q) \/ (w.kind = "IRQ" /\ v = w.arg)
  BY <1>1, Zenon DEF QueuedVectors
<1> QED BY <1>2, Zenon DEF p

LEMMA QueuedBeforeTail ==
    ASSUME NEW q \in Seq(Works), q # <<>>
    PROVE  QueuedVectors(q) = QueuedVectors(Tail(q))
               \union (IF Head(q).kind = "IRQ" THEN {Head(q).arg} ELSE {})
<1> DEFINE p == Tail(q)
           w == Head(q)
<1>1. /\ w = q[1] /\ 1 \in DOMAIN q
      /\ \A k \in DOMAIN p : k + 1 \in DOMAIN q /\ p[k] = q[k + 1]
      /\ \A k \in DOMAIN q : k = 1 \/ (k - 1 \in DOMAIN p /\ p[k - 1] = q[k])
  BY TailElements
<1> HIDE DEF p, w
<1>2. ASSUME NEW v \in QueuedVectors(q)
      PROVE  v \in QueuedVectors(p) \/ (w.kind = "IRQ" /\ v = w.arg)
  <2>1. PICK k \in DOMAIN q : q[k].kind = "IRQ" /\ v = q[k].arg
    BY <1>2 DEF QueuedVectors
  <2>2. CASE k = 1
    BY <1>1, <2>1, <2>2, Zenon
  <2>3. CASE k # 1
    <3>1. k - 1 \in DOMAIN p /\ p[k - 1] = q[k]
      BY <1>1, <2>3, Zenon
    <3> QED BY <2>1, <3>1, Zenon DEF QueuedVectors
  <2> QED BY <2>2, <2>3, Zenon
<1>3. ASSUME NEW v \in QueuedVectors(p) PROVE v \in QueuedVectors(q)
  <2>1. PICK k \in DOMAIN p : p[k].kind = "IRQ" /\ v = p[k].arg
    BY <1>3 DEF QueuedVectors
  <2>2. k + 1 \in DOMAIN q /\ p[k] = q[k + 1]
    BY <1>1, Zenon
  <2> QED BY <2>1, <2>2, Zenon DEF QueuedVectors
<1>4. w.kind = "IRQ" => w.arg \in QueuedVectors(q)
  BY <1>1, Zenon DEF QueuedVectors
<1> QED BY <1>2, <1>3, <1>4, ZenonT(60) DEF p, w

\* The port orders vectors as the Local SAPIC does.
LEMMA SamePriority ==
    ASSUME NEW v
    PROVE  /\ Port!VectorPriority(v) = VectorPriority(v)
           /\ Port!VectorValid(v) <=> VectorValid(v)
BY Zenon DEF Port!VectorPriority, VectorPriority, Port!VectorValid, VectorValid, Port!NMI, NMI

\* EOI retires the innermost vector of the port.
LEMMA FindIsrIsInnermost ==
    ASSUME NEW s, s.isr \in SUBSET (0 .. 255), \A v \in s.isr : VectorValid(v),
           s.isr # {}
    PROVE  FindIsr(s) = Port!Innermost(s.isr)
<1> DEFINE f == FindIsr(s)
           m == Port!Innermost(s.isr)
<1>1. f \in s.isr /\ \A u \in s.isr : VectorPriority(u) <= VectorPriority(f)
  BY FindIsrIsHighest
<1>9. m = CHOOSE v \in s.isr :
               \A u \in s.isr : Port!VectorPriority(u) <= Port!VectorPriority(v)
  BY DEF Port!Innermost
<1>2. m = CHOOSE v \in s.isr : \A u \in s.isr : VectorPriority(u) <= VectorPriority(v)
  BY <1>9, SamePriority, ZenonT(60)
<1> HIDE DEF f, m
<1>3. m \in s.isr /\ \A u \in s.isr : VectorPriority(u) <= VectorPriority(m)
  BY <1>1, <1>2, Zenon
<1>4. VectorPriority(m) <= VectorPriority(f) /\ VectorPriority(f) <= VectorPriority(m)
  BY <1>1, <1>3, Zenon
<1>5. f \in 0 .. 255 /\ m \in 0 .. 255 /\ VectorValid(f) /\ VectorValid(m)
  BY <1>1, <1>3, Zenon
<1>6. VectorPriority(f) \in Int /\ VectorPriority(m) \in Int
  BY <1>5, PriorityInt
<1>7. \A a, b \in Int : a <= b /\ b <= a => a = b
  OBVIOUS
<1>8. VectorPriority(f) = VectorPriority(m)
  BY <1>4, <1>6, <1>7, ZenonT(60)
<1> QED BY <1>5, <1>8, PriorityOrder, ZenonT(60) DEF f, m

LEMMA StepIsPortMove ==
    ASSUME NEW c \in CPU, NEW s, EnvOK(s), NEW t,
           NEW q \in Seq(Works), NEW p \in Seq(Works),
           NEW h \in Seq(0 .. 255), NEW g \in Seq(0 .. 255),
           CpuInv(c, s, q, h), StepOf(c, s, q, h, t, p, g)
    PROVE  PortMoves(c, s, q, t, p)
<1> DEFINE P == s.irr \union QueuedVectors(q)
           P1 == t.irr \union QueuedVectors(p)
<1> SUFFICES PortMove(c, P, s.isr, P1, t.isr)
  BY DEF PortMoves
<1>0. s.isr \in SUBSET (0 .. 255)
  BY FieldsOf, ZenonT(60)
<1>1. CASE KeepStep(s, q, h, t, p, g)
  <2>1. t.isr = s.isr /\ p = q
    BY <1>1, Zenon DEF KeepStep, Keeps
  <2>2. CASE t.irr = s.irr
    BY <2>1, <2>2, Zenon DEF PortMove
  <2>3. ASSUME NEW v, VectorValid(v), t.irr = s.irr \union {v}
        PROVE  PortMove(c, P, s.isr, P1, t.isr)
    <3>1. P1 = P \union {v}
      BY <2>1, <2>3, ZenonT(60)
    <3> HIDE DEF P, P1
    <3> QED BY <2>1, <2>3, <3>1, Zenon DEF PortMove
  <2> QED BY <1>1, <2>2, <2>3, Zenon DEF KeepStep, Keeps
<1>2. CASE EnqueueStep(c, s, q, h, t, p, g)
  <2>1. PICK w \in Works : Allowed(c, w) /\ p = Append(q, w)
    BY <1>2 DEF EnqueueStep
  <2>2. QueuedVectors(p) = QueuedVectors(q)
            \union (IF w.kind = "IRQ" THEN {w.arg} ELSE {})
    BY <2>1, QueuedAfterAppend
  <2>3. t = s
    BY <1>2 DEF EnqueueStep
  <2>4. CASE w.kind = "IRQ"
    <3>1. P1 = P \union {w.arg} /\ VectorValid(w.arg) /\ t.isr = s.isr
      BY <2>1, <2>2, <2>3, <2>4, ZenonT(60) DEF Allowed
    <3> HIDE DEF P, P1
    <3> QED BY <3>1, Zenon DEF PortMove
  <2>5. CASE w.kind # "IRQ"
    <3>1. P1 = P /\ t.isr = s.isr
      BY <2>2, <2>3, <2>5, Zenon
    <3> HIDE DEF P, P1
    <3> QED BY <3>1, Zenon DEF PortMove
  <2> QED BY <2>4, <2>5, Zenon
<1>3. CASE OwnStep(c, s, q, h, t, p, g)
  <2>1. PICK w \in Works : Allowed(c, w) /\ Worked(s, w, t)
    BY <1>3 DEF OwnStep
  <2>2. t.isr = s.isr /\ p = q
    BY <1>3, <2>1, Zenon DEF OwnStep, Worked
  <2>3. t.irr = s.irr \/ \E v : VectorValid(v) /\ t.irr = s.irr \union {v}
    BY <2>1, Zenon DEF Allowed, Worked
  <2>4. P1 = P \/ \E v : VectorValid(v) /\ P1 = P \union {v}
    BY <2>2, <2>3, ZenonT(60)
  <2> HIDE DEF P, P1
  <2> QED BY <2>2, <2>4, Zenon DEF PortMove
<1>4. CASE QueueStep(s, q, h, t, p, g)
  <2> DEFINE w == Head(q)
  <2>1. q # <<>> /\ p = Tail(q) /\ Worked(s, w, t)
    BY <1>4, Zenon DEF QueueStep
  <2>2. QueuedVectors(q) = QueuedVectors(p)
            \union (IF w.kind = "IRQ" THEN {w.arg} ELSE {})
    BY <2>1, QueuedBeforeTail
  <2> HIDE DEF w
  <2>3. CASE w.kind = "IRQ"
    <3>1. P1 = P /\ t.isr = s.isr
      BY <2>1, <2>2, <2>3, Zenon DEF Worked
    <3> HIDE DEF P, P1
    <3> QED BY <3>1, Zenon DEF PortMove
  <2>4. CASE w.kind # "IRQ"
    <3>1. QueuedVectors(q) = QueuedVectors(p) /\ t.isr = s.isr
      BY <2>1, <2>2, <2>4, Zenon DEF Worked
    <3>2. t.irr = s.irr \/ \E v : VectorValid(v) /\ t.irr = s.irr \union {v}
      BY <2>1, <2>4, Zenon DEF Worked
    <3>3. P1 = P \/ \E v : VectorValid(v) /\ P1 = P \union {v}
      BY <3>1, <3>2, Zenon
    <3> HIDE DEF P, P1
    <3> QED BY <3>1, <3>3, Zenon DEF PortMove
  <2> QED BY <2>3, <2>4, Zenon
<1>5. CASE AcceptStep(s, q, h, t, p, g)
  <2>1. PICK v : Accepted(s, t, v)
    BY <1>5 DEF AcceptStep
  <2>2. /\ v \in P /\ \A u \in s.isr : VectorPriority(u) < VectorPriority(v)
        /\ t.isr = s.isr \union {v}
    BY <2>1, Zenon DEF Accepted
  <2>3. t.irr = s.irr \ {v} /\ p = q
    BY <1>5, <2>1, ZenonT(60) DEF Accepted, AcceptStep
  <2>4. P1 = P \ {v} \/ P1 = P
    <3>1. CASE v \in QueuedVectors(q)
      <4>1. P1 = P
        BY <2>3, <3>1, ZenonT(60)
      <4> QED BY <4>1
    <3>2. CASE v \notin QueuedVectors(q)
      <4>1. P1 = P \ {v}
        BY <2>3, <3>2, ZenonT(60)
      <4> QED BY <4>1
    <3> QED BY <3>1, <3>2, Zenon
  <2> HIDE DEF P, P1
  <2> QED BY <2>2, <2>4, ZenonT(60) DEF PortMove
<1>6. CASE RetireStep(s, q, h, t, p, g)
  <2>1. p = q /\ t.irr = s.irr /\ t.isr = s.isr \ {FindIsr(s)}
    BY <1>6, Zenon DEF RetireStep, Retired
  <2>2. CASE s.isr = {}
    <3>1. t.isr = s.isr
      BY <2>1, <2>2, Zenon
    <3> QED BY <2>1, <3>1, ZenonT(60) DEF PortMove
  <2>3. CASE s.isr # {}
    <3>1. FindIsr(s) = Port!Innermost(s.isr)
      BY <1>0, <2>3, FindIsrIsInnermost, Zenon DEF CpuInv
    <3> QED BY <2>1, <2>3, <3>1, ZenonT(60) DEF PortMove
  <2> QED BY <2>2, <2>3, Zenon
<1>7. CASE ResetStep(s, q, h, t, p, g)
  <2>1. c \in Initable /\ t.isr = {} /\ t.irr = {} /\ p = q
    BY <1>7, ZenonT(60) DEF ResetStep, CpuInv
  <2>2. P1 \subseteq P
    BY <2>1, Zenon
  <2> HIDE DEF P, P1
  <2> QED BY <2>1, <2>2, Zenon DEF PortMove
<1> QED BY <1>1, <1>2, <1>3, <1>4, <1>5, <1>6, <1>7, ZenonT(60) DEF StepOf

-----------------------------------------------------------------------------
(* The theorems.                                                           *)

\* One processor moves, in one of the ways above, and the others do not.
Moves(c) ==
    \E t, p, g :
        /\ env' = [env EXCEPT ![c] = t] \/ (env' = env /\ t = env[c])
        /\ work' = [work EXCEPT ![c] = p]
        /\ serving' = [serving EXCEPT ![c] = g]
        /\ StepOf(c, env[c], work[c], serving[c], t, p, g)

\* Such a move is a step of the port.
LEMMA MoveIsPortNext ==
    ASSUME NEW c \in CPU, NEW P, NEW S,
           Pending' = [Pending EXCEPT ![c] = P],
           Service' = [Service EXCEPT ![c] = S],
           PortMove(c, Pending[c], Service[c], P, S)
    PROVE  [Port!PortNext]_(Port!portVars)
<1> DEFINE A == Pending[c]
           B == Service[c]
<1>f. /\ DOMAIN Pending = CPU /\ DOMAIN Service = CPU
      /\ DOMAIN Pending' = CPU /\ DOMAIN Service' = CPU
      /\ Pending = [d \in CPU |-> Pending[d]] /\ Service = [d \in CPU |-> Service[d]]
  BY DEF Pending, Service
<1>a. Pending'[c] = P /\ Service'[c] = S
  BY <1>f
<1>p. P = A => Pending' = Pending
  BY <1>f, Zenon
<1>s. S = B => Service' = Service
  BY <1>f
<1>1. CASE P = A /\ S = B
  BY <1>1, <1>p, <1>s, Zenon DEF Port!portVars
<1>2. ASSUME NEW v, VectorValid(v), P = A \union {v}, S = B
      PROVE  Port!PortNext
  <2>1. Port!Request(c, {v})
    BY <1>2, <1>s, Zenon DEF Port!Request
  <2>2. v \in Pending'[c] /\ Port!VectorValid(v)
    BY <1>2, <1>a, SamePriority, Zenon
  <2> QED BY <2>1, <2>2, ZenonT(60) DEF Port!PortNext
<1>3. ASSUME NEW v \in A, \A u \in B : VectorPriority(u) < VectorPriority(v),
             S = B \union {v}, P = A \ {v} \/ P = A
      PROVE  Port!PortNext
  <2>1. Port!Acceptable(c, v)
    <3>1. ASSUME NEW u \in B
          PROVE  Port!VectorPriority(u) < Port!VectorPriority(v)
      <4>1. /\ Port!VectorPriority(u) = VectorPriority(u)
            /\ Port!VectorPriority(v) = VectorPriority(v)
        BY SamePriority
      <4>2. VectorPriority(u) < VectorPriority(v)
        BY <1>3
      <4> QED BY <4>1, <4>2, ZenonT(60)
    <3> QED BY <1>3, <3>1, Zenon DEF Port!Acceptable
  <2>2. Port!AcceptVector(c, v)
    BY <1>3, <1>p, <2>1, Zenon DEF Port!AcceptVector
  <2> QED BY <1>3, <2>2, Zenon DEF Port!PortNext
<1>4. CASE B # {} /\ P = A /\ S = B \ {Port!Innermost(B)}
  <2>1. Port!Retire(c)
    BY <1>4, <1>p, Zenon DEF Port!Retire
  <2> QED BY <2>1, Zenon DEF Port!PortNext
<1>5. CASE c \in Initable /\ P \subseteq A /\ S = {}
  <2>1. Port!Forget(c)
    BY <1>5, Zenon DEF Port!Forget
  <2> QED BY <2>1, Zenon DEF Port!PortNext
<1> QED BY <1>1, <1>2, <1>3, <1>4, <1>5, ZenonT(60) DEF PortMove

\* A move keeps the invariant and is a step of the port.
LEMMA MovesOK ==
    ASSUME PInv, HInv', NEW c \in CPU, Moves(c)
    PROVE  PInv' /\ [Port!PortNext]_(Port!portVars)
<1>1. PICK t, p, g :
        /\ env' = [env EXCEPT ![c] = t] \/ (env' = env /\ t = env[c])
        /\ work' = [work EXCEPT ![c] = p]
        /\ serving' = [serving EXCEPT ![c] = g]
        /\ StepOf(c, env[c], work[c], serving[c], t, p, g)
  BY ZenonT(60) DEF Moves
<1>2. /\ DOMAIN env = CPU /\ DOMAIN work = CPU /\ DOMAIN serving = CPU
      /\ EnvOK(env[c]) /\ work[c] \in Seq(Works) /\ serving[c] \in Seq(0 .. 255)
      /\ work'[c] \in Seq(Works) /\ serving'[c] \in Seq(0 .. 255)
  BY DEF PInv, HInv, TypeOK
<1>3. env'[c] = t /\ work'[c] = p /\ serving'[c] = g
  BY <1>1, <1>2, Zenon
<1>4. p \in Seq(Works) /\ g \in Seq(0 .. 255)
  BY <1>2, <1>3, ZenonT(60)
<1>5. CpuInv(c, env[c], work[c], serving[c])
  BY Zenon DEF PInv
<1>6. CpuInv(c, t, p, g)
  BY <1>1, <1>2, <1>4, <1>5, StepKeepsCpuInv, ZenonT(60)
<1>7. PInv'
  <2>1. ASSUME NEW d \in CPU PROVE CpuInv(d, env'[d], work'[d], serving'[d])
    <3>1. CASE d = c
      BY <1>3, <1>6, <3>1, ZenonT(60)
    <3>2. CASE d # c
      <4>1. env'[d] = env[d] /\ work'[d] = work[d] /\ serving'[d] = serving[d]
        BY <1>1, <1>2, <3>2, Zenon
      <4> QED BY <4>1, ZenonT(60) DEF PInv
    <3> QED BY <3>1, <3>2
  <2> QED BY <2>1 DEF PInv, CpuInv
<1>8. [Port!PortNext]_(Port!portVars)
  <2> DEFINE P == t.irr \union QueuedVectors(p)
  <2>1. PortMove(c, Pending[c], Service[c], P, t.isr)
    <3>1. PortMoves(c, env[c], work[c], t, p)
      BY <1>1, <1>2, <1>4, <1>5, StepIsPortMove, ZenonT(60)
    <3> QED BY <3>1, ZenonT(60) DEF Pending, Service, PortMoves
  <2>2. Pending' = [Pending EXCEPT ![c] = P]
    <3>1. \A d \in CPU : d # c => env'[d] = env[d] /\ work'[d] = work[d]
      BY <1>1, <1>2
    <3> QED BY <1>3, <3>1, ZenonT(60) DEF Pending
  <2>3. Service' = [Service EXCEPT ![c] = t.isr]
    <3>1. \A d \in CPU : d # c => env'[d] = env[d]
      BY <1>1, <1>2
    <3> QED BY <1>3, <3>1, ZenonT(60) DEF Service
  <2> HIDE DEF P
  <2> QED BY <2>1, <2>2, <2>3, MoveIsPortNext, ZenonT(60)
<1> QED BY <1>7, <1>8

\* A step that replaces the registers of c and leaves its port alone, or
\* raises a vector in it.
LEMMA KeepingMoves ==
    ASSUME HInv, NEW c \in CPU, NEW t, Keeps(env[c], t),
           env' = [env EXCEPT ![c] = t], work' = work, serving' = serving
    PROVE  Moves(c)
<1>1. /\ work' = [work EXCEPT ![c] = work[c]]
      /\ serving' = [serving EXCEPT ![c] = serving[c]]
  BY Zenon DEF HInv, TypeOK
<1>2. StepOf(c, env[c], work[c], serving[c], t, work[c], serving[c])
  BY DEF StepOf, KeepStep
<1> QED BY <1>1, <1>2, ZenonT(60) DEF Moves

LEMMA SubmitMoves ==
    ASSUME PInv, NEW r, NEW c \in CPU, NEW w \in Works, Allowed(c, w),
           Submit(r, c, w), serving' = serving
    PROVE  Moves(c)
<1>0. serving' = [serving EXCEPT ![c] = serving[c]] /\ EnvOK(env[c])
  BY DEF PInv, HInv, TypeOK
<1>1. CASE r = c
  <2> DEFINE t == ApplyWork(env[c], w)
  <2>1. env' = [env EXCEPT ![c] = t] /\ work' = work
    BY <1>1 DEF Submit
  <2>2. Worked(env[c], w, t)
    BY <1>0, ApplyWorked, Zenon
  <2>3. work' = [work EXCEPT ![c] = work[c]]
    BY <2>1 DEF PInv, HInv, TypeOK
  <2> HIDE DEF t
  <2>4. StepOf(c, env[c], work[c], serving[c], t, work[c], serving[c])
    BY <2>2, Zenon DEF StepOf, OwnStep
  <2> QED BY <1>0, <2>1, <2>3, <2>4, ZenonT(60) DEF Moves
<1>2. CASE r # c
  <2> DEFINE p == Append(work[c], w)
  <2>1. env' = env /\ work' = [work EXCEPT ![c] = p]
    BY <1>2, Zenon DEF Submit
  <2>3. StepOf(c, env[c], work[c], serving[c], env[c], p, serving[c])
    <3>1. \E x \in Works : Allowed(c, x) /\ p = Append(work[c], x)
      OBVIOUS
    <3> HIDE DEF p
    <3> QED BY <3>1, Zenon DEF StepOf, EnqueueStep
  <2> HIDE DEF p
  <2> QED BY <1>0, <2>1, <2>3, ZenonT(60) DEF Moves
<1> QED BY <1>1, <1>2

\* The messages that ia64_sapic_deliver() sends, and the requests of the RAS
\* hub, are ones that their senders may make.
LEMMA MessageAllowed ==
    ASSUME NEW c \in CPU, NEW mode \in Mode, NEW v \in 0 .. 255, MessageValid(mode, v)
    PROVE  Allowed(c, MessageWork(mode, v))
<1>0. mode \in Modes
  BY ModeAssumption
<1>1. CASE mode \in {"INT", "INT_REDIRECT"}
  BY <1>1 DEF MessageValid, MessageWork, MessageVector, Allowed
<1>2. CASE mode = "NMI"
  BY <1>2 DEF MessageWork, MessageVector, Allowed, VectorValid, NMI
<1>3. CASE mode = "EXTINT"
  BY <1>3, Zenon DEF MessageWork, MessageVector, Allowed, VectorValid
<1>4. CASE mode = "PMI"
  BY <1>4, Zenon DEF MessageWork, Allowed
<1>5. CASE mode = "INIT"
  <2>1. c \in Initable
    BY <1>5 DEF Initable
  <2> QED BY <1>5, <2>1, Zenon DEF MessageWork, Allowed
<1> QED BY <1>0, <1>1, <1>2, <1>3, <1>4, <1>5, Zenon DEF Modes

LEMMA RasAllowed ==
    ASSUME NEW c \in CPU, NEW w \in RasWork
    PROVE  w \in Works /\ Allowed(c, w)
<1>1. w \in Works /\ w.kind # "IRQ"
  BY RasAssumption
<1>2. w.kind = "INIT" => c \in Initable
  BY DEF Initable
<1> QED BY <1>1, <1>2, Zenon DEF Allowed

LEMMA LoopMoves ==
    ASSUME PInv, NEW c \in CPU, LoopStep(c)
    PROVE  Moves(c)
<1> DEFINE s == env[c]
<1>0. EnvOK(s) /\ DOMAIN env = CPU /\ HInv
  BY DEF PInv, HInv, TypeOK
<1>1. CASE RunWork(c)
  <2> DEFINE t == ApplyWork(s, Head(work[c]))
             p == Tail(work[c])
  <2>1. /\ env' = [env EXCEPT ![c] = t] /\ work' = [work EXCEPT ![c] = p]
        /\ serving' = serving /\ work[c] # <<>>
    BY <1>1 DEF RunWork
  <2>2. serving' = [serving EXCEPT ![c] = serving[c]]
    BY <2>1 DEF PInv, HInv, TypeOK
  <2>3. Head(work[c]) \in Works
    <3>1. work[c] \in Seq(Works)
      BY DEF PInv, HInv, TypeOK
    <3> QED BY <2>1, <3>1
  <2>4. Worked(s, Head(work[c]), t)
    BY <1>0, <2>3, ApplyWorked, Zenon
  <2>5. StepOf(c, s, work[c], serving[c], t, p, serving[c])
    <3> HIDE DEF t
    <3> QED BY <2>1, <2>4, Zenon DEF StepOf, QueueStep
  <2> HIDE DEF t, p
  <2> QED BY <2>1, <2>2, <2>5, ZenonT(60) DEF Moves
<1>2. CASE EnterExec(c)
  <2> DEFINE t == [s EXCEPT !.exec = TRUE, !.halted = FALSE]
  <2>1. env' = [env EXCEPT ![c] = t] /\ work' = work /\ serving' = serving
    BY <1>0, <1>2, ZenonT(60) DEF EnterExec
  <2>2. Quiet(s, t)
    <3> HIDE DEF s
    <3> QED BY <1>0, Names, ZenonT(60) DEF EnvOK, Quiet
  <2> HIDE DEF t
  <2> QED BY <1>0, <2>1, <2>2, QuietKeeps, KeepingMoves, ZenonT(60)
<1>3. CASE LeaveExec(c)
  <2> DEFINE t == [s EXCEPT !.exec = FALSE]
  <2>1. env' = [env EXCEPT ![c] = t] /\ work' = work /\ serving' = serving
    BY <1>0, <1>3 DEF LeaveExec
  <2>2. Quiet(s, t)
    <3> HIDE DEF s
    <3> QED BY <1>0, Names, ZenonT(60) DEF EnvOK, Quiet
  <2> HIDE DEF t
  <2> QED BY <1>0, <2>1, <2>2, QuietKeeps, KeepingMoves, Zenon
<1>4. CASE TakeHalt(c)
  <2> DEFINE t == [s EXCEPT !.haltRequest = FALSE, !.halted = TRUE, !.exec = FALSE]
  <2>1. env' = [env EXCEPT ![c] = t] /\ work' = work /\ serving' = serving
    BY <1>0, <1>4, Zenon DEF TakeHalt
  <2>2. Quiet(s, t)
    <3> HIDE DEF s
    <3> QED BY <1>0, Names, ZenonT(60) DEF EnvOK, Quiet
  <2> HIDE DEF t
  <2> QED BY <1>0, <2>1, <2>2, QuietKeeps, KeepingMoves, Zenon
<1> QED BY <1>1, <1>2, <1>3, <1>4, Zenon DEF LoopStep

LEMMA InterruptMoves ==
    ASSUME PInv, NEW c \in CPU, ExecInterrupt(c)
    PROVE  Moves(c)
<1> DEFINE s == env[c]
           d == DropMca(s)
<1>0. EnvOK(s) /\ HInv
  BY DEF PInv, HInv, TypeOK
<1>1. EnvOK(d) /\ Quiet(s, d)
  BY <1>0, EntriesQuiet
<1>2. ASSUME NEW t, Quiet(s, t), env' = [env EXCEPT ![c] = t],
             work' = work, serving' = serving
      PROVE  Moves(c)
  BY <1>0, <1>2, QuietKeeps, KeepingMoves, ZenonT(60)
<1>3. Quiet(s, EnterMca(s)) /\ Quiet(d, EnterInit(d)) /\ Quiet(d, EnterPmi(d))
      /\ Quiet(d, EnterExternal(d))
  <2> HIDE DEF d
  <2> QED BY <1>0, <1>1, EntriesQuiet, Zenon
<1>4. Quiet(s, EnterInit(d)) /\ Quiet(s, EnterPmi(d)) /\ Quiet(s, EnterExternal(d))
  <2> HIDE DEF d
  <2> QED BY <1>1, <1>3, QuietKeeps, Zenon
<1>5. CASE ExecMca(c)
  BY <1>2, <1>3, <1>5, ZenonT(60) DEF ExecMca
<1>6. CASE ExecInit(c)
  <2>1. CASE ~s.initActive /\ s.initEntry /\ CanSave(s)
    <3>1. env' = [env EXCEPT ![c] = EnterInit(d)] /\ work' = work /\ serving' = serving
      BY <1>6, <2>1 DEF ExecInit
    <3> QED BY <1>2, <1>4, <3>1, ZenonT(60)
  <2>2. CASE ~(~s.initActive /\ s.initEntry /\ CanSave(s))
    <3> DEFINE t == ResetEnv(c, TRUE)
    <3>1. /\ env' = [env EXCEPT ![c] = t] /\ work' = work
          /\ serving' = [serving EXCEPT ![c] = <<>>]
      BY <1>6, <2>2, ZenonT(60) DEF ExecInit
    <3>2. s.init
      BY <1>6, Zenon DEF ExecInit, InitDeliverable
    <3>3. t.irr = {} /\ t.isr = {} /\ ~t.init
      BY DEF ResetEnv
    <3>4. work' = [work EXCEPT ![c] = work[c]]
      BY <3>1 DEF PInv, HInv, TypeOK
    <3> HIDE DEF t
    <3>5. StepOf(c, s, work[c], serving[c], t, work[c], <<>>)
      BY <3>2, <3>3, Zenon DEF StepOf, ResetStep
    <3> QED BY <3>1, <3>4, <3>5, Zenon DEF Moves
  <2> QED BY <2>1, <2>2
<1>7. CASE ExecPmi(c)
  BY <1>2, <1>4, <1>7, Zenon DEF ExecPmi
<1>8. CASE ExecExternal(c)
  BY <1>2, <1>4, <1>8, ZenonT(60) DEF ExecExternal
<1>9. CASE ExecDropMca(c)
  BY <1>1, <1>2, <1>9, ZenonT(60) DEF ExecDropMca
<1> QED BY <1>5, <1>6, <1>7, <1>8, <1>9, Zenon DEF ExecInterrupt

LEMMA GuestMoves ==
    ASSUME PInv, NEW c \in CPU, GuestStep(c)
    PROVE  Moves(c)
<1> DEFINE s == env[c]
<1>0. EnvOK(s) /\ HInv /\ CpuInv(c, s, work[c], serving[c])
  BY DEF PInv, HInv, TypeOK
<1>k. ASSUME NEW t, Keeps(s, t), Guest(c, t), serving' = serving
      PROVE  Moves(c)
  BY <1>0, <1>k, KeepingMoves, ZenonT(60) DEF Guest
<1>q. ASSUME NEW t, Quiet(s, t), Guest(c, t), serving' = serving
      PROVE  Moves(c)
  BY <1>k, <1>q, QuietKeeps, Zenon
<1>w. work' = work => work' = [work EXCEPT ![c] = work[c]]
  BY DEF PInv, HInv, TypeOK
<1>h. serving' = serving => serving' = [serving EXCEPT ![c] = serving[c]]
  BY Zenon DEF PInv, HInv, TypeOK
<1>u. ASSUME NEW t, EnvOK(t), Quiet(s, t)
      PROVE  Quiet(s, Updated(t))
  BY <1>u, UpdatedQuiet, QuietKeeps, Zenon
<1> HIDE DEF s
<1>1. CASE ReadIvr(c)
  <2>1. env' = [env EXCEPT ![c] = Accept(s)] /\ work' = work
    BY <1>1 DEF ReadIvr, Guest, s
  <2>2. CASE HasPending(s)
    <3> DEFINE v == FindIrr(s)
               t == Accept(s)
               g == Append(serving[c], v)
    <3>1. Accepted(s, t, v)
      BY <1>0, <2>2, AcceptAccepts, Zenon DEF CpuInv
    <3>2. serving' = [serving EXCEPT ![c] = g]
      BY <1>1, <2>2, Zenon DEF ReadIvr, s
    <3>3. \E x : Accepted(s, t, x) /\ g = Append(serving[c], x)
      BY <3>1, ZenonT(60)
    <3> HIDE DEF t, g
    <3>4. StepOf(c, s, work[c], serving[c], t, work[c], g)
      BY <3>3 DEF StepOf, AcceptStep
    <3> QED BY <1>w, <2>1, <3>2, <3>4, ZenonT(60) DEF Moves, s, t
  <2>3. CASE ~HasPending(s)
    <3>1. Accept(s) = s
      BY <2>3 DEF Accept, HasPending
    <3>2. serving' = [serving EXCEPT ![c] = serving[c]]
      BY <1>1, <2>3 DEF ReadIvr, s
    <3>3. serving' = serving
      BY <3>2 DEF PInv, HInv, TypeOK
    <3>4. Quiet(s, s)
      BY Zenon DEF Quiet
    <3> QED BY <1>0, <2>1, <3>1, <3>3, <3>4, QuietKeeps, KeepingMoves, ZenonT(60) DEF s
  <2> QED BY <2>2, <2>3, Zenon
<1>2. CASE WriteEoi(c)
  <2> DEFINE t == Eoi(s)
             h == serving[c]
             g == IF h = <<>> THEN h ELSE SubSeq(h, 1, Len(h) - 1)
  <2>1. /\ env' = [env EXCEPT ![c] = t] /\ work' = work
        /\ serving' = [serving EXCEPT ![c] = g]
    BY <1>2, Zenon DEF WriteEoi, Guest, s
  <2>2. Retired(s, t, FindIsr(s))
    BY <1>0, EoiRetires, Zenon
  <2>3. StepOf(c, s, work[c], serving[c], t, work[c], g)
    BY <2>2, Zenon DEF StepOf, RetireStep
  <2> HIDE DEF t, g
  <2> QED BY <1>w, <2>1, <2>3, Zenon DEF Moves, s
<1>3. CASE WriteTpr(c)
  <2>1. PICK x \in TprValue : Guest(c, Updated([s EXCEPT !.tpr = x]))
    BY <1>3 DEF WriteTpr, s
  <2> DEFINE t == [s EXCEPT !.tpr = x]
  <2>2. EnvOK(t)
    BY <1>0, TprAssumption, TprField, ZenonT(60) DEF EnvOK
  <2>3. Quiet(s, t)
    BY <1>0, Names, ZenonT(60) DEF EnvOK, Quiet
  <2>4. serving' = serving
    BY <1>3 DEF WriteTpr
  <2> HIDE DEF t
  <2> QED BY <1>q, <1>u, <2>1, <2>2, <2>3, <2>4, Zenon DEF t
<1>4. CASE WriteLid(c)
  <2>1. PICK x \in LidValue : Guest(c, [s EXCEPT !.lid = x])
    BY <1>4 DEF WriteLid, s
  <2>2. Quiet(s, [s EXCEPT !.lid = x])
    BY <1>0, Names, ZenonT(60) DEF EnvOK, Quiet
  <2>3. serving' = serving
    BY <1>4 DEF WriteLid
  <2> QED BY <1>q, <2>1, <2>2, <2>3, Zenon
<1>5. CASE WriteXtp(c)
  <2>1. PICK x \in XtpValue : Guest(c, [s EXCEPT !.xtp = x])
    BY <1>5 DEF WriteXtp, s
  <2>2. Quiet(s, [s EXCEPT !.xtp = x])
    BY <1>0, Names, ZenonT(60) DEF EnvOK, Quiet
  <2>3. serving' = serving
    BY <1>5 DEF WriteXtp
  <2> QED BY <1>q, <2>1, <2>2, <2>3, Zenon
<1>6. CASE WriteCmcv(c)
  <2>1. PICK v \in CmcVector \union {MASKED} :
           Guest(c, UpdateCmc([s EXCEPT !.cmcv = v]))
    BY <1>6 DEF WriteCmcv, s
  <2> DEFINE t == [s EXCEPT !.cmcv = v]
  <2>2. v \in MASKED .. 255
    BY VectorAssumption DEF MASKED
  <2>3. EnvOK(t)
    BY <1>0, <2>2, CmcvField, ZenonT(60) DEF EnvOK
  <2>4. Quiet(s, t)
    BY <1>0, Names, ZenonT(60) DEF EnvOK, Quiet
  <2>5. serving' = serving
    BY <1>6 DEF WriteCmcv
  <2>6. Guest(c, UpdateCmc(t))
    BY <2>1, Zenon
  <2> HIDE DEF t
  <2> QED BY <1>k, <2>3, <2>4, <2>5, <2>6, UpdateCmcKeeps, QuietKeeps, ZenonT(60)
<1>7. CASE ChangePsr(c)
  <2>1. PICK p \in PsrValue : Guest(c, SetPsr(s, p.i, p.ic, p.mc))
    BY <1>7 DEF ChangePsr, s
  <2>2. p.i \in BOOLEAN /\ p.ic \in BOOLEAN /\ p.mc \in BOOLEAN
    BY PsrAssumption
  <2>3. serving' = serving
    BY <1>7 DEF ChangePsr
  <2> QED BY <1>0, <1>q, <2>1, <2>2, <2>3, SetPsrQuiet, ZenonT(60)
<1>8. CASE Serialize(c)
  <2>1. serving' = serving
    BY <1>8 DEF Serialize
  <2>2. CASE Guest(c, SerializeData(s))
    BY <1>0, <1>q, <2>1, <2>2, SerializeDataQuiet, Zenon
  <2>3. CASE Guest(c, [s EXCEPT !.iDeferred = FALSE])
    <3>1. Quiet(s, [s EXCEPT !.iDeferred = FALSE])
      BY <1>0, Names, ZenonT(60) DEF EnvOK, Quiet
    <3> QED BY <1>q, <2>1, <2>3, <3>1, Zenon
  <2> QED BY <1>8, <2>2, <2>3, Zenon DEF Serialize, s
<1>9. CASE Fault(c)
  <2> DEFINE t == SetPsr(s, FALSE, FALSE, s.mc)
             u == [t EXCEPT !.icInflight = FALSE]
  <2>1. Guest(c, u) /\ serving' = serving
    BY <1>9 DEF Fault, s
  <2>2. EnvOK(t) /\ Quiet(s, t)
    <3>1. s.mc \in BOOLEAN
      BY <1>0, FieldsOf, ZenonT(60)
    <3> QED BY <1>0, <3>1, SetPsrOK, SetPsrQuiet, ZenonT(60)
  <2> HIDE DEF t
  <2>3. Quiet(t, u)
    BY <2>2, Names, ZenonT(60) DEF EnvOK, Quiet
  <2> HIDE DEF u
  <2> QED BY <1>q, <2>1, <2>2, <2>3, QuietKeeps, Zenon
<1>10. CASE PalHalt(c)
  <2> DEFINE t == [s EXCEPT !.haltWake = TRUE, !.haltRequest = TRUE]
  <2>1. Guest(c, t) /\ serving' = serving
    BY <1>10 DEF PalHalt, s
  <2>2. Quiet(s, t)
    BY <1>0, Names, Zenon DEF EnvOK, Quiet
  <2> HIDE DEF t
  <2> QED BY <1>q, <2>1, <2>2, Zenon
<1>11. CASE PalPmiEntrypoint(c)
  <2>1. PICK e \in PmiEntry : Guest(c, Updated([s EXCEPT !.pmiEntry = e]))
    BY <1>11 DEF PalPmiEntrypoint, s
  <2> DEFINE t == [s EXCEPT !.pmiEntry = e]
  <2>2. EnvOK(t)
    BY <1>0, EntryAssumption, BooleanFields, ZenonT(60) DEF EnvOK
  <2>3. Quiet(s, t)
    BY <1>0, Names, ZenonT(60) DEF EnvOK, Quiet
  <2>4. serving' = serving
    BY <1>11 DEF PalPmiEntrypoint
  <2> HIDE DEF t
  <2> QED BY <1>q, <1>u, <2>1, <2>2, <2>3, <2>4, Zenon DEF t
<1>12. CASE PalMcRegisterMem(c)
  <2>1. PICK a \in SaveArea : Guest(c, [s EXCEPT !.saveArea = a])
    BY <1>12 DEF PalMcRegisterMem, s
  <2>2. Quiet(s, [s EXCEPT !.saveArea = a])
    BY <1>0, Names, ZenonT(60) DEF EnvOK, Quiet
  <2>3. serving' = serving
    BY <1>12 DEF PalMcRegisterMem
  <2> QED BY <1>q, <2>1, <2>2, <2>3, Zenon
<1>13. CASE PalMcResume(c)
  <2>1. PICK p \in PsrValue, cmci \in BOOLEAN : Guest(c, Resumed(s, p, cmci))
    BY <1>13 DEF PalMcResume, s
  <2>2. serving' = serving
    BY <1>13 DEF PalMcResume
  <2> QED BY <1>0, <1>k, <2>1, <2>2, ResumedKeeps, Zenon
<1> QED BY <1>1, <1>2, <1>3, <1>4, <1>5, <1>6, <1>7, <1>8, <1>9, <1>10,
        <1>11, <1>12, <1>13, ZenonT(60) DEF GuestStep

LEMMA NextMoves ==
    ASSUME PInv, Next
    PROVE  \E c \in CPU : Moves(c)
<1>1. CASE SendMessage
  <2>1. PICK r \in Requesters, lid \in LidValue, redirect \in BOOLEAN,
             mode \in Mode, v \in Vector \union PmiVector :
               Deliver(r, lid[1], lid[2], redirect, mode, v)
    BY <1>1, Zenon DEF SendMessage
  <2> DEFINE w == MessageWork(mode, v)
             c == Destination(lid[1], lid[2], redirect, mode)
  <2>2. v \in 0 .. 255 /\ mode \in Modes
    BY ModeAssumption, VectorAssumption, PmiAssumption, Zenon
  <2>3. w \in Works
    BY <2>2, MessageWorkType, Zenon
  <2>4. c \in CPU
    BY <2>1, DestinationInCpu, Zenon DEF Deliver, Deliverable, PInv
  <2>5. Submit(r, c, w) /\ serving' = serving /\ MessageValid(mode, v)
    BY <2>1, Zenon DEF Deliver, Deliverable
  <2> HIDE DEF c
  <2>6. Allowed(c, w)
    BY <2>2, <2>4, <2>5, MessageAllowed, Zenon
  <2> HIDE DEF w
  <2> QED BY <2>3, <2>4, <2>5, <2>6, SubmitMoves, Zenon
<1>2. CASE RasRequest
  <2>1. PICK r \in Requesters, c \in CPU, w \in RasWork :
               Submit(r, c, w) /\ serving' = serving
    BY <1>2 DEF RasRequest
  <2> QED BY <2>1, RasAllowed, SubmitMoves, Zenon
<1>3. ASSUME NEW c \in CPU, LoopStep(c) \/ ExecInterrupt(c) \/ GuestStep(c)
      PROVE  Moves(c)
  BY <1>3, LoopMoves, InterruptMoves, GuestMoves, Zenon
<1> QED BY <1>1, <1>2, <1>3, Zenon DEF Next

LEMMA PInvInit == Init => PInv /\ Port!PortInit
<1> SUFFICES ASSUME Init PROVE PInv /\ Port!PortInit
  BY Zenon
<1>1. \A c \in CPU : /\ env[c].irr = {} /\ env[c].isr = {} /\ ~env[c].init
                     /\ work[c] = <<>> /\ serving[c] = <<>>
  BY Zenon DEF Init, ResetEnv
<1>2. \A c \in CPU : CpuInv(c, env[c], work[c], serving[c])
  BY <1>1, SMTT(40) DEF CpuInv, Nested
<1>3. Port!PortInit
  BY <1>1 DEF Port!PortInit, Pending, Service, QueuedVectors
<1> QED BY <1>2, <1>3, HInvInit, Zenon DEF PInv

LEMMA PInvStep == PInv /\ [Next]_vars => PInv' /\ [Port!PortNext]_(Port!portVars)
<1> SUFFICES ASSUME PInv, [Next]_vars
             PROVE  PInv' /\ [Port!PortNext]_(Port!portVars)
  OBVIOUS
<1>1. HInv'
  BY HInvStep DEF PInv
<1>2. CASE Next
  BY <1>1, <1>2, NextMoves, MovesOK, Zenon
<1>3. CASE UNCHANGED vars
  <2>1. Pending' = Pending /\ Service' = Service
    BY <1>3 DEF vars, Pending, Service
  <2>2. PInv'
    BY <1>1, <1>3, Zenon DEF vars, PInv
  <2> QED BY <2>1, <2>2, Zenon DEF Port!portVars
<1> QED BY <1>2, <1>3, Zenon

\* The in-service register of every processor is the stack of the vectors it
\* accepted (sapic_find_isr, ia64_sapic_accept, ia64_sapic_eoi): an EOI retires
\* the vector of the handler that writes it.
THEOREM InServiceIsStack == Spec => []ServiceStack
<1>1. PInv => ServiceStack
  BY Zenon DEF PInv, CpuInv, Nested, ServiceStack
<1> QED BY <1>1, PInvInit, PInvStep, PTL DEF Spec

\* interrupt.c implements the port that the interrupt controllers rely on: no
\* request is lost between the device and CR.IVR, whatever the queue, the
\* masking and the nesting.
THEOREM PortImplemented == Spec => ImplementsPort
BY PInvInit, PInvStep, PTL DEF Spec, ImplementsPort, Port!PortSpec

=============================================================================
