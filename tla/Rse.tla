-------------------------------- MODULE Rse ---------------------------------
(***************************************************************************)
(* The partitions of the register stack engine, target/ia64/arch/rse.c.    *)
(* The physical stacked registers form a ring that is divided into the     *)
(* current frame and a dirty, a clean and an invalid partition.  Every     *)
(* Group-th word of the backing store is a NaT collection, counted apart.  *)
(* Addresses are numbers of 8-byte words.                                  *)
(*                                                                         *)
(* Mandatory loads and stores are steps of their own: each can fault, and  *)
(* an interrupt can be taken after each of them, which leaves the          *)
(* partitions describing what has been done so far.                        *)
(*                                                                         *)
(* Contents are modelled by following one value that the program has       *)
(* written to a stacked register: c says which registers of the stacked    *)
(* view, which physical registers and which words of memory hold a copy,   *)
(* and word is the backing-store word of the register, or Nowhere once the *)
(* program has overwritten or discarded it.                                *)
(***************************************************************************)
EXTENDS Integers

CONSTANTS N,            \* physical stacked registers (96)
          Group,        \* words of a collection group (64)
          HasClean,     \* rse_has_clean_partition of the processor model
          MaxWord       \* bound: backing-store words

ASSUME RseAssumption == /\ N \in Nat \ {0}
                        /\ Group \in Nat \ {0, 1}
                        /\ HasClean \in BOOLEAN
                        /\ MaxWord \in Nat

VARIABLES s,            \* frame marker, partitions and pointers
          c,            \* where copies of the followed value are
          word,         \* the backing-store word it belongs to
          op            \* the instruction whose mandatory accesses are under way

vars == <<s, c, word, op>>

None == [kind |-> "none"]
Nowhere == -1
NoCopy == [gr |-> {}, grDirty |-> {}, pgr |-> {}, mem |-> {}]

(* Frame markers the guest puts in AR.PFS, CR.IFS or an alloc.  The code   *)
(* refuses only reserved bits in the first two: that their sol <= sof <= N *)
(* is what the architecture demands of the guest.                          *)
Frames == {f \in [sof : 0 .. N, sol : 0 .. N] : f.sol <= f.sof}
EmptyFrame == [sof |-> 0, sol |-> 0]

-----------------------------------------------------------------------------
(* Address arithmetic. *)

CollectBit(a) == a % Group
IsCollection(a) == CollectBit(a) = Group - 1
NatWordsGrow(a, n) == (CollectBit(a) + n) \div (Group - 1)
NatWordsShrink(a, n) == (Group - 2 - CollectBit(a) + n) \div (Group - 1)

(* Register words among the w words below a. *)
RegisterWordsBelow(a, w) ==
    LET first == CollectBit(a) + 1
    IN w - (IF w < first THEN 0 ELSE 1 + (w - first) \div Group)

(* Registers between two words, and the words of the current frame. *)
RegsBetween(a, b) == (b - a) - (b \div Group - a \div Group)
FrameWord(r, v) == r.bsp + v + NatWordsGrow(r.bsp, v)

Phys(r, v) == (r.bol + v) % N

Live(r) == r.clean + r.cleanNat + r.dirty + r.dirtyNat
BspLoad(r) == r.bsp - (Live(r) + 1)
Complete(r) == r.dirty >= 0 /\ r.dirtyNat >= 0
SetFrame(r, f) == [r EXCEPT !.sof = f.sof, !.sol = f.sol]
SetBspstore(r) == [r EXCEPT !.bspstore = r.bsp - (r.dirty + r.dirtyNat)]

(* The frame's top grows: invalid registers first, then the oldest clean   *)
(* ones, whose copies in memory remain valid.                              *)
TakeRegisters(r, growth) ==
    LET clean == r.clean - (growth - r.invalid)
    IN IF growth <= r.invalid THEN [r EXCEPT !.invalid = @ - growth]
       ELSE [r EXCEPT !.invalid = 0, !.clean = clean,
                      !.cleanNat = NatWordsShrink(r.bsp, clean + r.dirty + 1) - r.dirtyNat]

-----------------------------------------------------------------------------
(* Contents. *)

(* A copy of the word from one place to another: i in to iff j in from. *)
Copy(to, i, from, j) == IF j \in from THEN to \cup {i} ELSE to \ {i}

(* ia64_rse_sync_frame_out: the written registers of the frame. *)
SyncFrameOut(r, k) ==
    LET written == {v \in k.grDirty : v < r.sof}
    IN [k EXCEPT !.grDirty = {},
                 !.pgr = (@ \ {Phys(r, v) : v \in written})
                         \cup {Phys(r, v) : v \in written \cap k.gr}]

(* ia64_rse_sync_frame_in_range: from register first to the end of the frame. *)
SyncFrameIn(r, k, first) ==
    [k EXCEPT !.gr = {v \in @ : v < first \/ v >= r.sof}
                     \cup {v \in first .. r.sof - 1 : Phys(r, v) \in k.pgr}]

(* The physical register of store_one and of load_one. *)
StoreReg(r) == (r.bol - r.dirty) % N
LoadReg(r) == (r.bol - (r.clean + r.dirty + 1)) % N

StoreContents(r, k) ==
    IF IsCollection(r.bspstore) THEN [k EXCEPT !.mem = @ \ {r.bspstore}]
    ELSE [k EXCEPT !.mem = Copy(@, r.bspstore, k.pgr, StoreReg(r))]

(* Mutant of LoadContents: only the physical register is filled. *)
LoadPhysicalOnly(r, k) ==
    IF IsCollection(BspLoad(r)) THEN k
    ELSE [k EXCEPT !.pgr = Copy(@, LoadReg(r), k.mem, BspLoad(r))]

LoadContents(r, k) ==
    LET v == (LoadReg(r) - r.bol) % N IN
    IF IsCollection(BspLoad(r)) THEN k
    ELSE [k EXCEPT !.pgr = Copy(@, LoadReg(r), k.mem, BspLoad(r)),
                   !.gr = IF v < r.sof THEN Copy(@, v, k.mem, BspLoad(r)) ELSE @]

(* The program writes register v: the followed value goes if it was there. *)
Overwrite(k, v) == [k EXCEPT !.gr = @ \ {v}, !.grDirty = @ \cup {v}]
Survives(r, w, v) == IF w = FrameWord(r, v) THEN Nowhere ELSE w

(* The physical register and the register of the frame of word w. *)
FrameReg(r, w) == IF w >= r.bsp THEN RegsBetween(r.bsp, w) ELSE -RegsBetween(w, r.bsp)
Home(r, w) == Phys(r, FrameReg(r, w))

(* The step to partitions r and contents k; a value above the frame's top  *)
(* is no longer the program's.  Copies outside the word's own register and *)
(* memory are dropped: nothing may depend on them.                         *)
Step(r, k, w) ==
    /\ s' = r
    /\ word' = IF w < FrameWord(r, r.sof) THEN w ELSE Nowhere
    /\ c' = IF word' = Nowhere THEN [NoCopy EXCEPT !.grDirty = k.grDirty]
            ELSE [gr |-> k.gr \cap {FrameReg(r, w)}, grDirty |-> k.grDirty,
                  pgr |-> k.pgr \cap {Home(r, w)}, mem |-> k.mem \cap {w}]

-----------------------------------------------------------------------------
(* Mutant of StoreOne: the spilled register stays in no partition. *)
StoreLosesRegister(r) ==
    LET next == [r EXCEPT !.bspstore = @ + 1]
    IN IF IsCollection(r.bspstore) THEN [next EXCEPT !.dirtyNat = @ - 1]
                                   ELSE [next EXCEPT !.dirty = @ - 1]

(* ia64_rse_store_one: spill the oldest dirty register or a collection. *)
StoreOne(r) ==
    LET next == [r EXCEPT !.bspstore = @ + 1]
    IN IF IsCollection(r.bspstore)
       THEN [next EXCEPT !.dirtyNat = @ - 1, !.cleanNat = IF HasClean THEN @ + 1 ELSE @]
       ELSE IF HasClean THEN [next EXCEPT !.dirty = @ - 1, !.clean = @ + 1]
                        ELSE [next EXCEPT !.dirty = @ - 1, !.invalid = @ + 1]

(* ia64_rse_load_one followed by the hand-over of the loaded word from the *)
(* clean to the dirty partition.                                           *)
LoadOne(r) ==
    IF IsCollection(BspLoad(r)) THEN [r EXCEPT !.dirtyNat = @ + 1]
                                ELSE [r EXCEPT !.dirty = @ + 1, !.invalid = @ - 1]

(* Mutant of PreserveFrame: the collections above BSP are not counted. *)
PreserveUncounted(r, n) ==
    [r EXCEPT !.bol = (@ + n) % N, !.bsp = @ + n, !.dirty = @ + n]

(* ia64_rse_preserve_frame *)
PreserveFrame(r, n) ==
    LET nats == NatWordsGrow(r.bsp, n)
    IN IF n = 0 THEN r
       ELSE [r EXCEPT !.bol = (@ + n) % N, !.bsp = @ + n + nats,
                      !.dirty = @ + n, !.dirtyNat = @ + nats]

(* ia64_rse_restore_frame: the frame f with n registers below the old one. *)
RestoreFrame(r, f, n) ==
    LET nats == NatWordsShrink(r.bsp, n)
        growth == f.sof - n - r.sof
        down == [r EXCEPT !.bol = (@ - n) % N, !.bsp = @ - (n + nats)]
        top == TakeRegisters(down, growth)
        missing == n - top.dirty
        missingNats == nats - top.dirtyNat
    IN IF growth > r.invalid + r.clean
       THEN SetFrame([down EXCEPT !.invalid = @ + n + r.sof, !.dirty = @ - n,
                                  !.dirtyNat = @ - nats], EmptyFrame)
       ELSE SetFrame(
              CASE missing <= 0 ->
                     [top EXCEPT !.dirty = @ - n, !.dirtyNat = @ - nats]
                [] missing > 0 /\ missing <= top.clean ->
                     [top EXCEPT !.clean = @ - missing, !.cleanNat = @ - missingNats,
                                 !.dirty = 0, !.dirtyNat = 0, !.bspstore = top.bsp]
                [] missing > top.clean ->
                     SetBspstore([top EXCEPT !.dirty = top.clean - missing,
                                             !.dirtyNat = top.cleanNat - missingNats,
                                             !.clean = 0, !.cleanNat = 0]), f)

-----------------------------------------------------------------------------
(* ia64_cpu_set_architectural_reset_rse *)
Reset == [sof |-> N, sol |-> 0, bol |-> 0, dirty |-> 0, dirtyNat |-> 0, clean |-> 0,
          cleanNat |-> 0, invalid |-> 0, bsp |-> 0, bspstore |-> 0]

(* ia64_cpu_set_boot_handoff_rse at the backing store of the boot block. *)
Handoff(a) == [Reset EXCEPT !.sof = 0, !.invalid = N, !.bsp = a, !.bspstore = a]

Init == /\ s \in {Reset} \cup {Handoff(a) : a \in {b \in 0 .. MaxWord : ~IsCollection(b)}}
        /\ c = NoCopy /\ word = Nowhere
        /\ op = None

InRange(r) == r.bsp \in 0 .. MaxWord /\ r.bspstore \in 0 .. MaxWord

(* A handler may run with an incomplete frame; until cover or rfi it does  *)
(* nothing to the register stack.                                          *)
Ready == op = None /\ Complete(s)

(* An instruction writes register v: the value to follow, or another one. *)
WriteFollowed(v) ==
    /\ Ready /\ v < s.sof
    /\ word' = FrameWord(s, v)
    /\ c' = [NoCopy EXCEPT !.gr = {v}, !.grDirty = c.grDirty \cup {v}]
    /\ UNCHANGED <<s, op>>

WriteOther(v) ==
    /\ Ready /\ v < s.sof
    /\ Step(s, Overwrite(c, v), Survives(s, word, v))
    /\ UNCHANGED op

-----------------------------------------------------------------------------
(* The end of alloc: the frame is in place and AR.PFS goes to register r1, *)
(* here a stacked one or (Nowhere) a static one.                           *)
SetAllocFrame(r, k, f, r1) ==
    LET new == SetFrame(r, f)
        grown == IF f.sof > r.sof THEN SyncFrameIn(new, k, r.sof) ELSE k
    IN IF r1 = Nowhere THEN Step(new, grown, word)
       ELSE /\ r1 < f.sof
            /\ Step(new, Overwrite(grown, r1), Survives(new, word, r1))

Targets == {Nowhere} \cup 0 .. N - 1

(* alloc: invalid registers first, then the oldest clean ones, then        *)
(* mandatory stores (ia64_rse_new_frame).                                  *)
Alloc(f, r1) ==
    /\ Ready
    /\ LET growth == f.sof - s.sof
           out == SyncFrameOut(s, c)
       IN \/ /\ growth <= s.invalid + s.clean
             /\ SetAllocFrame(TakeRegisters(s, growth), out, f, r1)
             /\ UNCHANGED op
          \/ /\ growth > s.invalid + s.clean
             /\ r1 = Nowhere
             /\ op' = [kind |-> "alloc", frame |-> f,
                       growth |-> growth - s.invalid - s.clean]
             /\ Step(s, out, word)

(* Mutant of AllocStore: a collection counts as a register. *)
AllocStoreAny ==
    /\ op.kind = "alloc" /\ op.growth > 0
    /\ Step(StoreOne(s), StoreContents(s, c), word)
    /\ op' = [op EXCEPT !.growth = @ - 1]

AllocStore ==
    /\ op.kind = "alloc" /\ op.growth > 0
    /\ Step(StoreOne(s), StoreContents(s, c), word)
    /\ op' = [op EXCEPT !.growth = IF IsCollection(s.bspstore) THEN @ ELSE @ - 1]

AllocEnd(r1) ==
    /\ op.kind = "alloc" /\ op.growth = 0
    /\ SetAllocFrame([s EXCEPT !.invalid = 0, !.clean = 0, !.cleanNat = 0],
                     c, op.frame, r1)
    /\ op' = None

(* br.call: the output registers become the frame of the callee. *)
MoveOutputs(r, k) ==
    LET outputs == r.sof - r.sol
    IN [k EXCEPT !.gr = {v \in @ : v >= outputs}
                        \cup {v - r.sol : v \in {u \in @ : u >= r.sol /\ u < r.sof}}]

BrCall ==
    /\ Ready
    /\ Step(SetFrame(PreserveFrame(s, s.sol), [sof |-> s.sof - s.sol, sol |-> 0]),
            MoveOutputs(s, SyncFrameOut(s, c)), word)
    /\ InRange(s')
    /\ UNCHANGED op

(* cover, also of an incomplete frame. *)
Cover ==
    /\ op = None
    /\ Step(SetFrame(PreserveFrame(s, s.sof), EmptyFrame), SyncFrameOut(s, c), word)
    /\ InRange(s')
    /\ UNCHANGED op

(* ia64_rse_return_to_frame for br.ret (n = f.sol) and rfi (n = f.sof).    *)
ReturnToFrame(f, n) ==
    LET r == RestoreFrame(s, f, n)
    IN /\ InRange(r)
       /\ Step(r, SyncFrameIn(r, SyncFrameOut(s, c), 0), word)
       /\ op' = IF Complete(r) THEN None ELSE [kind |-> "loads"]

BrRet(f) == Ready /\ ReturnToFrame(f, f.sol)
Rfi(f) == Ready /\ ReturnToFrame(f, f.sof)

(* ia64_rse_resume_incomplete_frame: rfi with IFS.v clear. *)
RfiResume ==
    /\ op = None /\ ~Complete(s)
    /\ op' = [kind |-> "loads"]
    /\ UNCHANGED <<s, c, word>>

(* ia64_rse_complete_frame_loads *)
FrameLoad ==
    /\ op.kind = "loads"
    /\ BspLoad(s) >= 0
    /\ LET r == [LoadOne(s) EXCEPT !.bspstore = @ - 1]
       IN /\ Step(r, LoadContents(s, c), word)
          /\ op' = IF Complete(r) THEN None ELSE op

(* flushrs, one store at a time. *)
FlushStore ==
    /\ Ready
    /\ s.dirty + s.dirtyNat > 0
    /\ Step(StoreOne(s), StoreContents(s, c), word)
    /\ UNCHANGED op

(* A dirty register that loadrs or a switch to IA-32 code leaves outside   *)
(* the partitions of r is discarded without being saved.                   *)
Kept(r) == IF word >= s.bspstore /\ word < r.bspstore THEN Nowhere ELSE word

(* loadrs of w words: all of them dirty, nothing below them. *)
LoadrsKeep(w) ==
    LET nats == s.bsp \div Group - (s.bsp - w) \div Group
    IN SetBspstore([s EXCEPT !.dirty = w - nats, !.dirtyNat = nats, !.clean = 0,
                             !.cleanNat = 0, !.invalid = N - (s.sof + w - nats)])

CleanToDirty(r) ==
    SetBspstore([r EXCEPT !.dirty = @ + r.clean, !.clean = 0,
                          !.dirtyNat = @ + r.cleanNat, !.cleanNat = 0])

Loadrs(w) ==
    /\ Ready
    /\ s.sof = 0 \/ w = 0
    /\ RegisterWordsBelow(s.bsp, w) <= N
    /\ s.bsp - w >= 0
    /\ LET r == IF w >= Live(s) THEN CleanToDirty(s) ELSE LoadrsKeep(w)
       IN /\ Step(r, c, Kept(r))
          /\ op' = IF w > Live(s) THEN [kind |-> "loadrs", words |-> w, left |-> w - Live(s)]
                                  ELSE None

LoadrsLoad ==
    /\ op.kind = "loadrs"
    /\ Step(SetBspstore(LoadOne(s)), LoadContents(s, c), word)
    /\ op' = IF op.left > 1 THEN [op EXCEPT !.left = @ - 1] ELSE None

(* mov to AR.BSPSTORE: the registers not yet saved get new words. *)
MovToBspstore(a) ==
    LET nats == NatWordsGrow(a, s.dirty)
        below == RegsBetween(s.bspstore, word)
        r == [s EXCEPT !.bspstore = a, !.dirtyNat = nats, !.bsp = a + s.dirty + nats,
                       !.invalid = @ + s.clean, !.clean = 0, !.cleanNat = 0]
    IN /\ Ready /\ InRange(r)
       /\ Step(r, c, CASE word >= s.bspstore -> a + below + NatWordsGrow(a, below)
                       [] word < s.bspstore /\ word < a -> word
                       [] OTHER -> Nowhere)
       /\ UNCHANGED op

(* br.ia and rfi to IA-32 code: the register stack is left empty. *)
EnterIa32 ==
    LET r == [s EXCEPT !.sof = 0, !.sol = 0, !.dirty = 0, !.dirtyNat = 0, !.clean = 0,
                       !.cleanNat = 0, !.invalid = N, !.bspstore = s.bsp]
    IN /\ Ready
       /\ Step(r, SyncFrameOut(s, c), Kept(r))
       /\ UNCHANGED op

(* A fault of a mandatory access, or an interrupt in the window after it.  *)
Interruption ==
    /\ op # None
    /\ op' = None
    /\ UNCHANGED <<s, c, word>>

Next ==
    \/ \E f \in Frames : (\E r1 \in Targets : Alloc(f, r1)) \/ BrRet(f) \/ Rfi(f)
    \/ \E v \in 0 .. N - 1 : WriteFollowed(v) \/ WriteOther(v)
    \/ \E r1 \in Targets : AllocEnd(r1)
    \/ AllocStore \/ BrCall \/ Cover \/ RfiResume \/ FrameLoad
    \/ FlushStore \/ LoadrsLoad \/ EnterIa32 \/ Interruption
    \/ \E w \in 0 .. MaxWord : Loadrs(w)
    \/ \E a \in 0 .. MaxWord : MovToBspstore(a)

Spec == Init /\ [][Next]_vars

-----------------------------------------------------------------------------
Regs == 0 .. N - 1
Words == 0 .. MaxWord

Ops == [kind : {"none", "loads"}]
       \cup [kind : {"alloc"}, frame : Frames, growth : 0 .. N]
       \cup [kind : {"loadrs"}, words : Words, left : Words]

(* Every component is in its range. *)
TypeOK ==
    /\ s \in [sof : 0 .. N, sol : 0 .. N, bol : Regs, dirty : -N .. N,
              dirtyNat : -N .. N, clean : 0 .. N, cleanNat : 0 .. N,
              invalid : 0 .. 2 * N, bsp : Words, bspstore : Words]
    /\ s.sol <= s.sof
    /\ c \in [gr : SUBSET Regs, grDirty : SUBSET Regs,
              pgr : SUBSET Regs, mem : SUBSET Words]
    /\ word \in Nowhere .. MaxWord + 2 * N
    /\ op \in Ops

(* The four partitions cover the physical file exactly once, and BSPSTORE  *)
(* is below BSP by what is dirty or above it by what is missing: the       *)
(* relation ia64_rse_check asserts, after every mandatory access as well   *)
(* as at the end of every instruction.                                     *)
Partitioned ==
    /\ s.sof + s.dirty + s.clean + s.invalid = N
    /\ s.clean >= 0 /\ s.invalid >= 0
    /\ s.bspstore = s.bsp - (s.dirty + s.dirtyNat)
    /\ ~HasClean => s.clean = 0 /\ s.cleanNat = 0

(* The collection words counted in a partition are those its addresses     *)
(* span (ia64_rse_check, ia64_rse_migration_view_valid), in an incomplete  *)
(* frame too, and BSP never rests on a collection.                         *)
CollectionsCounted ==
    /\ ~IsCollection(s.bsp)
    /\ s.dirtyNat = s.bsp \div Group - s.bspstore \div Group
    /\ s.cleanNat = s.bspstore \div Group
                    - (s.bspstore - (s.clean + s.cleanNat)) \div Group

(* An alloc or loadrs that is interrupted between two accesses, and then   *)
(* executed again, finds exactly the work that remains (the comment in     *)
(* ia64_rse_new_frame).                                                    *)
RestartExact ==
    /\ op.kind = "alloc" =>
          op.growth = op.frame.sof - s.sof - s.invalid - s.clean
    /\ op.kind = "loadrs" => op.left = op.words - Live(s)

(* A value written to a stacked register is found again: in memory below   *)
(* BSPSTORE, in its physical register while dirty, and in the stacked view *)
(* once its frame is current, whatever calls, returns, spills, fills and   *)
(* interruptions of them came between.                                     *)
ValueFound ==
    word # Nowhere =>
        IF word < s.bspstore THEN word \in c.mem
        ELSE IF word < s.bsp THEN Home(s, word) \in c.pgr
        ELSE FrameReg(s, word) \in c.gr
=============================================================================
