-------------------------------- MODULE Alat --------------------------------
(***************************************************************************)
(* The advanced load address table of target/ia64/arch/alat.c with the     *)
(* store scopes of exec-access.c and translate.c and the external writers  *)
(* of system/physmem.c.  A table is private to its processor; what keeps   *)
(* it coherent with the stores of the other processors and of devices is   *)
(* one number, the memory generation: the external generation plus the     *)
(* store sequences of all processors.  The number is not read atomically,  *)
(* so every step below makes at most one access to shared state.           *)
(*                                                                         *)
(* Memory bytes hold version numbers: a store makes a new version.         *)
(***************************************************************************)
EXTENDS Integers, FiniteSets

CONSTANTS CPU,            \* processors, numbered from 0 in list order
          Loader,         \* the processors that execute advanced loads
          Reg,            \* tagged registers
          Slots,          \* entries of a table (32 in the code)
          Byte,           \* bytes of RAM
          LoadAccess,     \* ranges of bytes read by advanced loads
          StoreAccess,    \* ranges of bytes written
          External,       \* devices with a direct mapping of RAM
          MaxScopes,      \* bound: store scopes opened per processor
          MaxExternal,    \* bound: advances of the external generation
          MaxStores       \* bound: versions of a byte a device still overwrites

ASSUME CpuAssumption == IsFiniteSet(CPU) /\ CPU # {} /\ CPU = 0 .. Cardinality(CPU) - 1
ASSUME AccessAssumption == /\ Loader \subseteq CPU
                           /\ LoadAccess \subseteq (SUBSET Byte \ {{}})
                           /\ StoreAccess \subseteq (SUBSET Byte \ {{}})
ASSUME TableAssumption == IsFiniteSet(Reg) /\ Reg # {} /\ Slots \in Nat
ASSUME ExternalAssumption == IsFiniteSet(External)

VARIABLES ram,            \* the version held by every byte
          sequence,       \* alat_write_sequence of every processor
          generation,     \* memory_write_generation of physmem.c
          writers,        \* memory_write_active_writers
          device,         \* where each external writer is in its scope
          alat,           \* the valid entries: the bytes of a register, {} if none
          synced,         \* alat_state.memory_write_generation
          loaded,         \* the version of every byte when a register was loaded
          op              \* the instruction a processor is executing

vars == <<ram, sequence, generation, writers, device, alat, synced, loaded, op>>
shared == <<ram, sequence, generation, writers, device>>

-----------------------------------------------------------------------------
(* The instruction in progress.  "then" is where the sampling of the memory *)
(* generation returns to; "floor" remembers, for the properties, the        *)
(* versions a check could at least have loaded when it began.               *)

Idle == [at |-> "idle"]
Kind == {"store", "unequal", "fault"}
Count == Cardinality(CPU)
Last == Count - 1
Odd(n) == n % 2 = 1

(* The loop over the processors: the sum of the first n sequences. *)
SumTo(f) ==
    LET sum[n \in 0 .. Count] == IF n = 0 THEN 0 ELSE sum[n - 1] + f[n - 1]
    IN  sum
Total == generation + SumTo(sequence)[Count]
Active == writers # 0 \/ \E c \in CPU : Odd(sequence[c])
Entries(c) == {r \in Reg : alat[c][r] # {}}

Goto(c, o) == op' = [op EXCEPT ![c] = o]

(* Starts ia64_alat_memory_generation, or with closing the comparison of   *)
(* ia64_alat_memory_generation_changed against o.expected.                 *)
Sampling(o, closing, then) ==
    [o EXCEPT !.at = "external", !.closing = closing, !.then = then,
              !.sum = 0, !.changed = FALSE]

NewOp == [at |-> "external", closing |-> FALSE, then |-> "synced", sum |-> 0,
          changed |-> FALSE, first |-> 0, next |-> 0, expected |-> 0,
          kind |-> "store", reg |-> CHOOSE r \in Reg : TRUE, access |-> {},
          verify |-> FALSE, clear |-> FALSE, floor |-> [b \in Byte |-> 0]]

Init ==
    /\ ram = [b \in Byte |-> 0]
    /\ sequence = [c \in CPU |-> 0]
    /\ generation = 0
    /\ writers = 0
    /\ device = [d \in External |-> "closed"]
    /\ alat = [c \in CPU |-> [r \in Reg |-> {}]]
    /\ synced = [c \in CPU |-> 0]
    /\ loaded = [c \in CPU |-> [r \in Reg |-> [b \in Byte |-> 0]]]
    /\ op = [c \in CPU |-> Idle]

-----------------------------------------------------------------------------
(* Sampling the memory generation: the external generation, the sequence   *)
(* of every processor in list order and, to close a window, the active     *)
(* external writers around a second read of the external generation.       *)

ReadExternal(c) ==
    /\ op[c].at = "external"
    /\ Goto(c, [op[c] EXCEPT !.at = "sequence", !.first = generation,
                             !.sum = generation, !.next = 0])
    /\ UNCHANGED <<shared, alat, synced, loaded>>

ReadSequence(c) ==
    /\ op[c].at = "sequence"
    /\ LET o == op[c]
           sum == o.sum + sequence[o.next]
           changed == o.closing /\ (o.changed \/ Odd(sequence[o.next]))
           differs == changed \/ sum # o.expected
           at == IF o.next # Last THEN "sequence"
                 ELSE IF o.closing /\ ~differs THEN "before" ELSE o.then
       IN Goto(c, [o EXCEPT !.at = at, !.sum = sum,
                            !.next = IF o.next # Last THEN o.next + 1 ELSE 0,
                            !.changed = IF o.next # Last THEN changed
                                        ELSE o.closing /\ differs])
    /\ UNCHANGED <<shared, alat, synced, loaded>>

(* physical_memory_write_generation_changed, one load per step. *)
IgnoreWriters(c) ==
    /\ op[c].at \in {"before", "after"}
    /\ Goto(c, [op[c] EXCEPT !.at = IF op[c].at = "before" THEN "again"
                                                           ELSE op[c].then])
    /\ UNCHANGED <<shared, alat, synced, loaded>>

ReadWriters(c) ==
    /\ op[c].at \in {"before", "after"}
    /\ Goto(c, [op[c] EXCEPT !.at = IF op[c].at = "before" THEN "again"
                                                           ELSE op[c].then,
                             !.changed = op[c].changed \/ writers # 0])
    /\ UNCHANGED <<shared, alat, synced, loaded>>

ReadAgain(c) ==
    /\ op[c].at = "again"
    /\ Goto(c, [op[c] EXCEPT !.at = "after",
                             !.changed = op[c].changed \/ generation # op[c].first])
    /\ UNCHANGED <<shared, alat, synced, loaded>>

(* ia64_alat_clear followed by a new sample: the end of                    *)
(* ia64_alat_memory_window_changed and the whole of ia64_alat_invala.      *)
Discard(c, o) ==
    /\ alat' = [alat EXCEPT ![c] = [r \in Reg |-> {}]]
    /\ Goto(c, Sampling(o, FALSE, "resampled"))

Resampled(c) ==
    /\ op[c].at = "resampled"
    /\ synced' = [synced EXCEPT ![c] = op[c].sum]
    /\ Goto(c, Idle)
    /\ UNCHANGED <<shared, alat, loaded>>

Invala(c) ==
    /\ op[c] = Idle
    /\ Discard(c, NewOp)
    /\ UNCHANGED <<shared, synced, loaded>>

(* ia64_invalidate_alat_register *)
InvalidateRegister(c, r) ==
    /\ op[c] = Idle
    /\ alat[c][r] # {}
    /\ alat' = [alat EXCEPT ![c][r] = {}]
    /\ UNCHANGED <<shared, synced, loaded, op>>

-----------------------------------------------------------------------------
(* ia64_alat_sync_memory_writes once its sample is complete: writes by     *)
(* anyone else clear the table.                                            *)
Synced(c) == op[c].sum = synced[c]

Sync(c) ==
    /\ alat' = IF Synced(c) THEN alat ELSE [alat EXCEPT ![c] = [r \in Reg |-> {}]]
    /\ synced' = [synced EXCEPT ![c] = op[c].sum]

(* The advanced loads of gen-memory.c and the reload of a missed check:    *)
(* ia64_alat_load_begin, the load itself, ia64_set_alat.                   *)
LoadBegin(c, r, a) ==
    /\ op[c] = Idle
    /\ Goto(c, [NewOp EXCEPT !.reg = r, !.access = a, !.then = "load"])
    /\ UNCHANGED <<shared, alat, synced, loaded>>

LoadRam(c) ==
    /\ op[c].at = "load"
    /\ Sync(c)
    /\ loaded' = [loaded EXCEPT ![c][op[c].reg] =
                     [b \in Byte |-> IF b \in op[c].access THEN ram[b] ELSE 0]]
    /\ Goto(c, Sampling([op[c] EXCEPT !.expected = synced'[c]], TRUE, "set"))
    /\ UNCHANGED shared

(* Registration replaces the entry of the register; a full table drops it. *)
(* (The return for an address without translation or advanced loads is     *)
(* not taken: the load has just translated it, and every caller has asked   *)
(* ia64_exec_advanced_load_allowed or brings the address it qualified.)     *)
Register(c) ==
    /\ op[c].at = "set"
    /\ ~op[c].changed
    /\ LET r == op[c].reg IN
       IF alat[c][r] # {} \/ Cardinality(Entries(c)) < Slots
       THEN /\ alat' = [alat EXCEPT ![c][r] = op[c].access]
            /\ Goto(c, Sampling(op[c], TRUE, "published"))
       ELSE UNCHANGED alat /\ Goto(c, Idle)
    /\ UNCHANGED <<shared, synced, loaded>>

Published(c) ==
    /\ op[c].at = "published"
    /\ ~op[c].changed
    /\ Goto(c, Idle)
    /\ UNCHANGED <<shared, alat, synced, loaded>>

(* Any closing sample that finds a change discards the table. *)
WindowChanged(c) ==
    /\ op[c].at \in {"set", "published", "match", "hit", "stored"}
    /\ op[c].changed
    /\ Discard(c, op[c])
    /\ UNCHANGED <<shared, synced, loaded>>

-----------------------------------------------------------------------------
(* ia64_check_load_alat, with an address (verify) or without, and          *)
(* ia64_alat_chk_a, which is the check without address and clear.          *)
CheckBegin(c, r, verify, a, clear) ==
    /\ op[c] = Idle
    /\ Entries(c) # {}
    /\ Goto(c, [NewOp EXCEPT !.reg = r, !.verify = verify, !.access = a,
                             !.clear = clear, !.floor = ram, !.then = "find"])
    /\ UNCHANGED <<shared, alat, synced, loaded>>

(* ia64_find_alat_reg *)
Find(c) ==
    /\ op[c].at = "find"
    /\ Sync(c)
    /\ Goto(c, IF ~Synced(c) \/ alat[c][op[c].reg] = {} THEN Idle
               ELSE Sampling([op[c] EXCEPT !.expected = synced[c]], TRUE,
                             IF op[c].verify THEN "match" ELSE "hit"))
    /\ UNCHANGED <<shared, loaded>>

DropEntry(c) == alat' = [alat EXCEPT ![c][op[c].reg] = {}]

Match(c) ==
    /\ op[c].at = "match"
    /\ ~op[c].changed
    /\ IF alat[c][op[c].reg] = op[c].access
       THEN UNCHANGED alat /\ Goto(c, Sampling(op[c], TRUE, "hit"))
       ELSE (IF op[c].clear THEN DropEntry(c) ELSE UNCHANGED alat) /\ Goto(c, Idle)
    /\ UNCHANGED <<shared, synced, loaded>>

Hit(c) ==
    /\ op[c].at = "hit"
    /\ ~op[c].changed
    /\ IF op[c].clear THEN DropEntry(c) ELSE UNCHANGED alat
    /\ Goto(c, Idle)
    /\ UNCHANGED <<shared, synced, loaded>>

-----------------------------------------------------------------------------
(* The scope of a store: ia64_alat_write_begin, the access to RAM (stored, *)
(* an unequal compare-and-exchange, or left by a fault after or before the *)
(* bytes changed) and ia64_alat_write_end, _cancel or _abort.              *)
Bump(a) == ram' = [b \in Byte |-> ram[b] + (IF b \in a THEN 1 ELSE 0)]

WriteBegin(c, k, a) ==
    /\ op[c] = Idle
    /\ sequence[c] < 2 * MaxScopes
    /\ sequence' = [sequence EXCEPT ![c] = @ + 1]
    /\ Goto(c, [NewOp EXCEPT !.at = "write", !.kind = k, !.access = a,
                             !.expected = synced[c] + 2])
    /\ UNCHANGED <<ram, generation, writers, device, alat, synced, loaded>>

WriteRam(c) ==
    /\ op[c].at = "write"
    /\ \/ /\ op[c].kind \in {"store", "fault"}
          /\ Bump(op[c].access)
       \/ op[c].kind \in {"unequal", "fault"} /\ UNCHANGED ram
    /\ Goto(c, [op[c] EXCEPT !.at = "finish"])
    /\ UNCHANGED <<sequence, generation, writers, device, alat, synced, loaded>>

CancelRollsBack(c) ==
    /\ op[c].at = "finish"
    /\ sequence' = [sequence EXCEPT ![c] = IF op[c].kind = "unequal" THEN @ - 1 ELSE @ + 1]
    /\ CASE op[c].kind = "unequal" ->
              /\ synced' = [synced EXCEPT ![c] = @ + 2]
              /\ Goto(c, Idle)
              /\ UNCHANGED alat
         [] op[c].kind # "unequal" /\ Entries(c) = {} ->
              Goto(c, Idle) /\ UNCHANGED <<alat, synced>>
         [] op[c].kind = "fault" /\ Entries(c) # {} ->
              Discard(c, op[c]) /\ UNCHANGED synced
         [] op[c].kind = "store" /\ Entries(c) # {} ->
              /\ Goto(c, Sampling(op[c], TRUE, "stored"))
              /\ UNCHANGED <<alat, synced>>
    /\ UNCHANGED <<ram, generation, writers, device, loaded>>

(* ia64_alat_write_take_token and the start of ia64_alat_write_finish. *)
TakeToken(c) ==
    /\ op[c].at = "finish"
    /\ sequence' = [sequence EXCEPT ![c] = @ + 1]
    /\ CASE op[c].kind = "unequal" ->
              /\ synced' = [synced EXCEPT ![c] = @ + 2]
              /\ Goto(c, Idle)
              /\ UNCHANGED alat
         [] op[c].kind # "unequal" /\ Entries(c) = {} ->
              Goto(c, Idle) /\ UNCHANGED <<alat, synced>>
         [] op[c].kind = "fault" /\ Entries(c) # {} ->
              Discard(c, op[c]) /\ UNCHANGED synced
         [] op[c].kind = "store" /\ Entries(c) # {} ->
              /\ Goto(c, Sampling(op[c], TRUE, "stored"))
              /\ UNCHANGED <<alat, synced>>
    /\ UNCHANGED <<ram, generation, writers, device, loaded>>

(* Only this store happened: account for it, then drop what it overlaps.   *)
Stored(c) ==
    /\ op[c].at = "stored"
    /\ ~op[c].changed
    /\ synced' = [synced EXCEPT ![c] = op[c].expected]
    /\ Goto(c, Sampling(op[c], FALSE, "overlap"))
    /\ UNCHANGED <<shared, alat, loaded>>

(* ia64_invalidate_alat_phys_range, which synchronises once more. *)
DropEqual(c) ==
    /\ op[c].at = "overlap"
    /\ synced' = [synced EXCEPT ![c] = op[c].sum]
    /\ alat' = [alat EXCEPT ![c] = [r \in Reg |->
                   IF Synced(c) /\ @[r] # op[c].access THEN @[r] ELSE {}]]
    /\ Goto(c, Idle)
    /\ UNCHANGED <<shared, loaded>>

DropOverlaps(c) ==
    /\ op[c].at = "overlap"
    /\ synced' = [synced EXCEPT ![c] = op[c].sum]
    /\ alat' = [alat EXCEPT ![c] = [r \in Reg |->
                   IF Synced(c) /\ @[r] \cap op[c].access = {} THEN @[r] ELSE {}]]
    /\ Goto(c, Idle)
    /\ UNCHANGED <<shared, loaded>>

(* An IA-32 store runs with all other processors between instructions and  *)
(* ends with ia64_alat_notify_store.                                       *)
ExclusiveStore(c, a) ==
    /\ \A d \in CPU : op[d] = Idle
    /\ generation < MaxExternal
    /\ Bump(a)
    /\ generation' = generation + 1
    /\ alat' = [alat EXCEPT ![c] = [r \in Reg |-> {}]]
    /\ synced' = [synced EXCEPT ![c] = Total + 1]
    /\ UNCHANGED <<sequence, writers, device, loaded, op>>

-----------------------------------------------------------------------------
(* External writers: physical_memory_write_external_begin, stores,         *)
(* _end (the generation first, the writer count second) or _cancel.        *)
Device(d, at) == device' = [device EXCEPT ![d] = at]

ExternalBegin(d) ==
    /\ device[d] = "closed"
    /\ generation < MaxExternal
    /\ writers' = writers + 1
    /\ Device(d, "open")
    /\ UNCHANGED <<ram, sequence, generation, alat, synced, loaded, op>>

ExternalStore(d, a) ==
    /\ device[d] \in {"open", "dirty"}
    /\ \A b \in a : ram[b] < MaxStores
    /\ Bump(a)
    /\ Device(d, "dirty")
    /\ UNCHANGED <<sequence, generation, writers, alat, synced, loaded, op>>

ExternalAdvance(d) ==
    /\ device[d] \in {"open", "dirty"}
    /\ generation' = generation + 1
    /\ Device(d, "advanced")
    /\ UNCHANGED <<ram, sequence, writers, alat, synced, loaded, op>>

ExternalEnd(d) ==
    /\ device[d] = "advanced"
    /\ writers' = writers - 1
    /\ Device(d, "closed")
    /\ UNCHANGED <<ram, sequence, generation, alat, synced, loaded, op>>

CancelKeepsCount(d) ==
    /\ device[d] = "open"
    /\ Device(d, "closed")
    /\ UNCHANGED <<ram, sequence, generation, writers, alat, synced, loaded, op>>

ExternalCancel(d) ==
    /\ device[d] = "open"
    /\ writers' = writers - 1
    /\ Device(d, "closed")
    /\ UNCHANGED <<ram, sequence, generation, alat, synced, loaded, op>>

-----------------------------------------------------------------------------
LoaderStep(c) ==
    \/ \E r \in Reg : \/ InvalidateRegister(c, r)
                      \/ \E a \in LoadAccess : LoadBegin(c, r, a)
                      \/ \E v, k \in BOOLEAN, a \in LoadAccess :
                            CheckBegin(c, r, v, a, k)
    \/ Invala(c) \/ LoadRam(c) \/ Register(c) \/ Published(c)
    \/ Find(c) \/ Match(c) \/ Hit(c) \/ WindowChanged(c)

SampleStep(c) ==
    ReadExternal(c) \/ ReadSequence(c) \/ ReadWriters(c) \/ ReadAgain(c) \/ Resampled(c)

StoreStep(c) ==
    \/ \E a \in StoreAccess : ExclusiveStore(c, a) \/ \E k \in Kind : WriteBegin(c, k, a)
    \/ WriteRam(c) \/ TakeToken(c) \/ Stored(c) \/ DropOverlaps(c)

DeviceStep(d) ==
    \/ ExternalBegin(d) \/ ExternalAdvance(d) \/ ExternalEnd(d) \/ ExternalCancel(d)
    \/ \E a \in StoreAccess : ExternalStore(d, a)

Next ==
    \/ \E c \in CPU : SampleStep(c) \/ StoreStep(c)
    \/ \E c \in Loader : LoaderStep(c)
    \/ \E d \in External : DeviceStep(d)

Spec == Init /\ [][Next]_vars

-----------------------------------------------------------------------------
(* The tables hold known ranges, the sequences and the writer count agree  *)
(* with the scopes that are open: the assertions of ia64_alat_write_begin, *)
(* ia64_alat_write_take_token and physical_memory_write_external_end.      *)
TypeOK ==
    /\ ram \in [Byte -> Nat]
    /\ generation \in Nat
    /\ alat \in [CPU -> [Reg -> LoadAccess \cup {{}}]]
    /\ synced \in [CPU -> Nat]
    /\ \A c \in CPU : /\ Cardinality(Entries(c)) <= Slots
                      /\ Odd(sequence[c]) <=> op[c].at \in {"write", "finish"}
    /\ writers = Cardinality({d \in External : device[d] # "closed"})

(* An instruction in progress never leaves its processor with a sampled    *)
(* generation ahead of the real one: such a table would keep entries       *)
(* across the next foreign store (memory_write_generation of cpu.h).       *)
SyncedNotAhead == \A c \in CPU : synced[c] <= Total

(* Between two instructions, a table that is in step with the memory       *)
(* generation, while nobody is storing, holds only ranges whose bytes are  *)
(* still those the register was loaded from.                               *)
EntriesCurrent ==
    \A c \in CPU : op[c] = Idle /\ synced[c] = Total /\ ~Active =>
        \A r \in Reg : \A b \in alat[c][r] : loaded[c][r][b] = ram[b]

(* A check that hits keeps the register: its bytes are at least as recent  *)
(* as RAM was when the check began, so a reload in place of the check      *)
(* could have returned them, whatever the other processors and devices     *)
(* stored meanwhile (ia64_check_load_alat, ia64_alat_chk_a).               *)
HitIsCurrent ==
    [][\A c \in CPU : Hit(c) =>
          \A b \in alat[c][op[c].reg] : loaded[c][op[c].reg][b] >= op[c].floor[b]]_vars
=============================================================================
