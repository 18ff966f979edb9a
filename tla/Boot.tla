-------------------------------- MODULE Boot ---------------------------------
(***************************************************************************)
(* init_gdt of src/kernel/core/gdt.c and the processor it programs: the    *)
(* descriptor table in memory, the register that points to it, the segment *)
(* registers and the task register.                                        *)
(*                                                                         *)
(* The processor checks a descriptor when a selector is loaded, and there  *)
(* are no interrupt handlers yet: a load that fails stops the machine.     *)
(***************************************************************************)
EXTENDS Integers

CONSTANTS
  TssBase,    \* the address of tss
  GdtBase     \* the address of gdt

TssSize == 104   \* sizeof(struct TSS), packed

ASSUME BootAssumption ==
  /\ TssBase \in Nat /\ TssBase \div 65536 < 65536   \* 32 bits
  /\ GdtBase \in Nat

VARIABLES
  pc,       \* the next thing init_gdt does
  gdt,      \* struct GDTEntry gdt[6]
  gdtp,     \* the operand of lgdt
  gdtr,     \* the processor's register, <<>> while the loader's table is used
  segment,  \* what the segment registers hold: [data, code, task]
  tss       \* the fields of tss that are set

boot == <<pc, gdt, gdtp, gdtr, segment, tss>>

-----------------------------------------------------------------------------
(* Descriptors, as set_gdt_entry packs them and as the processor reads     *)
(* them.                                                                   *)

Index == 0 .. 5

Low(n) == n % 65536
High(n) == n \div 65536

\* Mutant: all of base >> 16 is stored into base_high.
PackedUnshifted(base, limit, access, granularity) ==
  [base_low    |-> Low(base),
   base_middle |-> High(base) % 256,
   base_high   |-> High(base) % 256,
   limit_low   |-> Low(limit),
   granularity |-> (High(limit) % 16) + (granularity - (granularity % 16)),
   access      |-> access]

Packed(base, limit, access, granularity) ==
  [base_low    |-> Low(base),
   base_middle |-> High(base) % 256,
   base_high   |-> (High(base) \div 256) % 256,
   limit_low   |-> Low(limit),
   granularity |-> (High(limit) % 16) + (granularity - (granularity % 16)),
   access      |-> access]

BaseOf(d) == d.base_low + 65536 * (d.base_middle + 256 * d.base_high)
LimitOf(d) == d.limit_low + 65536 * (d.granularity % 16)

\* Limits in units of 4096 bytes, and 32-bit operands.
Paged(d) == d.granularity \div 128 = 1
Wide(d) == (d.granularity \div 64) % 2 = 1

Present(d) == d.access \div 128 = 1
Kind(d) == d.access % 32
Privilege(d) == (d.access \div 32) % 4

CodeSegment(d) == Kind(d) \in {26, 27}   \* readable; 27 once accessed
DataSegment(d) == Kind(d) \in {18, 19}   \* writable; 19 once accessed
FreeTask(d) == Kind(d) = 9               \* a 32-bit TSS that is not busy

Empty == Packed(0, 0, 0, 0)

-----------------------------------------------------------------------------
(* init_gdt.                                                               *)

\* The calls of set_gdt_entry: 0x9A, 0x92, 0xFA and 0xF2 with 4 GiB, and 0x89.
Asked(k) ==
  CASE k = 0 -> Packed(0, 0, 0, 0)
    [] k = 1 -> Packed(0, 1048575, 154, 192)
    [] k = 2 -> Packed(0, 1048575, 146, 192)
    [] k = 3 -> Packed(0, 1048575, 250, 192)
    [] k = 4 -> Packed(0, 1048575, 242, 192)
    [] k = 5 -> Packed(TssBase, TssSize - 1, 137, 0)

\* pc counts the calls of set_gdt_entry before it names the later steps.
SetEntry ==
  /\ pc \in Index
  /\ gdt' = [gdt EXCEPT ![pc] = Asked(pc)]
  /\ pc' = pc + 1
  /\ UNCHANGED <<gdtp, gdtr, segment, tss>>

\* Mutant: the table ends before the descriptor of the TSS.
SizeWithoutTss == 5 * 8

SizeOfGdt == 6 * 8

SetPointer ==
  /\ pc = 6
  /\ gdtp' = [limit |-> SizeOfGdt - 1, base |-> GdtBase]
  /\ pc' = 7
  /\ UNCHANGED <<gdt, gdtr, segment, tss>>

\* A selector can be loaded: its descriptor is within the table and present.
Loadable(selector) ==
  /\ gdtr # <<>>
  /\ selector + 7 <= gdtr[1].limit
  /\ Present(gdt[selector \div 8])

Lgdt ==
  /\ pc = 7
  /\ gdtr' = <<gdtp>>
  /\ pc' = 8
  /\ UNCHANGED <<gdt, gdtp, segment, tss>>

Fault == pc' = 99 /\ UNCHANGED <<gdt, gdtp, gdtr, segment, tss>>

\* ds, es, fs, gs and ss with 0x10, then the far jump to 0x08.  The processor
\* marks both descriptors as accessed.
Reload ==
  /\ pc = 8
  /\ IF Loadable(16) /\ DataSegment(gdt[2]) /\ Loadable(8) /\ CodeSegment(gdt[1])
     THEN /\ segment' = [segment EXCEPT !.data = 16, !.code = 8]
          /\ gdt' = [gdt EXCEPT ![1].access = @ + 1, ![2].access = @ + 1]
          /\ pc' = 9
          /\ UNCHANGED <<gdtp, gdtr, tss>>
     ELSE Fault

InitTss ==
  /\ pc = 9
  /\ tss' = [ss0 |-> 16, esp0 |-> 0, iomap_base |-> TssSize]
  /\ pc' = 10
  /\ UNCHANGED <<gdt, gdtp, gdtr, segment>>

\* ltr 0x28 marks the descriptor busy.
Ltr ==
  /\ pc = 10
  /\ IF Loadable(40) /\ FreeTask(gdt[5])
     THEN /\ segment' = [segment EXCEPT !.task = 40]
          /\ gdt' = [gdt EXCEPT ![5].access = @ + 2]
          /\ pc' = 11
          /\ UNCHANGED <<gdtp, gdtr, tss>>
     ELSE Fault

\* gdt, gdtp and tss are zeroed, the segments are those of the loader.
BootInit ==
  /\ pc = 0
  /\ gdt = [k \in Index |-> Empty]
  /\ gdtp = [limit |-> 0, base |-> 0]
  /\ gdtr = <<>>
  /\ segment = [data |-> 0, code |-> 0, task |-> 0]
  /\ tss = [ss0 |-> 0, esp0 |-> 0, iomap_base |-> 0]

BootNext == SetEntry \/ SetPointer \/ Lgdt \/ Reload \/ InitTss \/ Ltr

BootSpec == BootInit /\ [][BootNext]_boot

Done == pc = 11

-----------------------------------------------------------------------------
(* Everything is loaded in an order and with descriptors the processor     *)
(* accepts: table before register, register before selectors, the TSS's    *)
(* descriptor within the limit and not yet busy.                           *)
NoFault == pc # 99

(* Once init_gdt is done, the processor reads from the table what the      *)
(* kernel needs: code and data at privilege 0 that cover all 4 GiB without *)
(* an offset, video memory and stack with them, and a task segment that is *)
(* the kernel's tss, as long as the structure, whose stack segment is a    *)
(* data segment and whose I/O map is behind its end.                       *)
Flat(d) == BaseOf(d) = 0 /\ LimitOf(d) = 1048575 /\ Paged(d) /\ Wide(d)

SegmentsInPlace ==
  Done =>
    LET code == gdt[segment.code \div 8]
        data == gdt[segment.data \div 8]
        task == gdt[segment.task \div 8]
    IN  /\ CodeSegment(code) /\ Flat(code) /\ Privilege(code) = 0
        /\ DataSegment(data) /\ Flat(data) /\ Privilege(data) = 0
        /\ BaseOf(task) = TssBase
        /\ LimitOf(task) = TssSize - 1 /\ ~Paged(task)
        /\ tss.ss0 = segment.data
        /\ tss.iomap_base > LimitOf(task)
=============================================================================
