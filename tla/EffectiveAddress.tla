-------------------------- MODULE EffectiveAddress --------------------------
(***************************************************************************)
(* data/trap/trap.c: how trap_handler computes the target of the indirect  *)
(* call or jump it was called for, from the operand that udis86 decoded    *)
(* and the registers in the signal's context, trap after trap; against     *)
(* where the processor goes when the instruction runs.                     *)
(*                                                                         *)
(* Of the 16 registers there are two, RAX, of which get_register knows the *)
(* 32-bit part too, and RCX, of which it does not; RDX and the others of   *)
(* 64 bits are handled as they are.                                        *)
(***************************************************************************)
EXTENDS Integers

CONSTANTS
    Span,       \* how many values 8, 32 and 64 bits have; Span[0] = 1
    Values,     \* the register contents that are tried
    Insns,      \* the instructions that traps may be on
    content,    \* the memory: what is at each address that can be read
    FSBase      \* the base of the thread's segment

Address == 0 .. Span[64] - 1

Wide == {"RAX", "RCX"}
Base == Wide \cup {"RIP", "NONE"}

(* add is what the byte 0 decodes to that the handler writes for a key it  *)
(* does not find; width is that of the displacement; short and segment say *)
(* that there is an address-size or a segment prefix.                      *)
Insn == [kind : {"icall", "ijmp", "add"}, operand : {"mem", "reg", "other"},
         base : Base, index : Wide \cup {"NONE"}, scale : {1, 2, 4, 8},
         width : {0, 8, 32}, disp : Nat, len : Nat,
         short : BOOLEAN, segment : BOOLEAN]

ASSUME EffectiveAddressAssumption ==
    /\ Span \in [{0, 8, 32, 64} -> Nat \ {0}] /\ Span[0] = 1
    /\ Span[8] <= Span[32] /\ Span[32] <= Span[64]
    /\ Values \subseteq Address /\ DOMAIN content \subseteq Address
    /\ \A a \in DOMAIN content : content[a] \in Address
    /\ Insns \subseteq Insn /\ Insns # {} /\ Values # {}
    /\ \A i \in Insns : i.disp < Span[i.width]
    /\ \A i \in Insns : i.operand = "reg" => i.base \in Wide
    /\ FSBase \in Address

VARIABLES
    insn,           \* the instruction the trap was on
    regs,           \* the registers in the context, RIP at the instruction
    regFlag,
    indirectAddress,
    callAddress,    \* the target that the handler found
    pc

vars == <<insn, regs, regFlag, indirectAddress, callAddress, pc>>

Registers == [Wide \cup {"RIP"} -> Values]

Wrap(n) == n % Span[64]

(* The value of an encoding of the given width that has a sign. *)
Signed(n, width) == IF 2 * n < Span[width] THEN n ELSE n - Span[width]

---------------------------------------------------------------------------
(* udis86: the size of an operand is that of the data, 64 bits for the     *)
(* target of a transfer; the displacement is put into a cleared lval; the  *)
(* scale 1 is given as 0.                                                  *)

Narrow == [RAX |-> "EAX", RCX |-> "ECX", RIP |-> "RIP", NONE |-> "NONE"]

Operand(i) ==
    [type |-> i.operand, size |-> IF i.kind = "add" THEN 8 ELSE 64,
     base |-> IF i.short THEN Narrow[i.base] ELSE i.base,
     index |-> IF i.short THEN Narrow[i.index] ELSE i.index,
     scale |-> IF i.scale = 1 THEN 0 ELSE i.scale,
     lval |-> i.disp]

opr == Operand(insn)

(* The processor. *)
Part(i, reg) ==
    CASE reg = "NONE" -> 0
      [] reg = "RIP"  -> regs["RIP"] + i.len
      [] reg \in Wide -> IF i.short THEN regs[reg] % Span[32] ELSE regs[reg]

Effective(i) ==
    LET sum == Part(i, i.base) + i.scale * Part(i, i.index) + Signed(i.disp, i.width) IN
    Wrap((IF i.short THEN sum % Span[32] ELSE sum) + IF i.segment THEN FSBase ELSE 0)

---------------------------------------------------------------------------
(* get_register and get_address.                                           *)

get_register(obj) ==
    CASE obj \in Wide \cup {"RIP"} -> regs[obj]
      [] obj = "EAX"               -> regs["RAX"]
      [] obj = "NONE"              -> 0
      [] OTHER                     -> Span[64] - 1

(* The part of lval that is as wide as the operand, with a sign. *)
Offset == Signed(opr.lval % Span[opr.size], opr.size)

AtInsn == get_register(opr.base)                                \* mutant
AfterInsn ==
    IF opr.base = "RIP" THEN get_register(opr.base) + insn.len ELSE get_register(opr.base)

Scale ==
    IF opr.index = "NONE" THEN 0 ELSE IF opr.scale = 0 THEN 1 ELSE opr.scale

Unbounded(n) == n                                               \* mutant
Sum(n) == Wrap(n)

(* What the last trap left is not read again. *)
NoInsn == CHOOSE i \in Insns : TRUE
NoRegisters == CHOOSE r \in Registers : TRUE

Init ==
    /\ insn = NoInsn /\ regs = NoRegisters
    /\ indirectAddress = 0 /\ callAddress = 0 /\ regFlag = 0
    /\ pc = "user"

(* The program runs into a trap; trap_handler decodes the instruction. *)
Trap ==
    /\ pc = "user"
    /\ insn' \in Insns /\ regs' \in Registers
    /\ pc' = "decoded"
    /\ UNCHANGED <<regFlag, indirectAddress, callAddress>>

GetMemory ==
    /\ pc = "decoded" /\ opr.type = "mem"
    /\ indirectAddress' = Sum(AfterInsn + Offset + Scale * get_register(opr.index))
    /\ pc' = "address"
    /\ UNCHANGED <<insn, regs, regFlag, callAddress>>

GetRegister ==
    /\ pc = "decoded" /\ opr.type = "reg"
    /\ regFlag' = 1
    /\ indirectAddress' = get_register(opr.base)
    /\ pc' = "address"
    /\ UNCHANGED <<insn, regs, callAddress>>

(* Any other type of operand: the process exits. *)
NoIdea ==
    /\ pc = "decoded" /\ opr.type = "other"
    /\ pc' = "exited"
    /\ UNCHANGED <<insn, regs, regFlag, indirectAddress, callAddress>>

(* trap_handler. *)

StaysUp == regFlag                                              \* mutant
Lowered == 0

TakeAddress ==
    /\ pc = "address" /\ regFlag # 0
    /\ regFlag' = Lowered
    /\ callAddress' = indirectAddress
    /\ pc' = "found"
    /\ UNCHANGED <<insn, regs, indirectAddress>>

Dereference ==
    /\ pc = "address" /\ regFlag = 0
    /\ indirectAddress \in DOMAIN content
    /\ callAddress' = content[indirectAddress]
    /\ pc' = "found"
    /\ UNCHANGED <<insn, regs, regFlag, indirectAddress>>

(* There is no memory at the address: SIGSEGV in the handler. *)
Fault ==
    /\ pc = "address" /\ regFlag = 0
    /\ indirectAddress \notin DOMAIN content
    /\ pc' = "killed"
    /\ UNCHANGED <<insn, regs, regFlag, indirectAddress, callAddress>>

(* The target goes into address_list, and the handler returns in the end.  *)
Return ==
    /\ pc = "found"
    /\ insn' = NoInsn /\ regs' = NoRegisters
    /\ indirectAddress' = 0 /\ callAddress' = 0
    /\ pc' = "user"
    /\ UNCHANGED regFlag

Stopped == pc \in {"exited", "killed"} /\ UNCHANGED vars

Next ==
    \/ Trap
    \/ GetMemory \/ GetRegister \/ NoIdea
    \/ TakeAddress \/ Dereference \/ Fault
    \/ Return \/ Stopped

Spec == Init /\ [][Next]_vars

---------------------------------------------------------------------------

TypeOK ==
    /\ insn \in Insn /\ regs \in Registers
    /\ regFlag \in {0, 1}
    /\ indirectAddress \in Address /\ callAddress \in Address
    /\ pc \in {"user", "decoded", "address", "found", "exited", "killed"}

Transfer == insn.kind # "add" /\ insn.operand # "other"
Plain64 == ~insn.short /\ ~insn.segment
Positive == 2 * insn.disp < Span[insn.width]

(* The processor reads its target at the address that get_address returns, *)
(* or takes it from the same register.                                     *)
AddressExact ==
    indirectAddress = IF insn.operand = "mem" THEN Effective(insn) ELSE regs[insn.base]

(* Whatever traps came before, the handler finds the target to which the   *)
(* processor goes, and does not fault, when the displacement is not        *)
(* negative and there is neither an address-size nor a segment prefix.     *)
TargetExact ==
    Transfer /\ Plain64 /\ Positive =>
        /\ pc \in {"address", "found", "killed"} => AddressExact
        /\ pc = "found" => callAddress = IF insn.operand = "mem"
                                           THEN content[Effective(insn)]
                                           ELSE regs[insn.base]
        /\ pc = "killed" => insn.operand = "mem" /\ Effective(insn) \notin DOMAIN content

(* trap.c:171, "get the offset Value": the displacement is taken with its  *)
(* sign, so that the address of any 64-bit operand is exact.               *)
OffsetExact ==
    Transfer /\ Plain64 /\ pc \in {"address", "found"} => AddressExact
=============================================================================
