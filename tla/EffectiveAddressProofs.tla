----------------------- MODULE EffectiveAddressProofs -----------------------
(***************************************************************************)
(* The handler computes the target of the processor, for every width of    *)
(* addresses and displacements, every register content and every memory,   *)
(* when the displacement is not negative and there is no prefix.           *)
(***************************************************************************)
EXTENDS EffectiveAddress, TLAPS

LEMMA Remainder == ASSUME NEW m \in Nat \ {0}, NEW n \in Int PROVE n % m \in 0 .. m - 1
  OBVIOUS

LEMMA SpanType ==
    /\ \A w \in {0, 8, 32, 64} : Span[w] \in Nat \ {0}
    /\ \A w \in {0, 8, 32} : Span[w] <= Span[64]
<1>1. \A w \in {0, 8, 32, 64} : Span[w] \in Nat \ {0}
  BY EffectiveAddressAssumption
<1>2. Span[0] = 1 /\ Span[8] <= Span[32] /\ Span[32] <= Span[64]
  BY EffectiveAddressAssumption
<1> QED
  BY <1>1, <1>2

LEMMA WrapType == ASSUME NEW n \in Int PROVE Wrap(n) \in Address
  BY SpanType, Remainder DEF Wrap, Address

LEMMA SignedType == ASSUME NEW n \in Nat, NEW w \in {0, 8, 32, 64} PROVE Signed(n, w) \in Int
  BY SpanType DEF Signed

(* An encoding that is not negative is its value, in any width that holds it. *)
LEMMA SignedPositive ==
    ASSUME NEW n \in Nat, NEW w \in {0, 8, 32}, n < Span[w], 2 * n < Span[w]
    PROVE  Signed(n, w) = n /\ Signed(n % Span[64], 64) = n
<1>1. PICK m \in Nat \ {0} : m = Span[64]
  BY SpanType
<1>2. n < m /\ 2 * n < m
  BY <1>1, SpanType
<1>3. n % m = n
  BY <1>2
<1> QED
  BY <1>1, <1>2, <1>3 DEF Signed

LEMMA InsnType ==
    ASSUME NEW i \in Insns
    PROVE  /\ i \in Insn /\ i.disp \in Nat /\ i.len \in Nat /\ i.scale \in {1, 2, 4, 8}
           /\ i.base \in Wide \cup {"RIP", "NONE"} /\ i.index \in Wide \cup {"NONE"}
           /\ i.width \in {0, 8, 32} /\ i.disp < Span[i.width]
           /\ i.kind \in {"icall", "ijmp", "add"} /\ i.operand \in {"mem", "reg", "other"}
           /\ i.operand = "reg" => i.base \in Wide
  BY EffectiveAddressAssumption DEF Insn, Base

LEMMA RegistersType ==
    ASSUME regs \in Registers
    PROVE  /\ \A r \in Wide \cup {"RIP"} : regs[r] \in Address
           /\ \A r \in Wide \cup {"RIP"} : regs[r] \in Nat
<1>1. \A r \in Wide \cup {"RIP"} : regs[r] \in Values
  BY DEF Registers
<1>2. Values \subseteq Address
  BY EffectiveAddressAssumption
<1>3. Address \subseteq Nat
  BY SpanType DEF Address
<1> QED
  BY <1>1, <1>2, <1>3

(* What get_register answers for any operand is a number of 64 bits. *)
LEMMA RegisterType ==
    ASSUME regs \in Registers, NEW obj
    PROVE  get_register(obj) \in Address /\ get_register(obj) \in Nat
<1>1. 0 \in Address /\ Span[64] - 1 \in Address /\ Address \subseteq Nat
  BY SpanType DEF Address
<1>2. CASE obj \in Wide \cup {"RIP"}
  <2>1. obj # "EAX" /\ obj # "NONE"
    BY <1>2 DEF Wide
  <2>2. get_register(obj) = regs[obj]
    BY <1>2, <2>1 DEF get_register
  <2> QED
    BY <1>2, <2>2, RegistersType
<1>3. CASE obj = "EAX"
  <2>1. "EAX" \notin Wide \cup {"RIP"} /\ "RAX" \in Wide
    BY DEF Wide
  <2> QED
    BY <1>1, <1>3, <2>1, RegistersType DEF get_register
<1>4. CASE obj = "NONE"
  <2>1. "NONE" \notin Wide \cup {"RIP"}
    BY DEF Wide
  <2> QED
    BY <1>1, <1>4, <2>1 DEF get_register
<1>5. CASE obj \notin Wide \cup {"RIP", "EAX", "NONE"}
  BY <1>1, <1>5 DEF get_register
<1> QED
  BY <1>2, <1>3, <1>4, <1>5

(* The flag is up from get_address to the handler's reading of it, when    *)
(* the operand is a register; what was found is what the operand says.     *)
TargetInv ==
    /\ TypeOK /\ insn \in Insns
    /\ pc # "address" => regFlag = 0
    /\ pc \in {"address", "found"} => insn.operand \in {"mem", "reg"}
    /\ pc = "address" => (regFlag = 1 <=> insn.operand = "reg")
    /\ pc \in {"address", "found", "killed"} /\ Transfer /\ Plain64 /\ Positive => AddressExact
    /\ pc = "found" =>
          callAddress = IF insn.operand = "mem" THEN content[indirectAddress] ELSE indirectAddress
    /\ pc = "killed" => insn.operand = "mem" /\ indirectAddress \notin DOMAIN content

LEMMA StartType == NoInsn \in Insns /\ NoRegisters \in Registers /\ 0 \in Address
<1>1. NoInsn \in Insns
  BY EffectiveAddressAssumption DEF NoInsn
<1>2. NoRegisters \in Registers
  <2>1. PICK v \in Values : TRUE
    BY EffectiveAddressAssumption
  <2>2. [r \in Wide \cup {"RIP"} |-> v] \in Registers
    BY DEF Registers
  <2> QED
    BY <2>2 DEF NoRegisters
<1> QED
  BY <1>1, <1>2, SpanType DEF Address

LEMMA TargetInit == Init => TargetInv
<1> SUFFICES ASSUME Init PROVE TargetInv
  OBVIOUS
<1>1. insn \in Insns /\ insn \in Insn /\ regs \in Registers /\ 0 \in Address
  BY StartType, InsnType DEF Init
<1> QED
  BY <1>1 DEF Init, TargetInv, TypeOK

(* What get_address computes. *)
LEMMA SumType ==
    ASSUME insn \in Insns, regs \in Registers
    PROVE  Sum(AfterInsn + Offset + Scale * get_register(opr.index)) \in Address
<1>1. insn.len \in Nat /\ opr.size \in {8, 64} /\ opr.lval = insn.disp /\ insn.disp \in Nat
      /\ opr.scale = IF insn.scale = 1 THEN 0 ELSE insn.scale
  BY InsnType DEF opr, Operand
<1>2. AfterInsn \in Int
  BY <1>1, RegisterType DEF AfterInsn
<1>3. Offset \in Int
  <2>1. insn.disp % Span[opr.size] \in Nat
    <3>1. PICK m \in Nat \ {0} : m = Span[opr.size]
      BY <1>1, SpanType
    <3>2. insn.disp % m \in Nat
      BY <1>1, Remainder
    <3> QED
      BY <3>1, <3>2
  <2> QED
    BY <1>1, <2>1, SignedType DEF Offset
<1>4. Scale \in Nat
  BY <1>1, InsnType DEF Scale
<1>5. Scale * get_register(opr.index) \in Int
  BY <1>4, RegisterType
<1> QED
  BY <1>2, <1>3, <1>5, WrapType DEF Sum

LEMMA SumExact ==
    ASSUME insn \in Insns, regs \in Registers, Transfer, Plain64, Positive
    PROVE  Sum(AfterInsn + Offset + Scale * get_register(opr.index)) = Effective(insn)
<1>1. /\ opr.size = 64 /\ opr.lval = insn.disp /\ opr.base = insn.base /\ opr.index = insn.index
      /\ opr.scale = IF insn.scale = 1 THEN 0 ELSE insn.scale
  BY InsnType DEF opr, Operand, Transfer, Plain64
<1>2. Offset = Signed(insn.disp, insn.width) /\ Offset \in Nat
  BY <1>1, InsnType, SignedPositive DEF Offset, Positive
<1>3. AfterInsn = Part(insn, insn.base) /\ AfterInsn \in Nat
  <2>1. insn.base \in {"RAX", "RCX", "RIP", "NONE"} /\ insn.len \in Nat
    BY InsnType DEF Wide
  <2>2. AfterInsn = Part(insn, insn.base)
    BY <1>1, <2>1 DEF AfterInsn, Part, get_register, Plain64, Wide
  <2> QED
    BY <1>1, <2>1, <2>2, RegisterType DEF AfterInsn
<1>4. Scale * get_register(opr.index) = insn.scale * Part(insn, insn.index)
      /\ Scale * get_register(opr.index) \in Nat
  <2>1. insn.index \in {"RAX", "RCX", "NONE"} /\ insn.scale \in {1, 2, 4, 8}
    BY InsnType DEF Wide
  <2>2. get_register(insn.index) = Part(insn, insn.index) /\ get_register(insn.index) \in Nat
    BY <2>1, RegisterType DEF Part, get_register, Plain64, Wide
  <2>3. CASE insn.index = "NONE"
    <3>1. Part(insn, insn.index) = 0
      BY <2>3 DEF Part, Wide
    <3> QED
      BY <1>1, <2>1, <2>2, <2>3, <3>1 DEF Scale
  <2>4. CASE insn.index # "NONE"
    <3>1. Scale = insn.scale
      BY <1>1, <2>1, <2>4 DEF Scale
    <3> QED
      BY <1>1, <2>1, <2>2, <3>1
  <2> QED
    BY <2>3, <2>4
<1>5. Effective(insn) = Wrap(Part(insn, insn.base) + insn.scale * Part(insn, insn.index)
                             + Signed(insn.disp, insn.width) + 0)
  BY DEF Effective, Plain64
<1> QED
  BY <1>2, <1>3, <1>4, <1>5 DEF Sum

LEMMA TargetStep == TargetInv /\ [Next]_vars => TargetInv'
<1> SUFFICES ASSUME TargetInv, [Next]_vars PROVE TargetInv'
  OBVIOUS
<1> USE DEF TargetInv, TypeOK
<1>1. CASE Trap
  BY <1>1, InsnType DEF Trap
<1>2. CASE GetMemory
  <2>1. insn.operand = "mem" /\ UNCHANGED <<insn, regs, regFlag, callAddress>> /\ regFlag = 0
        /\ pc' = "address" /\ indirectAddress' \in Address
    BY <1>2, SumType DEF GetMemory, opr, Operand
  <2>2. ASSUME Transfer', Plain64', Positive' PROVE AddressExact'
    <3>1. Transfer /\ Plain64 /\ Positive
      BY <2>1, <2>2 DEF Transfer, Plain64, Positive
    <3>2. Effective(insn)' = Effective(insn)
      BY <2>1 DEF Effective, Part
    <3>3. indirectAddress' = Effective(insn)
      BY <1>2, <3>1, SumExact DEF GetMemory
    <3> QED
      BY <2>1, <3>2, <3>3 DEF AddressExact
  <2> QED
    BY <2>1, <2>2
<1>3. CASE GetRegister
  <2>1. insn.operand = "reg" /\ UNCHANGED <<insn, regs, callAddress>> /\ regFlag' = 1 /\ pc' = "address"
        /\ indirectAddress' = get_register(opr.base) /\ indirectAddress' \in Address
    BY <1>3, RegisterType DEF GetRegister, opr, Operand
  <2>2. ASSUME Plain64' PROVE AddressExact'
    <3>1. insn.base \in Wide /\ opr.base = insn.base
      BY <2>1, <2>2, InsnType DEF Plain64, opr, Operand
    <3>2. indirectAddress' = regs[insn.base]
      BY <2>1, <3>1 DEF get_register, Wide
    <3> QED
      BY <2>1, <3>2 DEF AddressExact
  <2> QED
    BY <2>1, <2>2
<1>4. CASE NoIdea
  BY <1>4 DEF NoIdea
<1>5. ASSUME UNCHANGED <<insn, regs, indirectAddress>>, Transfer /\ Plain64 /\ Positive => AddressExact
      PROVE  Transfer' /\ Plain64' /\ Positive' => AddressExact'
  <2>1. Effective(insn)' = Effective(insn)
    BY <1>5 DEF Effective, Part
  <2> QED
    BY <1>5, <2>1 DEF Transfer, Plain64, Positive, AddressExact
<1>6. CASE TakeAddress
  <2>1. insn.operand = "reg" /\ UNCHANGED <<insn, regs, indirectAddress>> /\ regFlag' = 0
        /\ callAddress' = indirectAddress /\ pc' = "found" /\ pc = "address"
    BY <1>6 DEF TakeAddress, Lowered
  <2> QED
    BY <1>5, <2>1
<1>7. CASE Dereference
  <2>1. insn.operand = "mem" /\ UNCHANGED <<insn, regs, indirectAddress, regFlag>> /\ regFlag = 0
        /\ callAddress' = content[indirectAddress] /\ pc' = "found" /\ pc = "address"
        /\ content[indirectAddress] \in Address
    BY <1>7, EffectiveAddressAssumption DEF Dereference
  <2> QED
    BY <1>5, <2>1
<1>8. CASE Fault
  <2>1. insn.operand = "mem" /\ UNCHANGED <<insn, regs, indirectAddress, regFlag, callAddress>>
        /\ regFlag = 0 /\ pc' = "killed" /\ pc = "address" /\ indirectAddress \notin DOMAIN content
    BY <1>8 DEF Fault
  <2> QED
    BY <1>5, <2>1
<1>9. CASE Return
  <2>1. insn' \in Insns /\ regs' \in Registers /\ 0 \in Address
    BY <1>9, StartType DEF Return
  <2> QED
    BY <1>9, <2>1, InsnType DEF Return
<1>10. CASE UNCHANGED vars \/ Stopped
  <2>1. UNCHANGED vars
    BY <1>10 DEF Stopped
  <2> QED
    BY <1>5, <2>1 DEF vars
<1> QED
  BY <1>1, <1>2, <1>3, <1>4, <1>6, <1>7, <1>8, <1>9, <1>10 DEF Next

(* Every variable keeps its type: the sums of get_address stay in 64 bits. *)
THEOREM TypeCorrect == Spec => []TypeOK
<1>1. TargetInv => TypeOK
  BY DEF TargetInv
<1> QED
  BY TargetInit, TargetStep, <1>1, PTL DEF Spec

(* Whatever traps came before, the handler finds the target of the         *)
(* processor and faults only where the processor does.                     *)
THEOREM TargetAlwaysExact == Spec => []TargetExact
<1>1. TargetInv => TargetExact
  <2> SUFFICES ASSUME TargetInv PROVE TargetExact
    OBVIOUS
  <2>1. ASSUME Transfer, Plain64, Positive, pc = "found"
        PROVE  callAddress = IF insn.operand = "mem" THEN content[Effective(insn)] ELSE regs[insn.base]
    BY <2>1 DEF TargetInv, AddressExact
  <2>2. ASSUME Transfer, Plain64, Positive, pc = "killed"
        PROVE  insn.operand = "mem" /\ Effective(insn) \notin DOMAIN content
    BY <2>2 DEF TargetInv, AddressExact
  <2> QED
    BY <2>1, <2>2 DEF TargetInv, TargetExact
<1> QED
  BY TargetInit, TargetStep, <1>1, PTL DEF Spec
=============================================================================
