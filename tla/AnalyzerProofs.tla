--------------------------- MODULE AnalyzerProofs ---------------------------
(***************************************************************************)
(* Theorems about the Analyzer, for all programs, windows and bounds.      *)
(***************************************************************************)
EXTENDS Analyzer, BoundTreeProofs

---------------------------------------------------------------------------
(* The queue and the table.                                                *)

LEMMA ListInsert ==
    ASSUME NEW S, NEW list \in Seq(S), NEW a \in S
    PROVE  /\ list_insert(list, a) \in Seq(S)
           /\ ToSet(list_insert(list, a)) = ToSet(list) \cup {a}
<1>1. CASE list_find(list, a)
  BY <1>1 DEF list_insert, list_find, ToSet
<1>2. CASE ~list_find(list, a)
  <2>1. list_insert(list, a) = Append(list, a)
    BY <1>2 DEF list_insert
  <2>2. /\ Append(list, a) \in Seq(S)
        /\ DOMAIN Append(list, a) = 1 .. Len(list) + 1
        /\ \A i \in 1 .. Len(list) : Append(list, a)[i] = list[i]
        /\ Append(list, a)[Len(list) + 1] = a
    OBVIOUS
  <2>3. DOMAIN list = 1 .. Len(list) /\ Len(list) \in Nat
    OBVIOUS
  <2> QED
    BY <2>1, <2>2, <2>3 DEF ToSet
<1> QED
  BY <1>1, <1>2

LEMMA ListRest ==
    ASSUME NEW S, NEW list \in Seq(S)
    PROVE  /\ list_rest(list) \in Seq(S)
           /\ ToSet(list) \subseteq ToSet(list_rest(list)) \cup {list_pop(list)}
           /\ ToSet(list_rest(list)) \subseteq ToSet(list)
           /\ list_pop(list) \in S \cup {0}
<1>1. CASE list = <<>>
  BY <1>1 DEF list_rest, list_pop, ToSet
<1>2. CASE list # <<>>
  <2>1. list_rest(list) = Tail(list) /\ list_pop(list) = Head(list)
    BY <1>2 DEF list_rest, list_pop
  <2>2. /\ Len(list) \in Nat \ {0}
        /\ DOMAIN list = 1 .. Len(list)
        /\ Head(list) = list[1] /\ list[1] \in S
        /\ Tail(list) \in Seq(S) /\ DOMAIN Tail(list) = 1 .. Len(list) - 1
        /\ \A i \in 1 .. Len(list) - 1 : Tail(list)[i] = list[i + 1]
    BY <1>2
  <2>5. ToSet(list) \subseteq ToSet(Tail(list)) \cup {list[1]}
    <3> SUFFICES ASSUME NEW i \in 1 .. Len(list), i # 1
                 PROVE  list[i] \in ToSet(Tail(list))
      BY <2>2 DEF ToSet
    <3>1. i - 1 \in 1 .. Len(list) - 1 /\ i = (i - 1) + 1
      BY <2>2
    <3>2. Tail(list)[i - 1] = list[i]
      BY <2>2, <3>1
    <3> QED
      BY <2>2, <3>1, <3>2 DEF ToSet
  <2>6. ToSet(Tail(list)) \subseteq ToSet(list)
    BY <2>2 DEF ToSet
  <2> QED
    BY <2>1, <2>2, <2>5, <2>6
<1> QED
  BY <1>1, <1>2

LEMMA HashInsert ==
    ASSUME NEW S, NEW V, NEW ht, DOMAIN ht \subseteq S, ht \in [DOMAIN ht -> V],
           NEW k \in S, NEW v \in V
    PROVE  /\ DOMAIN hashtable_insert(ht, k, v) = DOMAIN ht \cup {k}
           /\ hashtable_insert(ht, k, v) \in [DOMAIN hashtable_insert(ht, k, v) -> V]
BY DEF hashtable_insert

---------------------------------------------------------------------------
(* What is decoded is an instruction.                                      *)

AnyInsn == [kind : Kind, len : Nat, to : Nat]

LEMMA AddressesAreNumbers == Addr \subseteq Nat
BY AnalyzerAssumption DEF Addr

LEMMA ProgramsAreTyped ==
    ASSUME TypeOK
    PROVE  /\ prog.symbol \in Nat /\ prog.runtime \subseteq Nat
           /\ Targets \subseteq Nat /\ Addr \cup {0} \subseteq Nat
<1>1. prog \in Program /\ pending \subseteq Addr \cup {0}
  BY SMTT(30) DEF TypeOK
<1>2. prog.symbol \in Addr \cup {0} /\ prog.runtime \subseteq Addr \cup {0}
  BY <1>1, SMTT(30) DEF Program
<1>3. Targets \subseteq Addr \cup {0}
  BY <1>1, <1>2 DEF Targets
<1>4. Addr \cup {0} \subseteq Nat
  BY AddressesAreNumbers
<1> QED
  BY ONLY <1>2, <1>3, <1>4

LEMMA PlainIsInsn == ASSUME NEW n \in Nat PROVE Plain(n) \in AnyInsn /\ Plain(n).kind = "op"
BY DEF Plain, AnyInsn, Kind

LEMMA ProgramInsn ==
    ASSUME TypeOK, NEW a \in Addr PROVE prog.insn[a] \in Insn
BY DEF TypeOK, Program

LEMMA InsnIsAny == Insn \subseteq AnyInsn
BY AnalyzerAssumption DEF Insn, AnyInsn, Addr

LEMMA DecodingsType ==
    ASSUME TypeOK, NEW m \in [Addr -> {"orig", "cc", "zero"}], NEW a \in Nat,
           NEW d \in Decodings(m, a)
    PROVE  d \in AnyInsn /\ (d.kind # "op" => a \in Addr /\ d.to \in Addr)
<1>1. CASE a \notin Addr
  BY <1>1, PlainIsInsn DEF Decodings
<1>2. CASE a \in Addr /\ m[a] = "cc"
  BY <1>2, AnalyzerAssumption DEF Decodings, Int3, AnyInsn, Kind, Unfollowed, Addr
<1>3. CASE a \in Addr /\ m[a] = "zero"
  <2>1. PICK n \in 2 .. MaxLen : d = Plain(n)
    BY <1>3 DEF Decodings
  <2> QED
    BY <2>1, PlainIsInsn, AnalyzerAssumption
<1>4. CASE a \in Addr /\ m[a] = "orig"
  <2>1. d \in Insn
    BY <1>4, ProgramInsn, AnalyzerAssumption DEF Decodings
  <2> QED
    BY <2>1, <1>4, InsnIsAny DEF Insn
<1> QED
  BY <1>1, <1>2, <1>3, <1>4

LEMMA DisassembliesType ==
    ASSUME TypeOK, insnEnd < WindowEnd, NEW d \in Disassemblies
    PROVE  d \in AnyInsn /\ (d.kind # "op" => insnEnd \in Addr /\ d.to \in Addr)
<1>1. PICK e \in Decodings(mem, insnEnd) : d = Truncate(e)
  BY DEF Disassemblies
<1>2. e \in AnyInsn /\ (e.kind # "op" => insnEnd \in Addr /\ e.to \in Addr)
  BY DecodingsType DEF TypeOK
<1>3. WindowEnd - insnEnd \in Nat
  BY AnalyzerAssumption DEF TypeOK, WindowEnd
<1> QED
  BY <1>1, <1>2, <1>3, PlainIsInsn DEF Truncate

---------------------------------------------------------------------------
(* The type invariant needs where the metadata and the flag stand.         *)

Phase ==
    /\ pc \in {"scan", "record", "insert"} => data \in MetaData
    /\ pc = "record" => base \in Addr
    /\ trapFlag = (IF ctx = "sig" THEN 1 ELSE 0)
    /\ pc = "user" => ctx = "main"

TypeInv == TypeOK /\ Phase

LEMMA TurnType ==
    ASSUME TreeTypeOK, Turn
    PROVE  walk' \in Walk
<1>1. walk.at \in Position /\ walk.key \in Nat /\ walk.bound \in Int
  BY DEF TreeTypeOK, Walk
<1>2. Append(walk.at, "left") \in Position /\ Append(walk.at, "right") \in Position
  BY <1>1 DEF Position, Side
<1>3. CASE TurnLeft
  <2>1. tree[walk.at].lower \in Nat
    BY <1>3 DEF TreeTypeOK, AddrRange, TurnLeft, AtNode
  <2> QED
    BY <1>1, <1>2, <1>3, <2>1 DEF TurnLeft, Walk, leftChild, BoundBefore
<1>4. CASE TurnRight
  BY <1>1, <1>2, <1>4, NoBoundAssumption DEF TurnRight, Walk
<1> QED
  BY <1>3, <1>4 DEF Turn

LEMMA AttachType ==
    ASSUME TreeTypeOK, NEW p \in Position, NEW l \in Nat, NEW u \in Nat, Attach(p, l, u)
    PROVE  DOMAIN tree' \subseteq Position /\ tree' \in [DOMAIN tree' -> AddrRange]
BY DEF TreeTypeOK, Attach, AddrRange

LEMMA InitType == Init => TypeInv
<1> SUFFICES ASSUME Init PROVE TypeInv
  OBVIOUS
<1>1. tree \in [DOMAIN tree -> AddrRange] /\ DOMAIN tree = {}
  BY DEF Init, boundTree_new
<1>2. walk \in Walk
  BY DEF Init, Walk, Position
<1>3. TreeTypeOK
  BY <1>1, <1>2 DEF TreeTypeOK, Init, boundTree_new
<1>4. prog \in Program /\ ip \in Nat
  BY AnalyzerAssumption DEF Init, Program, Addr
<1>5. DOMAIN originalStartBytes = {} /\ originalStartBytes \in [DOMAIN originalStartBytes -> {"orig"}]
  BY DEF Init, hashtable_new
<1> QED
  BY <1>3, <1>4, <1>5 DEF Init, TypeInv, TypeOK, Phase, AnalysisPc, StoppedPc

LEMMA InspectType ==
    ASSUME TypeInv, NEW d \in Disassemblies, Inspect(d)
    PROVE  /\ d \in AnyInsn /\ (d.kind # "op" => insnEnd \in Addr /\ d.to \in Addr)
           /\ base' \in Nat /\ insnEnd' \in Nat
           /\ inspected' \subseteq [at : Nat, insn : AnyInsn]
<1>1. insnEnd \in Nat /\ inspected \subseteq [at : Nat, insn : AnyInsn]
  BY DEF TypeInv, TypeOK, AnyInsn
<1>2. d \in AnyInsn /\ (d.kind # "op" => insnEnd \in Addr /\ d.to \in Addr)
  BY DisassembliesType DEF TypeInv, Inspect
<1>3. Seen(insnEnd, d) \in [at : Nat, insn : AnyInsn] /\ d.len \in Nat
  BY <1>1, <1>2 DEF Seen, AnyInsn
<1> QED
  BY <1>1, <1>2, <1>3 DEF Inspect

LEMMA AnalyzeType ==
    ASSUME TypeInv, Analyze
    PROVE  TypeInv'
<1> USE DEF TypeInv, Phase, AnalysisPc, StoppedPc
<1>0. addressList \in Seq(Nat) /\ validAddressList \in Seq(Nat) /\ startByteList \in Seq(Addr)
  BY DEF TypeOK
<1>1. CASE FindMain
  <2>1. prog.symbol \in Nat
    BY ProgramsAreTyped
  <2>2. list_insert(addressList, prog.symbol) \in Seq(Nat)
    BY <1>0, <2>1, ListInsert
  <2> QED
    BY <1>1, <2>2 DEF FindMain, TypeOK, TreeTypeOK, codeVars, treeVars, scanVars, handlerVars, userVars
<1>2. CASE PopAddress
  <2>1. list_rest(addressList) \in Seq(Nat) /\ list_pop(addressList) \in Nat \cup {0}
    BY <1>0, ListRest
  <2>2. walk' \in Walk
    BY <1>2, <2>1, NoBoundAssumption DEF PopAddress, StartWalk, Walk, Position
  <2> QED
    BY <1>2, <2>1, <2>2 DEF PopAddress, TypeOK, TreeTypeOK, codeVars, scanVars, handlerVars, userVars
<1>3. CASE FindTurn
  <2>1. walk' \in Walk
    BY <1>3, TurnType DEF FindTurn, TypeOK
  <2> QED
    BY <1>3, <2>1 DEF FindTurn, TypeOK, TreeTypeOK, codeVars, scanVars, handlerVars, userVars
<1>4. CASE FindNull
  BY <1>4 DEF FindNull, TypeOK, TreeTypeOK, codeVars, scanVars, handlerVars, userVars
<1>5. CASE FindVacancy
  <2>1. walk.key \in Nat /\ data' \in MetaData
    BY <1>5 DEF FindVacancy, boundFindReturns, Vacancy, TypeOK, TreeTypeOK, Walk, MetaData
  <2> QED
    BY <1>5, <2>1 DEF FindVacancy, TypeOK, TreeTypeOK, codeVars, handlerVars, userVars
<1>6. CASE WorkDone
  <2>1. list_rest(addressList) \in Seq(Nat)
    BY <1>0, ListRest
  <2>2. trapFlag' = 0
    BY <1>6 DEF WorkDone, FlagLowered
  <2> QED
    BY <1>6, <2>1, <2>2 DEF WorkDone, TypeOK, TreeTypeOK, codeVars, treeVars, scanVars, userVars
<1>7. CASE ScanExhausted
  BY <1>7 DEF ScanExhausted, TypeOK, TreeTypeOK, codeVars, treeVars, scanVars, handlerVars, userVars
<1>8. CASE ScanPastBound
  BY <1>8 DEF ScanPastBound, TypeOK, TreeTypeOK, codeVars, treeVars, handlerVars, userVars
<1>9. ASSUME NEW d \in Disassemblies,
             ScanRet(d) \/ ScanPlain(d) \/ ScanCall(d) \/ ScanJump(d) \/ ScanIndirect(d)
      PROVE  TypeInv'
  <2>0. Inspect(d)
    BY <1>9 DEF ScanRet, ScanPlain, ScanCall, ScanJump, ScanIndirect
  <2>1. /\ d \in AnyInsn /\ (d.kind # "op" => insnEnd \in Addr /\ d.to \in Addr)
        /\ base' \in Nat /\ insnEnd' \in Nat
        /\ inspected' \subseteq [at : Nat, insn : AnyInsn]
    BY <2>0, InspectType
  <2>2. insnEnd + d.len \in Nat /\ (d.kind # "op" => d.to \in Nat)
    <3>1. d.len \in Nat /\ insnEnd \in Nat
      BY <2>1 DEF TypeOK, AnyInsn
    <3>2. insnEnd + d.len \in Nat
      BY <3>1
    <3> QED
      BY <2>1, <3>2, AddressesAreNumbers
  <2>3. CASE ScanRet(d)
    BY <2>0, <2>1, <2>3 DEF ScanRet, Inspect, TypeOK, TreeTypeOK, codeVars, treeVars, handlerVars, userVars, AnyInsn
  <2>4. CASE ScanPlain(d)
    BY <2>0, <2>1, <2>4 DEF ScanPlain, Inspect, TypeOK, TreeTypeOK, codeVars, treeVars, handlerVars, userVars, AnyInsn
  <2>5. CASE ScanCall(d)
    <3>1. d.kind # "op" /\ Target(d) \in Nat
      BY <2>2, <2>5 DEF ScanCall, Target
    <3>2. addressList' \in Seq(Nat) /\ validAddressList' \in Seq(Nat)
      BY <1>0, <2>2, <2>5, <3>1, ListInsert DEF ScanCall, ListsTarget
    <3> QED
      BY <2>0, <2>1, <2>5, <3>2 DEF ScanCall, Inspect, TypeOK, TreeTypeOK, codeVars, treeVars, handlerVars, userVars, AnyInsn
  <2>6. CASE ScanJump(d)
    <3>1. d.kind # "op" /\ Target(d) \in Nat
      BY <2>2, <2>6 DEF ScanJump, Target
    <3>2. addressList' \in Seq(Nat)
      BY <1>0, <2>2, <2>6, <3>1, ListInsert DEF ScanJump, ListsTarget
    <3> QED
      BY <2>0, <2>1, <2>6, <3>2 DEF ScanJump, Inspect, TypeOK, TreeTypeOK, codeVars, treeVars, handlerVars, userVars, AnyInsn
  <2>7. CASE ScanIndirect(d)
    <3>1. insnEnd \in Addr
      BY <2>1, <2>7 DEF ScanIndirect, Indirect
    <3>2. startByteList' \in Seq(Addr)
      BY <1>0, <2>7, <3>1, ListInsert DEF ScanIndirect
    <3>3. mem' \in [Addr -> {"orig", "cc", "zero"}] /\ (pc' = "record" => base' \in Addr)
      BY <2>0, <2>7, <3>1 DEF ScanIndirect, Inspect, Plants, TypeOK
    <3> QED
      BY <2>0, <2>1, <2>7, <3>2, <3>3 DEF ScanIndirect, Inspect, TypeOK, TreeTypeOK, treeVars, handlerVars, userVars, AnyInsn
  <2> QED
    BY <1>9, <2>3, <2>4, <2>5, <2>6, <2>7
<1>10. CASE RecordStartByte
  <2>1. /\ DOMAIN originalStartBytes' \subseteq Addr
        /\ originalStartBytes' \in [DOMAIN originalStartBytes' -> {"orig"}]
    <3>1. DOMAIN originalStartBytes \subseteq Addr /\ base \in Addr
      BY <1>10 DEF RecordStartByte, TypeOK
    <3>2. originalStartBytes \in [DOMAIN originalStartBytes -> {"orig"}]
      BY DEF TypeOK
    <3>3. originalStartBytes' = hashtable_insert(originalStartBytes, base, "orig")
      BY <1>10 DEF RecordStartByte, Records
    <3> DEFINE new == hashtable_insert(originalStartBytes, base, "orig")
    <3>4. DOMAIN new = DOMAIN originalStartBytes \cup {base} /\ new \in [DOMAIN new -> {"orig"}]
      <4> HIDE DEF Phase, TypeInv
      <4> QED
        BY ONLY <3>1, <3>2, HashInsert
    <3> QED
      BY <3>1, <3>3, <3>4
  <2> QED
    BY <1>10, <2>1 DEF RecordStartByte, TypeOK, TreeTypeOK, treeVars, scanVars, handlerVars, userVars
<1>11. CASE InsertRange
  <2>1. data.at \in Position
    BY <1>11 DEF InsertRange, MetaData
  <2>2. DOMAIN tree' \subseteq Position /\ tree' \in [DOMAIN tree' -> AddrRange]
    BY <1>11, <2>1, AttachType DEF InsertRange, direct_boundTree_insert, TypeOK
  <2> QED
    BY <1>11, <2>2 DEF InsertRange, TypeOK, TreeTypeOK, codeVars, scanVars, handlerVars, userVars
<1> QED
  BY <1>1, <1>2, <1>3, <1>4, <1>5, <1>6, <1>7, <1>8, <1>9, <1>10, <1>11 DEF Analyze, PrintDis

LEMMA ExecuteType ==
    ASSUME TypeInv, pc = "user", ip \in Addr, NEW d \in Decodings(mem, ip), Execute(d)
    PROVE  ip' \in Nat /\ stack' \in Seq(Nat)
<1>1. d.kind \in Kind /\ d.len \in Nat /\ (d.kind # "op" => d.to \in Nat)
  <2>1. d \in AnyInsn
    BY DecodingsType DEF TypeInv, TypeOK
  <2> QED
    BY <2>1 DEF AnyInsn
<1>2. ip + d.len \in Nat /\ stack \in Seq(Nat)
  BY <1>1 DEF TypeInv, TypeOK
<1>3. prog.runtime \subseteq Nat /\ Targets \subseteq Nat
  BY ProgramsAreTyped DEF TypeInv
<1>4. <<ip + d.len>> \o stack \in Seq(Nat)
  BY <1>2
<1>5. CASE d.kind \in {"call", "rcall", "icall"}
  <2>1. ip' \in Nat
    BY <1>1, <1>3, <1>5 DEF Execute
  <2>2. stack' = <<ip + d.len>> \o stack
    BY <1>5 DEF Execute
  <2> QED
    BY <1>4, <2>1, <2>2
<1>6. CASE d.kind = "ret"
  BY <1>2, <1>6 DEF Execute
<1>7. CASE d.kind \notin {"call", "rcall", "icall", "ret"}
  BY <1>1, <1>2, <1>3, <1>7 DEF Execute
<1> QED
  BY <1>5, <1>6, <1>7

LEMMA RunType ==
    ASSUME TypeInv, Run \/ HandlerHitsTrap \/ Stopped
    PROVE  TypeInv'
<1> USE DEF TypeInv, Phase, AnalysisPc, StoppedPc
<1>1. CASE UserStep
  <2>1. ip' \in Nat /\ stack' \in Seq(Nat)
    BY <1>1, ExecuteType DEF UserStep
  <2> QED
    BY <1>1, <2>1 DEF UserStep, TypeOK, TreeTypeOK, codeVars, treeVars, scanVars, handlerVars
<1>2. CASE MainReturns
  BY <1>2 DEF MainReturns, TypeOK, TreeTypeOK, codeVars, treeVars, scanVars, handlerVars, userVars
<1>3. CASE Crash
  BY <1>3 DEF Crash, TypeOK, TreeTypeOK, codeVars, treeVars, scanVars, handlerVars, userVars
<1>4. CASE HandlerHitsTrap
  BY <1>4 DEF HandlerHitsTrap, TypeOK, TreeTypeOK, codeVars, treeVars, scanVars, handlerVars, userVars
<1>5. CASE Stopped
  BY <1>5 DEF Stopped, vars, TypeOK, TreeTypeOK
<1> QED
  BY <1>1, <1>2, <1>3, <1>4, <1>5 DEF Run

LEMMA RestoredType ==
    ASSUME TypeInv, ip \in Addr
    PROVE  restored \in [Addr -> {"orig", "cc", "zero"}]
BY DEF TypeInv, TypeOK, restored, hashtable_find

LEMMA TrapType ==
    ASSUME TypeInv, Trap
    PROVE  TypeInv'
<1> USE DEF TypeInv, Phase, AnalysisPc, StoppedPc
<1>1. EnterHandler /\ ip \in Addr
  BY DEF Trap, TrapAtSite, TrapElsewhere, TrapFails, EnterHandler, Trapped
<1>2. trapFlag' = 1 /\ ctx' = "sig"
  BY <1>1 DEF EnterHandler
<1>3. restored \in [Addr -> {"orig", "cc", "zero"}] /\ resolved \cup {ip} \subseteq Addr
  BY <1>1, RestoredType DEF TypeOK
<1>4. \A t \in Nat : list_insert(addressList, t) \in Seq(Nat)
  BY ListInsert DEF TypeOK
<1>5. Targets \subseteq Addr \cup {0} /\ Addr \cup {0} \subseteq Nat
  BY AnalyzerAssumption DEF TypeOK, Program, Addr, Targets
<1>6. CASE TrapAtSite
  <2>1. addressList' \in Seq(Nat) /\ pending' \subseteq Addr \cup {0}
    BY <1>4, <1>5, <1>6 DEF TrapAtSite
  <2> QED
    BY <1>1, <1>2, <1>3, <1>6, <2>1 DEF TrapAtSite, EnterHandler, TypeOK, TreeTypeOK, treeVars, scanVars
<1>7. CASE TrapElsewhere
  <2>1. addressList' \in Seq(Nat) /\ pc' \in {"pop", "exited", "killed"}
    <3>1. addressList \in Seq(Nat)
      BY DEF TypeOK
    <3> QED
      BY <1>4, <1>5, <1>7, <3>1 DEF TrapElsewhere
  <2> QED
    BY <1>1, <1>2, <1>3, <1>7, <2>1 DEF TrapElsewhere, EnterHandler, TypeOK, TreeTypeOK, treeVars, scanVars
<1>8. CASE TrapFails
  BY <1>1, <1>2, <1>8 DEF TrapFails, EnterHandler, TypeOK, TreeTypeOK, treeVars, scanVars
<1> QED
  BY <1>6, <1>7, <1>8 DEF Trap

LEMMA TypeStep == TypeInv /\ [Next]_vars => TypeInv'
<1>1. CASE Next
  BY <1>1, AnalyzeType, RunType, TrapType DEF Next
<1>2. ASSUME TypeInv, UNCHANGED vars PROVE TypeInv'
  BY <1>2 DEF vars, TypeInv, TypeOK, TreeTypeOK, Phase
<1> QED
  BY <1>1, <1>2

(* Every variable of the analyzer keeps its type: metadata is at hand when *)
(* printDis uses it, and traps are planted in the program's code only.     *)
THEOREM TypeCorrect == Spec => []TypeOK
<1>1. TypeInv => TypeOK
  BY DEF TypeInv
<1> QED
  BY InitType, TypeStep, <1>1, PTL DEF Spec

(* The flag is down whenever a trap can occur, so that the branch of       *)
(* trap_handler which only restores the byte is never taken.               *)
THEOREM HandlerAlwaysAnalyzes == Spec => []HandlerNeverBusy
<1>1. TypeInv => HandlerNeverBusy
  BY DEF TypeInv, Phase, HandlerNeverBusy, Trapped
<1> QED
  BY InitType, TypeStep, <1>1, PTL DEF Spec

---------------------------------------------------------------------------
(* The traps and the tables that undoing them needs.                       *)

(* Every listed site has its byte in the table, but for the one that       *)
(* printDis is at.                                                         *)
ListedRecorded ==
    \A a \in ToSet(startByteList) :
        \/ a \in DOMAIN originalStartBytes
        \/ pc \in {"record", "exited", "killed"} /\ a = base

TrapInv == TypeInv /\ TrapsRecorded /\ ListedRecorded /\ PlantedBytesSurvive /\ SitesArmed

(* Only an intact first byte is decoded as an indirect transfer. *)
LEMMA IndirectIsOriginal ==
    ASSUME TypeInv, insnEnd < WindowEnd, NEW d \in Disassemblies, d.kind \in Indirect
    PROVE  insnEnd \in Addr /\ mem[insnEnd] = "orig"
<1>1. PICK e \in Decodings(mem, insnEnd) : d = Truncate(e)
  BY DEF Disassemblies
<1>2. d.kind # "op"
  BY DEF Indirect
<1>3. WindowEnd - insnEnd \in Nat
  BY AnalyzerAssumption DEF TypeInv, TypeOK, WindowEnd
<1>4. d = e
  BY <1>1, <1>2, <1>3, PlainIsInsn DEF Truncate
<1>5. insnEnd \in Addr
  BY <1>2, DisassembliesType DEF TypeInv
<1>6. mem[insnEnd] # "cc"
  BY <1>4, <1>5 DEF Decodings, Int3, Indirect
<1>7. mem[insnEnd] # "zero"
  <2> SUFFICES ASSUME mem[insnEnd] = "zero" PROVE FALSE
    OBVIOUS
  <2>1. PICK n \in 2 .. MaxLen : e = Plain(n)
    BY <1>5 DEF Decodings
  <2> QED
    BY <1>2, <1>4, <2>1, PlainIsInsn, AnalyzerAssumption
<1> QED
  BY <1>5, <1>6, <1>7 DEF TypeInv, TypeOK

LEMMA TrapsInit == Init => TrapInv
<1> SUFFICES ASSUME Init PROVE TrapInv
  OBVIOUS
<1>1. ToSet(startByteList) = {}
  BY DEF Init, ToSet
<1> QED
  BY <1>1, InitType DEF TrapInv, Init, TrapsRecorded, ListedRecorded, PlantedBytesSurvive, SitesArmed

(* Steps that leave the code and its tables alone. *)
LEMMA TrapsUntouched ==
    ASSUME TrapInv, TypeInv', UNCHANGED <<codeVars, inspected, resolved>>,
           \/ pc' = pc /\ base' = base
           \/ pc # "record" /\ pc \notin StoppedPc
           \/ pc = "record" /\ pc' = "killed" /\ base' = base
    PROVE  TrapInv'
BY DEF TrapInv, TrapsRecorded, ListedRecorded, PlantedBytesSurvive, SitesArmed, codeVars, StoppedPc

LEMMA TrapsInspected ==
    ASSUME TrapInv, TypeInv', NEW d \in Disassemblies,
           ScanRet(d) \/ ScanPlain(d) \/ ScanCall(d) \/ ScanJump(d) \/ ScanIndirect(d)
    PROVE  TrapInv'
<1>0. Inspect(d)
  BY DEF ScanRet, ScanPlain, ScanCall, ScanJump, ScanIndirect
<1>1. /\ pc = "scan" /\ insnEnd < WindowEnd /\ base' = insnEnd /\ resolved' = resolved
      /\ inspected' = inspected \cup {[at |-> insnEnd, insn |-> d]}
  BY <1>0 DEF Inspect, Seen
<1>2. CASE ~ScanIndirect(d)
  <2>1. d.kind \notin Indirect /\ UNCHANGED codeVars
    BY <1>2 DEF ScanRet, ScanPlain, ScanCall, ScanJump, Indirect
  <2>2. pc' \in {"scan", "insert"}
    BY <1>1, <1>2 DEF ScanRet, ScanPlain, ScanCall, ScanJump
  <2> QED
    BY <1>1, <2>1, <2>2 DEF TrapInv, TrapsRecorded, ListedRecorded, PlantedBytesSurvive, SitesArmed, codeVars
<1>3. CASE ScanIndirect(d)
  <2>1. insnEnd \in Addr /\ mem[insnEnd] = "orig"
    BY <1>1, <1>3, IndirectIsOriginal DEF ScanIndirect, TrapInv
  <2>2. ToSet(startByteList') = ToSet(startByteList) \cup {insnEnd}
    <3>1. startByteList \in Seq(Addr) /\ insnEnd \in Addr
      BY <2>1 DEF TrapInv, TypeInv, TypeOK
    <3>2. startByteList' = list_insert(startByteList, insnEnd)
      BY <1>3 DEF ScanIndirect
    <3> QED
      BY <3>1, <3>2, ListInsert
  <2>3. originalStartBytes' = originalStartBytes /\ mem \in [Addr -> {"orig", "cc", "zero"}]
    BY <1>3 DEF ScanIndirect, TrapInv, TypeInv, TypeOK
  <2>4. CASE mem' = mem /\ pc' = "exited"
    BY <1>1, <2>1, <2>2, <2>3, <2>4 DEF TrapInv, TrapsRecorded, ListedRecorded, PlantedBytesSurvive, SitesArmed
  <2>5. CASE mem' = Plants(insnEnd) /\ pc' = "record"
    <3>1. mem'[insnEnd] = "cc" /\ \A a \in Addr : a # insnEnd => mem'[a] = mem[a]
      BY <2>1, <2>3, <2>5 DEF Plants
    <3>2. TrapsRecorded' /\ ListedRecorded' /\ PlantedBytesSurvive'
      BY <1>1, <2>1, <2>2, <2>3, <2>5, <3>1 DEF TrapInv, TrapsRecorded, ListedRecorded, PlantedBytesSurvive
    <3>3. SitesArmed'
      <4> SUFFICES ASSUME NEW s \in inspected', s.insn.kind \in Indirect
                   PROVE  mem'[s.at] = "cc" \/ s.at \in resolved'
        BY DEF SitesArmed
      <4>1. CASE s \in inspected
        <5>1. mem[s.at] = "cc" \/ s.at \in resolved
          BY <1>1, <4>1 DEF TrapInv, SitesArmed
        <5> QED
          BY <1>1, <2>3, <2>5, <5>1 DEF Plants
      <4>2. CASE s = [at |-> insnEnd, insn |-> d]
        BY <3>1, <4>2
      <4> QED
        BY <1>1, <4>1, <4>2
    <3> QED
      BY <3>2, <3>3 DEF TrapInv
  <2> QED
    BY <1>3, <2>4, <2>5 DEF ScanIndirect
<1> QED
  BY <1>2, <1>3

LEMMA TrapsRecordStep ==
    ASSUME TrapInv, TypeInv', RecordStartByte
    PROVE  TrapInv'
<1>1. /\ pc = "record" /\ pc' \in {"scan", "insert"}
      /\ UNCHANGED <<mem, startByteList, inspected, resolved>>
  BY DEF RecordStartByte
<1>2. DOMAIN originalStartBytes' = DOMAIN originalStartBytes \cup {base}
  BY DEF RecordStartByte, Records, hashtable_insert
<1> QED
  BY <1>1, <1>2 DEF TrapInv, TrapsRecorded, ListedRecorded, PlantedBytesSurvive, SitesArmed

LEMMA TrapsHandled ==
    ASSUME TrapInv, TypeInv', Trap
    PROVE  TrapInv'
<1>1. /\ pc = "user" /\ ip \in Addr /\ inspected' = inspected
      /\ UNCHANGED <<startByteList, originalStartBytes>>
  BY DEF Trap, TrapAtSite, TrapElsewhere, TrapFails, EnterHandler, Trapped
<1>2. CASE TrapFails
  BY <1>1, <1>2 DEF TrapFails, TrapInv, TrapsRecorded, ListedRecorded, PlantedBytesSurvive, SitesArmed
<1>3. CASE TrapAtSite \/ TrapElsewhere
  <2>1. /\ mem' = [mem EXCEPT ![ip] = hashtable_find(originalStartBytes, ip)]
        /\ resolved' = resolved \cup {ip}
    BY <1>3 DEF TrapAtSite, TrapElsewhere, restored
  <2>2. mem \in [Addr -> {"orig", "cc", "zero"}]
    BY DEF TrapInv, TypeInv, TypeOK
  <2>3. /\ ip \in DOMAIN originalStartBytes => mem'[ip] = "orig"
        /\ ip \notin DOMAIN originalStartBytes => mem'[ip] = "zero"
        /\ \A a \in Addr : a # ip => mem'[a] = mem[a]
    BY <1>1, <2>1, <2>2 DEF hashtable_find, TrapInv, TypeInv, TypeOK
  <2>4. TrapsRecorded' /\ ListedRecorded' /\ PlantedBytesSurvive'
    BY <1>1, <2>3 DEF TrapInv, TrapsRecorded, ListedRecorded, PlantedBytesSurvive
  <2>5. SitesArmed'
    <3> SUFFICES ASSUME NEW s \in inspected, s.insn.kind \in Indirect
                 PROVE  mem'[s.at] = "cc" \/ s.at \in resolved'
      BY <1>1 DEF SitesArmed
    <3>1. mem[s.at] = "cc" \/ s.at \in resolved
      BY <1>1 DEF TrapInv, SitesArmed
    <3>2. CASE s.at = ip
      BY <2>1, <3>2
    <3>3. CASE s.at # ip
      BY <2>1, <2>2, <3>1, <3>3
    <3> QED
      BY <3>2, <3>3
  <2> QED
    BY <2>4, <2>5 DEF TrapInv
<1> QED
  BY <1>2, <1>3 DEF Trap

LEMMA TrapsStep == TrapInv /\ [Next]_vars => TrapInv'
<1> SUFFICES ASSUME TrapInv, [Next]_vars PROVE TrapInv'
  OBVIOUS
<1>0. TypeInv /\ TypeInv'
  BY TypeStep DEF TrapInv
<1>1. CASE UNCHANGED vars
  BY <1>0, <1>1, TrapsUntouched DEF vars, codeVars
<1>2. CASE FindMain \/ PopAddress \/ FindTurn \/ FindNull \/ FindVacancy \/ WorkDone
  BY <1>0, <1>2, TrapsUntouched
     DEF FindMain, PopAddress, FindTurn, FindNull, FindVacancy, WorkDone, StoppedPc
<1>3. CASE ScanExhausted \/ ScanPastBound \/ InsertRange
  BY <1>0, <1>3, TrapsUntouched DEF ScanExhausted, ScanPastBound, InsertRange, StoppedPc
<1>4. CASE Run
  BY <1>0, <1>4, TrapsUntouched DEF Run, UserStep, MainReturns, Crash, StoppedPc
<1>5. CASE HandlerHitsTrap
  BY <1>0, <1>5, TrapsUntouched DEF HandlerHitsTrap, StoppedPc, AnalysisPc, scanVars
<1>6. CASE Stopped
  BY <1>0, <1>6, TrapsUntouched DEF Stopped, vars, codeVars
<1>7. CASE Trap
  BY <1>0, <1>7, TrapsHandled
<1>8. CASE RecordStartByte
  BY <1>0, <1>8, TrapsRecordStep
<1>9. ASSUME NEW d \in Disassemblies,
             ScanRet(d) \/ ScanPlain(d) \/ ScanCall(d) \/ ScanJump(d) \/ ScanIndirect(d)
      PROVE  TrapInv'
  BY <1>0, <1>9, TrapsInspected
<1> QED
  BY <1>1, <1>2, <1>3, <1>4, <1>5, <1>6, <1>7, <1>8, <1>9 DEF Next, Analyze, PrintDis

(* A trap that is in the code can be undone: its site is listed and, but   *)
(* for the step between trapSetup and hashtable_insert, its byte recorded. *)
THEOREM TrapsAlwaysRecorded == Spec => []TrapsRecorded
<1>1. TrapInv => TrapsRecorded
  BY DEF TrapInv
<1> QED
  BY TrapsInit, TrapsStep, <1>1, PTL DEF Spec

(* Whatever the program and its traps do, no byte that the analyzer        *)
(* replaced is overwritten with the 0 of a failed lookup.                  *)
THEOREM PlantedBytesAlwaysSurvive == Spec => []PlantedBytesSurvive
<1>1. TrapInv => PlantedBytesSurvive
  BY DEF TrapInv
<1> QED
  BY TrapsInit, TrapsStep, <1>1, PTL DEF Spec

(* Whenever the program runs, or after main has returned, shutdown would   *)
(* put every first byte back that the analyzer ever replaced.              *)
THEOREM ShutdownAlwaysRestores == Spec => []ShutdownRestores
<1>1. TrapInv => ShutdownRestores
  <2> SUFFICES ASSUME TrapInv, pc \in {"user", "ended"},
                      NEW a \in Addr, shutdown[a] # "orig"
               PROVE  mem[a] = "zero" /\ ~list_find(startByteList, a)
    BY DEF ShutdownRestores
  <2>1. CASE a \in ToSet(startByteList)
    <3>1. a \in DOMAIN originalStartBytes
      BY <2>1 DEF TrapInv, ListedRecorded
    <3>2. originalStartBytes[a] = "orig"
      BY <3>1 DEF TrapInv, TypeInv, TypeOK
    <3> QED
      BY <2>1, <3>1, <3>2 DEF shutdown, swap_start_byte, list_find, hashtable_find
  <2>2. CASE a \notin ToSet(startByteList)
    <3>1. shutdown[a] = mem[a]
      BY <2>2 DEF shutdown, list_find
    <3>2. mem[a] # "cc"
      BY <2>2 DEF TrapInv, TrapsRecorded
    <3> QED
      BY <2>2, <3>1, <3>2 DEF TrapInv, TypeInv, TypeOK, list_find
  <2> QED
    BY <2>1, <2>2
<1> QED
  BY TrapsInit, TrapsStep, <1>1, PTL DEF Spec

(* Every indirect transfer that printDis has seen stays trapped until the  *)
(* handler has seen it run.                                                *)
THEOREM SitesAlwaysArmed == Spec => []SitesArmed
<1>1. TrapInv => SitesArmed
  BY DEF TrapInv
<1> QED
  BY TrapsInit, TrapsStep, <1>1, PTL DEF Spec

---------------------------------------------------------------------------
(* The tree of disassembled ranges.                                        *)

Scanning == pc \in {"scan", "record", "insert"}

RangeInv ==
    /\ TypeInv
    /\ TreeInv
    /\ pc = "find" => WalkInv
    /\ Scanning => /\ VacantFor(lowerVal, data.at)
                   /\ lowerVal <= base /\ lowerVal <= insnEnd

LEMMA RangeInit == Init => RangeInv
<1> SUFFICES ASSUME Init PROVE RangeInv
  OBVIOUS
<1>1. DOMAIN tree = {} /\ pc = "start"
  BY DEF Init, boundTree_new
<1>2. TreeInv
  BY <1>1, InitType DEF TreeInv, TypeInv, TypeOK, Rooted, SearchOrder, RangesNonempty, EntriesDistinct
<1> QED
  BY <1>1, <1>2, InitType DEF RangeInv, Scanning

(* While the tree stays as it is, so does what is known of it. *)
LEMMA TreeUntouched ==
    ASSUME TreeInv, TypeInv', UNCHANGED tree
    PROVE  TreeInv'
BY DEF TreeInv, TypeInv, TypeOK, Rooted, SearchOrder, RangesNonempty, EntriesDistinct

LEMMA RangesUntouched ==
    ASSUME RangeInv, TypeInv', UNCHANGED <<tree, data, lowerVal>>,
           pc' # "find", Scanning' => Scanning /\ base' >= lowerVal /\ insnEnd' >= lowerVal
    PROVE  RangeInv'
<1>1. TreeInv'
  BY TreeUntouched DEF RangeInv
<1>2. Scanning => VacantFor(lowerVal, data.at)'
  BY VacantStays DEF RangeInv, VacantFor, OnPath
<1> QED
  BY <1>1, <1>2 DEF RangeInv, Scanning, TypeInv, TypeOK

LEMMA RangesInspected ==
    ASSUME RangeInv, TypeInv', NEW d \in Disassemblies,
           ScanRet(d) \/ ScanPlain(d) \/ ScanCall(d) \/ ScanJump(d) \/ ScanIndirect(d)
    PROVE  RangeInv'
<1>0. Inspect(d)
  BY DEF ScanRet, ScanPlain, ScanCall, ScanJump, ScanIndirect
<1>1. d.len \in Nat
  BY <1>0, InspectType DEF RangeInv, AnyInsn
<1>2. /\ pc = "scan" /\ base' = insnEnd /\ insnEnd' = insnEnd + d.len
      /\ UNCHANGED <<tree, data, lowerVal>>
  BY <1>0 DEF Inspect, treeVars
<1>3. pc' # "find"
  BY <1>2 DEF ScanRet, ScanPlain, ScanCall, ScanJump, ScanIndirect
<1>4. Scanning /\ base' >= lowerVal /\ insnEnd' >= lowerVal
  <2>1. lowerVal \in Nat /\ insnEnd \in Nat
    BY DEF RangeInv, TypeInv, TypeOK
  <2>2. Scanning /\ lowerVal <= insnEnd
    BY <1>2 DEF RangeInv, Scanning
  <2> QED
    BY <1>1, <1>2, <2>1, <2>2
<1> QED
  BY <1>2, <1>3, <1>4, RangesUntouched

LEMMA RangesStep == RangeInv /\ [Next]_vars => RangeInv'
<1> SUFFICES ASSUME RangeInv, [Next]_vars PROVE RangeInv'
  OBVIOUS
<1>0. TypeInv /\ TypeInv' /\ TreeInv
  BY TypeStep DEF RangeInv
<1>1. CASE UNCHANGED vars
  <2>1. TreeInv'
    BY <1>0, <1>1, TreeUntouched DEF vars
  <2> QED
    BY <1>0, <1>1, <2>1, SMTT(30) DEF vars, RangeInv, Scanning, WalkInv, OnPath, StartsUnder, VacantFor
<1>2. CASE PopAddress
  <2>1. list_pop(addressList) \in Nat \cup {0}
    BY <1>0, ListRest DEF TypeInv, TypeOK
  <2>2. WalkInv'
    BY <1>0, <1>2, <2>1, StartWalkInv DEF PopAddress, TypeInv, TypeOK
  <2> QED
    BY <1>0, <1>2, <2>2, TreeUntouched DEF PopAddress, RangeInv, Scanning
<1>3. CASE FindTurn
  <2>1. WalkInv'
    BY <1>0, <1>3, TurnInv DEF FindTurn, RangeInv
  <2> QED
    BY <1>0, <1>3, <2>1, TreeUntouched DEF FindTurn, RangeInv, Scanning
<1>4. CASE FindVacancy
  <2>1. VacantFor(walk.key, walk.at)
    BY <1>0, <1>4, SearchEndsVacant DEF FindVacancy, RangeInv
  <2>2. /\ lowerVal' = walk.key /\ data'.at = walk.at /\ tree' = tree
        /\ base' = walk.key /\ insnEnd' = walk.key /\ pc' = "scan"
    BY <1>4 DEF FindVacancy, boundFindReturns, Vacancy
  <2>3. VacantFor(lowerVal, data.at)'
    BY <2>1, <2>2 DEF VacantFor, OnPath
  <2>4. lowerVal' <= base' /\ lowerVal' <= insnEnd'
    BY <1>0, <2>2, SMTT(30) DEF TypeInv, TypeOK
  <2> QED
    BY <1>0, <2>2, <2>3, <2>4, TreeUntouched DEF RangeInv
<1>5. CASE InsertRange
  <2>1. VacantFor(lowerVal, data.at) /\ lowerVal <= base
    BY <1>5 DEF InsertRange, RangeInv, Scanning
  <2>2. walk' \in Walk /\ data' \in MetaData \cup {NULL} /\ lowerVal \in Nat /\ base \in Nat
    BY <1>0 DEF TypeInv, TypeOK, TreeTypeOK
  <2>3. TreeInv'
    BY <1>0, <1>5, <2>1, <2>2, AttachInv DEF InsertRange, direct_boundTree_insert
  <2> QED
    BY <1>0, <1>5, <2>3 DEF InsertRange, RangeInv, Scanning
<1>6. CASE FindMain \/ FindNull \/ WorkDone
  <2>1. TreeInv'
    BY <1>0, <1>6, TreeUntouched DEF FindMain, FindNull, WorkDone, treeVars
  <2> QED
    BY <1>0, <1>6, <2>1 DEF FindMain, FindNull, WorkDone, RangeInv, Scanning
<1>7. CASE ScanExhausted \/ ScanPastBound \/ RecordStartByte
  <2>1. /\ UNCHANGED <<tree, data, lowerVal, insnEnd>> /\ pc' # "find" /\ Scanning
        /\ base' \in {base, insnEnd}
    BY <1>7 DEF ScanExhausted, ScanPastBound, RecordStartByte, treeVars, scanVars, Scanning
  <2> QED
    BY <1>0, <2>1, RangesUntouched DEF RangeInv, TypeInv, TypeOK
<1>8. ASSUME NEW d \in Disassemblies,
             ScanRet(d) \/ ScanPlain(d) \/ ScanCall(d) \/ ScanJump(d) \/ ScanIndirect(d)
      PROVE  RangeInv'
  BY <1>0, <1>8, RangesInspected
<1>9. CASE Run \/ Trap \/ HandlerHitsTrap
  <2>1. UNCHANGED <<tree, data, lowerVal>> /\ pc' # "find" /\ ~Scanning'
    BY <1>9 DEF Run, UserStep, MainReturns, Crash, Trap, TrapAtSite, TrapElsewhere, TrapFails,
                EnterHandler, Trapped, HandlerHitsTrap, treeVars, scanVars, Scanning
  <2> QED
    BY <1>0, <2>1, RangesUntouched
<1>10. CASE Stopped
  BY <1>1, <1>10 DEF Stopped
<1> QED
  BY <1>1, <1>2, <1>3, <1>4, <1>5, <1>6, <1>7, <1>8, <1>9, <1>10 DEF Next, Analyze, PrintDis

(* No entry is disassembled twice, although the lost bounds let ranges     *)
(* overlap: this is what makes every analysis end.                         *)
THEOREM EntriesAlwaysDistinct == Spec => []EntriesDistinct
<1>1. RangeInv => EntriesDistinct
  BY DEF RangeInv, TreeInv
<1> QED
  BY RangeInit, RangesStep, <1>1, PTL DEF Spec

---------------------------------------------------------------------------
(* The work list.                                                          *)

(* A 0 gets into the list only when the list is empty, and comes out next. *)
ZeroAlone ==
    0 \in ToSet(addressList) => addressList = <<0>> /\ pc \in {"pop", "exited", "killed"}

(* What a direct transfer leads to is an address of the program. *)
TargetsInCode == \A s \in inspected : s.insn.kind \in Direct => s.insn.to \in Addr

ListInv ==
    /\ RangeInv
    /\ ZeroAlone
    /\ pc \in {"start", "user", "ended"} => addressList = <<>>
    /\ TargetsInCode
    /\ WorklistComplete

LEMMA ToSetSmall == ToSet(<<>>) = {} /\ \A x : ToSet(<<x>>) = {x}
BY DEF ToSet

LEMMA ListInit == Init => ListInv
BY RangeInit, ToSetSmall DEF Init, ListInv, ZeroAlone, TargetsInCode, WorklistComplete

(* Steps that move nothing in the list. *)
LEMMA ListUntouched ==
    ASSUME ListInv, RangeInv', UNCHANGED <<tree, addressList, inspected>>,
           \/ pc' = pc
           \/ Scanning /\ Scanning'
           \/ pc = "user" /\ pc' = "ended"
           \/ pc' \in {"exited", "killed"} /\ pc # "ended",
           pc' = "find" => walk'.key = walk.key,
           Scanning => lowerVal' = lowerVal
    PROVE  ListInv'
<1>1. ZeroAlone'
  BY ToSetSmall DEF ListInv, ZeroAlone, AnalysisPc, Scanning
<1>2. pc' \in {"start", "user", "ended"} => addressList' = <<>>
  BY DEF ListInv, Scanning
<1>3. TargetsInCode'
  BY DEF ListInv, TargetsInCode
<1>4. WorklistComplete'
  <2> SUFFICES ASSUME pc' \notin {"exited", "killed"}, NEW s \in inspected, s.insn.kind \in Direct
               PROVE  Covered(s.insn.to)' \/ Waiting(s.insn.to)'
    BY DEF WorklistComplete
  <2>1. pc \notin {"exited", "killed"}
    BY DEF Scanning
  <2>2. Covered(s.insn.to) \/ Waiting(s.insn.to)
    BY <2>1 DEF ListInv, WorklistComplete
  <2>3. CASE Covered(s.insn.to)
    BY <2>3 DEF Covered, Inside
  <2>4. CASE Waiting(s.insn.to)
    <3>1. CASE pc = "user"
      BY <2>4, <3>1 DEF Waiting, AnalysisPc
    <3>2. CASE pc # "user"
      BY <2>1, <2>4, <3>2 DEF Waiting, AnalysisPc, Scanning
    <3> QED
      BY <3>1, <3>2
  <2> QED
    BY <2>2, <2>3, <2>4
<1> QED
  BY <1>1, <1>2, <1>3, <1>4 DEF ListInv

(* No step takes a range away or changes one. *)
LEMMA TreeGrows ==
    ASSUME RangeInv, Next
    PROVE  DOMAIN tree \subseteq DOMAIN tree' /\ \A q \in DOMAIN tree : tree'[q] = tree[q]
<1>1. CASE InsertRange
  <2>1. /\ data.at \in Position /\ data.at \notin DOMAIN tree
        /\ Attach(data.at, lowerVal, base)
    BY <1>1 DEF InsertRange, RangeInv, Scanning, VacantFor, direct_boundTree_insert
  <2> QED
    BY <2>1, AttachAdds DEF RangeInv, TreeInv
<1>2. CASE ~InsertRange
  <2>1. CASE Analyze
    BY <1>2, <2>1 DEF Analyze, FindMain, PopAddress, FindTurn, FindNull, FindVacancy, WorkDone,
       PrintDis, ScanExhausted, ScanPastBound, ScanRet, ScanPlain, ScanCall, ScanJump,
       ScanIndirect, Inspect, RecordStartByte, treeVars
  <2>2. CASE Trap \/ HandlerHitsTrap \/ Run \/ Stopped
    BY <2>2 DEF Trap, TrapAtSite, TrapElsewhere, TrapFails, EnterHandler, HandlerHitsTrap,
       Run, UserStep, MainReturns, Crash, Stopped, vars, treeVars
  <2> QED
    BY <2>1, <2>2 DEF Next
<1> QED
  BY <1>1, <1>2

LEMMA CoveredStays ==
    ASSUME RangeInv, Next, NEW x, Covered(x)
    PROVE  Covered(x)'
BY TreeGrows DEF Covered

(* The same, of one address: what waits or is covered stays so. *)
Handled(x) == Covered(x) \/ Waiting(x)

(* The step of the walk or the list that x waits in. *)
LEMMA WaitingMoves ==
    ASSUME ListInv, RangeInv',
           PopAddress \/ FindTurn \/ FindNull \/ FindVacancy \/ InsertRange,
           NEW x, Waiting(x)
    PROVE  Handled(x)'
<1>1. CASE PopAddress
  <2>1. ToSet(addressList) \subseteq ToSet(list_rest(addressList)) \cup {list_pop(addressList)}
    BY ListRest DEF ListInv, RangeInv, TypeInv, TypeOK
  <2>2. x \in ToSet(addressList)
    BY <1>1 DEF PopAddress, Waiting
  <2>3. walk'.key = list_pop(addressList) /\ addressList' = list_rest(addressList) /\ pc' = "find"
    BY <1>1 DEF PopAddress, StartWalk
  <2> QED
    BY <2>1, <2>2, <2>3 DEF Handled, Waiting, AnalysisPc
<1>2. CASE FindTurn
  BY <1>2 DEF FindTurn, Turn, TurnLeft, TurnRight, Handled, Waiting, AnalysisPc
<1>3. CASE FindNull
  <2>1. pc = "find" /\ pc' = "pop" /\ addressList' = addressList /\ tree' = tree
    BY <1>3 DEF FindNull
  <2>2. CASE x = walk.key
    BY <1>3, <2>1, <2>2 DEF FindNull, MeetsRange, AtNode, Handled, Covered
  <2>3. CASE x # walk.key
    BY <2>1, <2>3 DEF Handled, Waiting, AnalysisPc
  <2> QED
    BY <2>2, <2>3
<1>4. CASE FindVacancy
  BY <1>4 DEF FindVacancy, Handled, Waiting, AnalysisPc
<1>5. CASE InsertRange
  <2>1. /\ data.at \in Position /\ data.at \notin DOMAIN tree
        /\ Attach(data.at, lowerVal, base) /\ lowerVal <= base
    BY <1>5 DEF InsertRange, ListInv, RangeInv, Scanning, VacantFor, direct_boundTree_insert
  <2>2. data.at \in DOMAIN tree' /\ tree'[data.at] = [lower |-> lowerVal, upper |-> base]
    BY <2>1, AttachAdds DEF ListInv, RangeInv, TreeInv
  <2>3. CASE x = lowerVal
    <3>1. lowerVal \in Nat
      BY DEF ListInv, RangeInv, TypeInv, TypeOK
    <3>2. Inside(lowerVal, tree'[data.at])
      BY <2>1, <2>2, <3>1 DEF Inside
    <3> QED
      BY <2>2, <2>3, <3>2 DEF Handled, Covered
  <2>4. CASE x # lowerVal
    BY <1>5, <2>4 DEF InsertRange, Handled, Waiting, AnalysisPc
  <2> QED
    BY <2>3, <2>4
<1> QED
  BY <1>1, <1>2, <1>3, <1>4, <1>5

LEMMA ListMoves ==
    ASSUME ListInv, RangeInv', PopAddress \/ FindTurn \/ FindNull \/ FindVacancy \/ InsertRange
    PROVE  ListInv'
<1>1. /\ pc \in {"pop", "find", "insert"} /\ pc' \in {"pop", "find", "scan"}
      /\ inspected' = inspected
      /\ pc = "pop" => PopAddress
  BY DEF PopAddress, FindTurn, FindNull, FindVacancy, InsertRange
<1>2. ZeroAlone'
  <2>1. 0 \notin ToSet(addressList)
    <3>1. CASE pc = "pop"
      BY <1>1, <3>1 DEF PopAddress, ListInv, ZeroAlone, list_pop
    <3>2. CASE pc # "pop"
      BY <1>1, <3>2 DEF ListInv, ZeroAlone
    <3> QED
      BY <3>1, <3>2
  <2>2. ToSet(list_rest(addressList)) \subseteq ToSet(addressList)
    BY ListRest DEF ListInv, RangeInv, TypeInv, TypeOK
  <2>3. addressList' \in {addressList, list_rest(addressList)}
    BY DEF PopAddress, FindTurn, FindNull, FindVacancy, InsertRange
  <2> QED
    BY <2>1, <2>2, <2>3 DEF ZeroAlone
<1>3. TargetsInCode'
  BY <1>1 DEF ListInv, TargetsInCode
<1>4. WorklistComplete'
  <2> SUFFICES ASSUME NEW s \in inspected, s.insn.kind \in Direct
               PROVE  Covered(s.insn.to)' \/ Waiting(s.insn.to)'
    BY <1>1 DEF WorklistComplete
  <2>1. Covered(s.insn.to) \/ Waiting(s.insn.to)
    BY <1>1 DEF ListInv, WorklistComplete
  <2>2. CASE Covered(s.insn.to)
    BY <2>2, CoveredStays DEF ListInv, Next, Analyze, PrintDis
  <2>3. CASE Waiting(s.insn.to)
    BY <2>3, WaitingMoves DEF Handled
  <2> QED
    BY <2>1, <2>2, <2>3
<1> QED
  BY <1>1, <1>2, <1>3, <1>4 DEF ListInv

(* A list to which one address was added. *)
LEMMA ListGains ==
    ASSUME ListInv, NEW a \in Nat
    PROVE  /\ ToSet(list_insert(addressList, a)) = ToSet(addressList) \cup {a}
           /\ addressList = <<>> => list_insert(addressList, a) = <<a>>
<1>1. addressList \in Seq(Nat)
  BY DEF ListInv, RangeInv, TypeInv, TypeOK
<1>2. addressList = <<>> => list_insert(addressList, a) = <<a>>
  BY ToSetSmall DEF list_insert, list_find
<1>3. ToSet(list_insert(addressList, a)) = ToSet(addressList) \cup {a}
  <2> DEFINE S == Nat
  <2>1. addressList \in Seq(S) /\ a \in S
    BY <1>1
  <2> HIDE DEF S
  <2> QED
    BY ONLY <2>1, ListInsert
<1> QED
  BY <1>2, <1>3

(* An instruction that printDis sees only adds to the list. *)
LEMMA ScanAdds ==
    ASSUME ListInv, NEW d \in Disassemblies,
           ScanRet(d) \/ ScanPlain(d) \/ ScanCall(d) \/ ScanJump(d) \/ ScanIndirect(d)
    PROVE  /\ ToSet(addressList) \subseteq ToSet(addressList')
           /\ 0 \notin ToSet(addressList')
           /\ d.kind \in Direct => d.to \in ToSet(addressList')
<1>0. Inspect(d)
  BY DEF ScanRet, ScanPlain, ScanCall, ScanJump, ScanIndirect
<1>1. /\ d \in AnyInsn /\ (d.kind # "op" => insnEnd \in Addr /\ d.to \in Addr)
  BY <1>0, InspectType DEF ListInv, RangeInv
<1>2. pc = "scan"
  BY <1>0 DEF Inspect
<1>4. 0 \notin ToSet(addressList)
  BY <1>2 DEF ListInv, ZeroAlone
<1>5. CASE ScanCall(d) \/ ScanJump(d)
  <2>1. d.kind # "op" /\ insnEnd \in Nat \ {0} /\ d.to \in Nat \ {0} /\ d.len \in Nat
    BY <1>1, <1>5, AnalyzerAssumption DEF ScanCall, ScanJump, AnyInsn, Addr
  <2>2. Target(d) \in Nat \ {0} /\ (d.kind \in Direct => Target(d) = d.to)
    BY <2>1 DEF Target, Direct
  <2>3. addressList' = list_insert(addressList, Target(d))
    BY <1>5 DEF ScanCall, ScanJump, ListsTarget
  <2> QED
    BY <1>4, <2>2, <2>3, ListGains
<1>6. CASE ScanRet(d) \/ ScanPlain(d) \/ ScanIndirect(d)
  <2>1. addressList' = addressList /\ d.kind \notin Direct
    BY <1>6 DEF ScanRet, ScanPlain, ScanIndirect, Direct, Indirect
  <2> QED
    BY <1>4, <2>1
<1> QED
  BY <1>5, <1>6

LEMMA ListInspected ==
    ASSUME ListInv, RangeInv', NEW d \in Disassemblies,
           ScanRet(d) \/ ScanPlain(d) \/ ScanCall(d) \/ ScanJump(d) \/ ScanIndirect(d)
    PROVE  ListInv'
<1>0. Inspect(d)
  BY DEF ScanRet, ScanPlain, ScanCall, ScanJump, ScanIndirect
<1>1. /\ d \in AnyInsn /\ (d.kind # "op" => insnEnd \in Addr /\ d.to \in Addr)
  BY <1>0, InspectType DEF ListInv, RangeInv
<1>2. /\ pc = "scan" /\ UNCHANGED <<tree, lowerVal>>
      /\ inspected' = inspected \cup {[at |-> insnEnd, insn |-> d]}
  BY <1>0 DEF Inspect, treeVars, Seen
<1>3. pc' \in {"scan", "record", "insert", "exited"}
  BY <1>2 DEF ScanRet, ScanPlain, ScanCall, ScanJump, ScanIndirect
<1>5. /\ ToSet(addressList) \subseteq ToSet(addressList')
      /\ 0 \notin ToSet(addressList')
      /\ d.kind \in Direct => d.to \in ToSet(addressList')
  BY ScanAdds
<1>6. TargetsInCode'
  <2>1. d.kind \in Direct => d.to \in Addr
    BY <1>1 DEF Direct
  <2> QED
    BY <1>2, <2>1 DEF ListInv, TargetsInCode
<1>7. WorklistComplete'
  <2> SUFFICES ASSUME pc' # "exited", NEW s \in inspected', s.insn.kind \in Direct
               PROVE  Covered(s.insn.to)' \/ Waiting(s.insn.to)'
    BY DEF WorklistComplete
  <2>1. CASE s \in inspected
    <3>1. Covered(s.insn.to) \/ Waiting(s.insn.to)
      BY <1>2, <2>1 DEF ListInv, WorklistComplete
    <3>2. Covered(s.insn.to) => Covered(s.insn.to)'
      BY <1>2 DEF Covered
    <3>3. Waiting(s.insn.to) => Waiting(s.insn.to)'
      BY <1>2, <1>3, <1>5 DEF Waiting, AnalysisPc
    <3> QED
      BY <3>1, <3>2, <3>3
  <2>2. CASE s = [at |-> insnEnd, insn |-> d]
    BY <1>3, <1>5, <2>2 DEF Waiting, AnalysisPc
  <2> QED
    BY <1>2, <2>1, <2>2
<1> QED
  BY <1>3, <1>5, <1>6, <1>7 DEF ListInv, ZeroAlone

(* The list is handed an address when it is empty: at the program's start  *)
(* and in the handler.                                                     *)
LEMMA ListEntered ==
    ASSUME ListInv, RangeInv', pc \in {"start", "user"}, UNCHANGED <<tree, inspected>>,
           \/ pc' = "pop" /\ \E a \in Nat : addressList' = list_insert(addressList, a)
           \/ pc' \in {"exited", "killed"} /\ addressList' = addressList
    PROVE  ListInv'
<1>1. addressList = <<>>
  BY DEF ListInv
<1>2. ZeroAlone'
  <2>1. ASSUME NEW a \in Nat, addressList' = list_insert(addressList, a), pc' = "pop"
        PROVE  ZeroAlone'
    BY <1>1, <2>1, ListGains, ToSetSmall DEF ZeroAlone
  <2>2. CASE addressList' = addressList
    BY <1>1, <2>2, ToSetSmall DEF ZeroAlone
  <2> QED
    BY <2>1, <2>2
<1>3. WorklistComplete'
  <2> SUFFICES ASSUME NEW s \in inspected, s.insn.kind \in Direct
               PROVE  Covered(s.insn.to)'
    BY DEF WorklistComplete
  <2>1. Covered(s.insn.to) \/ Waiting(s.insn.to)
    BY DEF ListInv, WorklistComplete
  <2>2. ~Waiting(s.insn.to)
    BY <1>1, ToSetSmall DEF Waiting, AnalysisPc
  <2> QED
    BY <2>1, <2>2 DEF Covered
<1> QED
  BY <1>2, <1>3 DEF ListInv, TargetsInCode

(* The work ends with the list empty, or with the 0 that was in it alone. *)
LEMMA OnlyZeroLeft ==
    ASSUME ListInv, WorkDone
    PROVE  addressList = <<>> \/ addressList = <<0>>
<1>1. list_pop(addressList) = 0
  BY DEF WorkDone
<1>2. addressList \in Seq(Nat)
  BY DEF ListInv, RangeInv, TypeInv, TypeOK
<1>3. CASE addressList # <<>>
  <2>1. Head(addressList) = 0 /\ 1 \in DOMAIN addressList /\ addressList[1] = 0
    BY <1>1, <1>2, <1>3 DEF list_pop
  <2> QED
    BY <2>1 DEF ListInv, ZeroAlone, ToSet
<1> QED
  BY <1>3

LEMMA ListDone ==
    ASSUME ListInv, RangeInv', WorkDone
    PROVE  ListInv'
<1>1. /\ pc = "pop" /\ pc' = "user" /\ list_pop(addressList) = 0
      /\ addressList' = list_rest(addressList) /\ UNCHANGED <<tree, inspected>>
  BY DEF WorkDone, treeVars
<1>3. addressList = <<>> \/ addressList = <<0>>
  BY OnlyZeroLeft
<1>4. addressList' = <<>>
  <2>1. CASE addressList = <<0>>
    <3>1. Tail(<<0>>) \in Seq(Nat) /\ Len(Tail(<<0>>)) = 0
      OBVIOUS
    <3>2. Tail(<<0>>) = <<>>
      BY <3>1
    <3>3. <<0>> # <<>>
      OBVIOUS
    <3> QED
      BY <1>1, <2>1, <3>2, <3>3 DEF list_rest
  <2> QED
    BY <1>1, <1>3, <2>1 DEF list_rest
<1>5. ToSet(addressList) \subseteq {0}
  BY <1>3, ToSetSmall
<1>6. WorklistComplete'
  <2> SUFFICES ASSUME NEW s \in inspected, s.insn.kind \in Direct
               PROVE  Covered(s.insn.to)'
    BY <1>1 DEF WorklistComplete
  <2>1. Covered(s.insn.to) \/ Waiting(s.insn.to)
    BY <1>1 DEF ListInv, WorklistComplete
  <2>2. s.insn.to # 0
    BY AnalyzerAssumption DEF ListInv, TargetsInCode, Addr
  <2>3. ~Waiting(s.insn.to)
    BY <1>1, <1>5, <2>2 DEF Waiting
  <2> QED
    BY <1>1, <2>1, <2>3 DEF Covered
<1> QED
  BY <1>1, <1>4, <1>6, ToSetSmall DEF ListInv, ZeroAlone, TargetsInCode

LEMMA ListStep == ListInv /\ [Next]_vars => ListInv'
<1> SUFFICES ASSUME ListInv, [Next]_vars PROVE ListInv'
  OBVIOUS
<1>0. RangeInv' /\ TypeInv
  BY RangesStep DEF ListInv, RangeInv
<1>1. CASE UNCHANGED vars
  BY <1>0, <1>1, ListUntouched DEF vars
<1>2. CASE FindMain
  <2>1. prog.symbol \in Nat
    BY <1>0, ProgramsAreTyped DEF TypeInv
  <2> QED
    BY <1>0, <1>2, <2>1, ListEntered DEF FindMain, treeVars
<1>3. CASE PopAddress \/ FindTurn \/ FindNull \/ FindVacancy \/ InsertRange
  BY <1>0, <1>3, ListMoves
<1>4. CASE WorkDone
  BY <1>0, <1>4, ListDone
<1>5. CASE ScanExhausted \/ ScanPastBound \/ RecordStartByte
  BY <1>0, <1>5, ListUntouched
     DEF ScanExhausted, ScanPastBound, RecordStartByte, treeVars, scanVars, Scanning
<1>6. ASSUME NEW d \in Disassemblies,
             ScanRet(d) \/ ScanPlain(d) \/ ScanCall(d) \/ ScanJump(d) \/ ScanIndirect(d)
      PROVE  ListInv'
  BY <1>0, <1>6, ListInspected
<1>7. CASE Trap
  <2>1. pc = "user" /\ UNCHANGED <<tree, inspected>>
    BY <1>7 DEF Trap, TrapAtSite, TrapElsewhere, TrapFails, EnterHandler, Trapped, treeVars
  <2>2. Targets \subseteq Nat /\ Addr \cup {0} \subseteq Nat
    BY <1>0, ProgramsAreTyped DEF TypeInv
  <2>3. \/ pc' = "pop" /\ \E a \in Nat : addressList' = list_insert(addressList, a)
        \/ pc' \in {"exited", "killed"} /\ addressList' = addressList
    BY <1>7, <2>2 DEF Trap, TrapAtSite, TrapElsewhere, TrapFails
  <2> QED
    BY <1>0, <2>1, <2>3, ListEntered
<1>8. CASE UserStep \/ Crash \/ HandlerHitsTrap
  BY <1>0, <1>8, ListUntouched
     DEF UserStep, Crash, HandlerHitsTrap, treeVars, scanVars, Scanning, AnalysisPc
<1>9. CASE MainReturns
  <2>1. addressList' = addressList
    BY <1>9 DEF MainReturns, ListInv
  <2> QED
    BY <1>0, <1>9, <2>1, ListUntouched DEF MainReturns, treeVars, scanVars, Scanning
<1>10. CASE Stopped
  BY <1>1, <1>10 DEF Stopped
<1> QED
  BY <1>1, <1>2, <1>3, <1>4, <1>5, <1>6, <1>7, <1>8, <1>9, <1>10
     DEF Next, Analyze, PrintDis, Run

(* No target of a direct call or jump is ever forgotten, and none waits    *)
(* while the program runs.                                                 *)
THEOREM WorklistAlwaysComplete == Spec => []WorklistComplete
<1>1. ListInv => WorklistComplete
  BY DEF ListInv
<1> QED
  BY ListInit, ListStep, <1>1, PTL DEF Spec

---------------------------------------------------------------------------
(* The promise of Worklist.                                                *)

(* The 0 that ends the work is never looked up. *)
NeverZero ==
    /\ pc = "find" => walk.key # 0
    /\ Scanning => lowerVal # 0

LEMMA NeverZeroStep == NeverZero /\ [Next]_vars => NeverZero'
<1> SUFFICES ASSUME NeverZero, [Next]_vars PROVE NeverZero'
  OBVIOUS
<1> USE DEF NeverZero, Scanning
<1>1. CASE UNCHANGED vars
  BY <1>1 DEF vars
<1>2. CASE FindMain \/ WorkDone \/ FindNull \/ Trap \/ HandlerHitsTrap \/ Run
  BY <1>2 DEF FindMain, WorkDone, FindNull, Trap, TrapAtSite, TrapElsewhere, TrapFails,
              HandlerHitsTrap, Run, UserStep, MainReturns, Crash, treeVars, scanVars
<1>3. CASE PopAddress \/ FindTurn \/ FindVacancy
  BY <1>3 DEF PopAddress, StartWalk, FindTurn, Turn, TurnLeft, TurnRight, FindVacancy, scanVars
<1>4. CASE PrintDis
  BY <1>4 DEF PrintDis, ScanExhausted, ScanPastBound, ScanRet, ScanPlain, ScanCall, ScanJump,
              ScanIndirect, Inspect, RecordStartByte, InsertRange, scanVars
<1>5. CASE Stopped
  BY <1>1, <1>5 DEF Stopped
<1> QED
  BY <1>1, <1>2, <1>3, <1>4, <1>5 DEF Next, Analyze

LEMMA ToDoIs == \A x : x \in ToDo <=> x # 0 /\ Waiting(x)
  BY DEF ToDo, Waiting

LEMMA DoneIs == ASSUME TypeOK, NEW x \in Nat PROVE x \in Done <=> Covered(x)
  BY DEF Done, Covered, Inside, TypeOK, TreeTypeOK, AddrRange

LEMMA DoneGrows == ASSUME RangeInv, Next PROVE Done \subseteq Done'
  BY TreeGrows DEF Done

LEMMA StaysTheSame ==
    ASSUME UNCHANGED <<tree, inspected>>
    PROVE  Done' = Done /\ DirectTargets' = DirectTargets
  BY DEF Done, DirectTargets

(* A step that the promise does not see. *)
LEMMA Unseen ==
    ASSUME UNCHANGED <<tree, inspected>>, Activity' = Activity,
           \A x : x # 0 => (Waiting(x)' <=> Waiting(x))
    PROVE  UNCHANGED <<Activity, ToDo, Done, DirectTargets>>
<1>1. \A x : x \in ToDo' <=> x # 0 /\ Waiting(x)'
  BY DEF ToDo, Waiting
<1>2. ToDo' = ToDo
  BY <1>1, ToDoIs
<1> QED
  BY <1>2, StaysTheSame

LEMMA PopIsUnseen ==
    ASSUME ListInv, PopAddress \/ FindTurn \/ FindVacancy
    PROVE  UNCHANGED <<Activity, ToDo, Done, DirectTargets>>
<1>1. UNCHANGED <<tree, inspected>> /\ Activity' = Activity
  BY DEF PopAddress, FindTurn, FindVacancy, Activity, AnalysisPc
<1>2. CASE PopAddress
  <2>1. /\ ToSet(addressList) \subseteq ToSet(list_rest(addressList)) \cup {list_pop(addressList)}
        /\ ToSet(list_rest(addressList)) \subseteq ToSet(addressList)
    BY ListRest DEF ListInv, RangeInv, TypeInv, TypeOK
  <2>2. list_pop(addressList) \in ToSet(addressList)
    <3>1. addressList \in Seq(Nat) /\ addressList # <<>>
      BY <1>2 DEF PopAddress, list_pop, ListInv, RangeInv, TypeInv, TypeOK
    <3>2. 1 \in DOMAIN addressList /\ list_pop(addressList) = addressList[1]
      BY <3>1 DEF list_pop
    <3> QED
      BY <3>2 DEF ToSet
  <2>3. /\ pc = "pop" /\ pc' = "find" /\ walk'.key = list_pop(addressList)
        /\ addressList' = list_rest(addressList)
    BY <1>2 DEF PopAddress, StartWalk
  <2>4. \A x : Waiting(x)' <=> Waiting(x)
    BY <2>1, <2>2, <2>3 DEF Waiting, AnalysisPc
  <2> QED
    BY <1>1, <2>4, Unseen
<1>3. CASE FindTurn \/ FindVacancy
  <2>1. \A x : Waiting(x)' <=> Waiting(x)
    BY <1>3 DEF FindTurn, FindVacancy, Turn, TurnLeft, TurnRight, Waiting, AnalysisPc
  <2> QED
    BY <1>1, <2>1, Unseen
<1> QED
  BY <1>2, <1>3

(* An address leaves the work list as a range comes to cover it. *)
LEMMA FinishesOne ==
    ASSUME ListInv, NeverZero, ListInv', FindNull \/ InsertRange
    PROVE  W!Finish
<1>1. /\ pc \in {"find", "insert"} /\ pc' = "pop" /\ UNCHANGED <<addressList, inspected>> /\ TypeOK /\ TypeOK'
      /\ pc = "find" <=> FindNull
  BY DEF FindNull, InsertRange, ListInv, RangeInv, TypeInv
<1>2. PICK x : x = IF pc = "find" THEN walk.key ELSE lowerVal
  OBVIOUS
<1>3. Waiting(x) /\ x \in Nat
  BY <1>1, <1>2 DEF Waiting, TypeOK, TreeTypeOK, Walk
<1>4. Done \subseteq Done' /\ DirectTargets' = DirectTargets
  <2>1. Next
    BY DEF Next, Analyze, PrintDis
  <2> QED
    BY <1>1, <2>1, DoneGrows DEF ListInv, DirectTargets
<1>5. x \in Done'
  <2>1. Covered(x)'
    <3>1. CASE FindNull
      BY <1>1, <1>2, <3>1 DEF FindNull, MeetsRange, AtNode, Covered
    <3>2. CASE InsertRange
      <4>1. /\ data.at \in Position /\ data.at \notin DOMAIN tree
            /\ Attach(data.at, lowerVal, base) /\ lowerVal <= base
        BY <3>2 DEF InsertRange, ListInv, RangeInv, Scanning, VacantFor, direct_boundTree_insert
      <4>2. data.at \in DOMAIN tree' /\ tree'[data.at] = [lower |-> lowerVal, upper |-> base]
        BY <4>1, AttachAdds DEF ListInv, RangeInv, TreeInv
      <4>3. Inside(lowerVal, tree'[data.at])
        BY <1>1, <4>1, <4>2 DEF Inside, TypeOK
      <4>4. x = lowerVal
        BY <1>1, <1>2, <3>2 DEF InsertRange
      <4> QED
        BY <4>2, <4>3, <4>4 DEF Covered
    <3> QED
      BY <3>1, <3>2
  <2>2. PICK p \in DOMAIN tree' : Inside(x, tree'[p])
    BY <2>1 DEF Covered
  <2>3. tree'[p] \in AddrRange
    BY <1>1 DEF TypeOK, TreeTypeOK
  <2>4. x \in tree'[p].lower .. tree'[p].upper
    BY <1>3, <2>2, <2>3 DEF Inside, AddrRange
  <2> QED
    BY <2>4 DEF Done
<1>6. x # 0
  BY <1>1, <1>2 DEF InsertRange, NeverZero, Scanning
<1>7. ToDo' \in {ToDo, ToDo \ {x}}
  <2>1. \A y : Waiting(y) <=> y \in ToSet(addressList) \/ y = x
    BY <1>1, <1>2 DEF Waiting, AnalysisPc
  <2>2. \A y : Waiting(y)' <=> y \in ToSet(addressList)
    BY <1>1 DEF Waiting, AnalysisPc
  <2>3. \A y : y \in ToDo' <=> y # 0 /\ Waiting(y)'
    BY DEF ToDo, Waiting
  <2> QED
    BY <2>1, <2>2, <2>3, ToDoIs
<1> QED
  BY <1>1, <1>3, <1>4, <1>5, <1>6, <1>7, ToDoIs DEF W!Finish, Activity, AnalysisPc

LEMMA TargetsAdded ==
    ASSUME NEW a, NEW d, inspected' = inspected \cup {Seen(a, d)}
    PROVE  \A t : t \in DirectTargets' <=> t \in DirectTargets \/ (d.kind \in Direct /\ t = d.to)
<1>1. Seen(a, d).insn = d
  BY DEF Seen
<1>2. PICK n : n = Seen(a, d)
  OBVIOUS
<1>3. inspected' = inspected \cup {n} /\ n.insn = d
  BY <1>1, <1>2
<1>4. \A t : t \in DirectTargets <=> \E s \in inspected : s.insn.kind \in Direct /\ t = s.insn.to
  BY DEF DirectTargets
<1>5. \A t : t \in DirectTargets' <=> \E s \in inspected' : s.insn.kind \in Direct /\ t = s.insn.to
  BY DEF DirectTargets
<1> QED
  BY <1>3, <1>4, <1>5

LEMMA DiscoversTargets ==
    ASSUME ListInv, NEW d \in Disassemblies, pc' # "exited",
           ScanRet(d) \/ ScanPlain(d) \/ ScanCall(d) \/ ScanJump(d) \/ ScanIndirect(d)
    PROVE  W!Discover
<1>1. Inspect(d)
  BY DEF ScanRet, ScanPlain, ScanCall, ScanJump, ScanIndirect
<1>2. /\ pc = "scan" /\ UNCHANGED <<tree, lowerVal>>
      /\ inspected' = inspected \cup {Seen(insnEnd, d)}
      /\ pc' \in {"scan", "record", "insert"}
  BY <1>1 DEF Inspect, treeVars, ScanRet, ScanPlain, ScanCall, ScanJump, ScanIndirect
<1>3. /\ ToSet(addressList) \subseteq ToSet(addressList')
      /\ 0 \notin ToSet(addressList')
      /\ d.kind \in Direct => d.to \in ToSet(addressList')
  BY ScanAdds
<1>4. \A x : x \in ToDo' <=> x # 0 /\ Waiting(x)'
  BY DEF ToDo, Waiting
<1>5. \A x : Waiting(x) => Waiting(x)'
  BY <1>2, <1>3 DEF Waiting, AnalysisPc
<1>6. \A x \in ToSet(addressList') : x \in ToDo'
  BY <1>2, <1>3, <1>4 DEF Waiting, AnalysisPc
<1>7. \A t : t \in DirectTargets' <=> t \in DirectTargets \/ (d.kind \in Direct /\ t = d.to)
  BY <1>2, TargetsAdded
<1>8. Done' = Done
  BY <1>2 DEF Done
<1>9. Activity = "busy" /\ Activity' = "busy"
  BY <1>2 DEF Activity, AnalysisPc
<1> QED
  BY <1>3, <1>4, <1>5, <1>6, <1>7, <1>8, <1>9, ToDoIs DEF W!Discover

(* The program goes on when nothing but 0 is left. *)
LEMMA ReturnsIdle == ASSUME ListInv, ListInv', WorkDone PROVE W!Return
<1>1. /\ pc = "pop" /\ pc' = "user" /\ UNCHANGED <<tree, inspected>>
  BY DEF WorkDone, treeVars
<1>2. ToSet(addressList) \subseteq {0}
  BY OnlyZeroLeft, ToSetSmall
<1>3. ToDo = {}
  BY <1>1, <1>2, ToDoIs DEF Waiting
<1>4. ToDo' = {}
  BY <1>1 DEF ToDo, Waiting, AnalysisPc
<1> QED
  BY <1>1, <1>3, <1>4, StaysTheSame DEF W!Return, Activity, AnalysisPc

(* An address enters an empty list. *)
LEMMA EntersList ==
    ASSUME ListInv, pc \in {"start", "user"}, UNCHANGED <<tree, inspected>>, pc' = "pop",
           NEW a \in Nat, addressList' = list_insert(addressList, a)
    PROVE  IF pc = "user" THEN W!Interrupt ELSE W!Discover
<1>1. addressList = <<>>
  BY DEF ListInv
<1>2. ToSet(addressList') = {a} /\ ToSet(addressList) = {}
  BY <1>1, ListGains, ToSetSmall
<1>3. \A x : x \in ToDo' <=> x # 0 /\ Waiting(x)'
  BY DEF ToDo, Waiting
<1>4. \A x \in ToDo' : x = a
  BY <1>2, <1>3 DEF Waiting
<1>5. ToDo = {}
  BY <1>2, ToDoIs DEF Waiting
<1> QED
  BY <1>4, <1>5, StaysTheSame DEF W!Interrupt, W!Discover, Activity, AnalysisPc

(* A step into a state where nothing runs any more. *)
LEMMA EndsIt ==
    ASSUME pc' \in StoppedPc, tree' = tree, DirectTargets' = DirectTargets
    PROVE  W!Stop
  BY DEF W!Stop, Activity, AnalysisPc, StoppedPc, Done

LEMMA WorkRefines ==
    ListInv /\ ListInv' /\ NeverZero /\ [Next]_vars
        => [W!Next]_<<Activity, ToDo, Done, DirectTargets>>
<1> SUFFICES ASSUME ListInv, ListInv', NeverZero, [Next]_vars
             PROVE  [W!Next]_<<Activity, ToDo, Done, DirectTargets>>
  OBVIOUS
<1> USE DEF W!Next
<1>1. CASE UNCHANGED vars
  BY <1>1 DEF vars, Activity, ToDo, Done, DirectTargets, Waiting
<1>2. CASE FindMain
  <2>1. prog.symbol \in Nat /\ pc = "start" /\ UNCHANGED <<tree, inspected>>
    BY <1>2, ProgramsAreTyped DEF FindMain, treeVars, ListInv, RangeInv, TypeInv
  <2>2. CASE pc' = "pop"
    BY <1>2, <2>1, <2>2, EntersList DEF FindMain
  <2>3. CASE pc' = "exited"
    BY <2>1, <2>3, EndsIt, StaysTheSame DEF StoppedPc
  <2> QED
    BY <1>2, <2>2, <2>3 DEF FindMain
<1>3. CASE PopAddress \/ FindTurn \/ FindVacancy
  BY <1>3, PopIsUnseen
<1>4. CASE FindNull \/ InsertRange
  BY <1>4, FinishesOne
<1>5. CASE WorkDone
  BY <1>5, ReturnsIdle
<1>6. CASE ScanExhausted \/ ScanPastBound \/ RecordStartByte
  <2>1. /\ UNCHANGED <<tree, inspected>> /\ Activity' = Activity
        /\ \A x : Waiting(x)' <=> Waiting(x)
    BY <1>6 DEF ScanExhausted, ScanPastBound, RecordStartByte, treeVars, scanVars, Activity,
               AnalysisPc, Waiting
  <2> QED
    BY <2>1, Unseen
<1>7. ASSUME NEW d \in Disassemblies,
             ScanRet(d) \/ ScanPlain(d) \/ ScanCall(d) \/ ScanJump(d) \/ ScanIndirect(d)
      PROVE  [W!Next]_<<Activity, ToDo, Done, DirectTargets>>
  <2>1. CASE pc' # "exited"
    BY <1>7, <2>1, DiscoversTargets
  <2>2. CASE pc' = "exited"
    <3>1. ScanIndirect(d) /\ Inspect(d)
      BY <1>7, <2>2 DEF ScanRet, ScanPlain, ScanCall, ScanJump, ScanIndirect, Inspect
    <3>2. /\ d.kind \notin Direct /\ tree' = tree
          /\ inspected' = inspected \cup {Seen(insnEnd, d)}
      BY <3>1 DEF ScanIndirect, Inspect, treeVars, Direct, Indirect
    <3>3. DirectTargets' = DirectTargets
      BY <3>2 DEF DirectTargets, Seen
    <3> QED
      BY <2>2, <3>2, <3>3, EndsIt DEF StoppedPc
  <2> QED
    BY <2>1, <2>2
<1>8. CASE Trap
  <2>1. pc = "user" /\ UNCHANGED <<tree, inspected>>
    BY <1>8 DEF Trap, TrapAtSite, TrapElsewhere, TrapFails, EnterHandler, Trapped, treeVars
  <2>2. Targets \subseteq Nat /\ Addr \cup {0} \subseteq Nat
    BY ProgramsAreTyped DEF ListInv, RangeInv, TypeInv
  <2>3. \/ pc' = "pop" /\ \E a \in Nat : addressList' = list_insert(addressList, a)
        \/ pc' \in {"exited", "killed"}
    BY <1>8, <2>2 DEF Trap, TrapAtSite, TrapElsewhere, TrapFails
  <2>4. CASE pc' = "pop" /\ \E a \in Nat : addressList' = list_insert(addressList, a)
    BY <2>1, <2>4, EntersList
  <2>5. CASE pc' \in {"exited", "killed"}
    BY <2>1, <2>5, EndsIt, StaysTheSame DEF StoppedPc
  <2> QED
    BY <2>3, <2>4, <2>5
<1>9. CASE HandlerHitsTrap \/ MainReturns \/ Crash
  <2>1. pc' \in StoppedPc /\ UNCHANGED <<tree, inspected>>
    BY <1>9 DEF HandlerHitsTrap, MainReturns, Crash, treeVars, StoppedPc
  <2> QED
    BY <2>1, EndsIt, StaysTheSame
<1>10. CASE UserStep
  <2>1. /\ UNCHANGED <<tree, inspected>> /\ Activity' = Activity
        /\ \A x : Waiting(x)' <=> Waiting(x)
    BY <1>10 DEF UserStep, treeVars, scanVars, Activity, AnalysisPc, Waiting
  <2> QED
    BY <2>1, Unseen
<1>11. CASE Stopped
  BY <1>1, <1>11 DEF Stopped
<1> QED
  BY <1>1, <1>2, <1>3, <1>4, <1>5, <1>6, <1>7, <1>8, <1>9, <1>10, <1>11
     DEF Next, Analyze, PrintDis, Run

(* The list, the tree and the scans implement the work list: what was      *)
(* found is disassembled, and stays so, before the program runs.           *)
THEOREM AnalysisIsWorklist == Spec => ImplementsWorklist
<1>1. Init => W!Init
  BY ToSetSmall DEF Init, boundTree_new, W!Init, Activity, AnalysisPc, ToDo, Waiting, Done, DirectTargets
<1>2. Init => NeverZero
  BY DEF Init, NeverZero, Scanning
<1> QED
  BY ListInit, ListStep, NeverZeroStep, WorkRefines, <1>1, <1>2, PTL DEF Spec, ImplementsWorklist, W!Spec

---------------------------------------------------------------------------
(* What is in sight.                                                       *)

(* The instructions after which the next one may run. *)
GoesOn == Kind \ {"ret", "jmp", "ijmp"}

(* The place where a scan is, and what it will have covered at its end. *)
Ahead(x) ==
    \/ pc = "scan" /\ x = insnEnd
    \/ pc = "record" /\ breakFlag /\ x = insnEnd
    \/ Scanning /\ lowerVal <= x /\ x <= base

Onward(x) ==
    Covered(x) \/ AtWindowEnd(x) \/ Ahead(x) \/ (pc = "insert" /\ x = WindowEnd)

(* What follows an inspected instruction is covered, or past a window. *)
NextKnown ==
    pc \notin {"exited", "killed"} =>
        \A s \in inspected : s.insn.kind \in GoesOn => Onward(s.at + s.insn.len)

(* The handler lets no target be taken that it has not followed. *)
PendingKnown ==
    pc \notin {"exited", "killed"} => \A t \in pending : t = 0 \/ Handled(t)

InWindow == Scanning => base <= insnEnd /\ insnEnd <= WindowEnd

SightInv == ListInv /\ InWindow /\ NextKnown /\ PendingKnown

LEMMA SightInit == Init => SightInv
BY ListInit DEF Init, SightInv, InWindow, Scanning, NextKnown, PendingKnown

LEMMA TruncateFits ==
    ASSUME TypeInv, insnEnd < WindowEnd, NEW d \in Disassemblies
    PROVE  insnEnd + d.len <= WindowEnd
<1>1. PICK e \in Decodings(mem, insnEnd) : d = Truncate(e)
  BY DEF Disassemblies
<1>2. e.len \in Nat
  BY DecodingsType DEF TypeInv, TypeOK, AnyInsn
<1>3. insnEnd \in Nat /\ WindowEnd \in Nat
  BY AnalyzerAssumption DEF TypeInv, TypeOK, WindowEnd
<1>4. CASE insnEnd + e.len > WindowEnd
  <2>1. d.len = WindowEnd - insnEnd
    BY <1>1, <1>4 DEF Truncate, Plain
  <2> QED
    BY <1>3, <2>1
<1>5. CASE ~(insnEnd + e.len > WindowEnd)
  <2>1. d = e
    BY <1>1, <1>5 DEF Truncate
  <2> QED
    BY <1>2, <1>3, <1>5, <2>1
<1> QED
  BY <1>4, <1>5

LEMMA ScanTypes ==
    ASSUME SightInv
    PROVE  /\ insnEnd \in Nat /\ lowerVal \in Nat /\ base \in Nat /\ walk.key \in Nat
           /\ WindowEnd \in Nat /\ Window \in Nat
           /\ RangeInv /\ TypeInv
<1>1. RangeInv /\ TypeInv
  BY DEF SightInv, ListInv, RangeInv
<1>2. insnEnd \in Nat /\ lowerVal \in Nat /\ base \in Nat /\ walk.key \in Nat
  BY <1>1 DEF TypeInv, TypeOK, TreeTypeOK, Walk
<1>3. Window \in Nat
  BY AnalyzerAssumption
<1> QED
  BY <1>1, <1>2, <1>3 DEF WindowEnd

(* The steps of a scan, which move its place. *)
ScanStep ==
    \/ ScanExhausted \/ ScanPastBound \/ RecordStartByte \/ InsertRange
    \/ \E d \in Disassemblies :
          ScanRet(d) \/ ScanPlain(d) \/ ScanCall(d) \/ ScanJump(d) \/ ScanIndirect(d)

LEMMA ScansStep ==
    ASSUME Next, Scanning, pc' \notin {"exited", "killed"}
    PROVE  ScanStep
BY DEF Next, Analyze, Trap, Run, PrintDis, ScanStep, Scanning, FindMain, PopAddress, FindTurn,
       FindNull, FindVacancy, WorkDone, TrapAtSite, TrapElsewhere, TrapFails, EnterHandler,
       Trapped, UserStep, MainReturns, Crash, HandlerHitsTrap, Stopped, StoppedPc

LEMMA WindowStep ==
    ASSUME SightInv, TypeInv', Next
    PROVE  InWindow'
<1>0. /\ insnEnd \in Nat /\ lowerVal \in Nat /\ base \in Nat /\ WindowEnd \in Nat
      /\ walk.key \in Nat /\ Window \in Nat
  BY ScanTypes
<1>1. CASE FindVacancy
  BY <1>0, <1>1 DEF FindVacancy, InWindow, WindowEnd
<1>2. ASSUME NEW d \in Disassemblies,
             ScanRet(d) \/ ScanPlain(d) \/ ScanCall(d) \/ ScanJump(d) \/ ScanIndirect(d)
      PROVE  InWindow'
  <2>1. Inspect(d)
    BY <1>2 DEF ScanRet, ScanPlain, ScanCall, ScanJump, ScanIndirect
  <2>2. d.len \in Nat /\ insnEnd + d.len <= WindowEnd
    BY <2>1, TruncateFits, InspectType DEF Inspect, SightInv, ListInv, RangeInv, AnyInsn
  <2> QED
    BY <1>0, <2>1, <2>2 DEF Inspect, InWindow, WindowEnd
<1>3. CASE ScanExhausted \/ RecordStartByte \/ InsertRange
  BY <1>3 DEF ScanExhausted, RecordStartByte, InsertRange, scanVars, SightInv, InWindow,
              Scanning, WindowEnd
<1>4. CASE ScanPastBound
  BY <1>0, <1>4 DEF ScanPastBound, InWindow, WindowEnd
<1>5. CASE pc' \notin {"scan", "record", "insert"}
  BY <1>5 DEF InWindow, Scanning
<1>6. CASE ~ScanStep /\ ~FindVacancy /\ pc' \in {"scan", "record", "insert"}
  BY <1>6 DEF Next, Analyze, Trap, Run, PrintDis, ScanStep, FindMain, PopAddress, FindTurn,
       FindNull, WorkDone, TrapAtSite, TrapElsewhere, TrapFails, UserStep, EnterHandler,
       Trapped, MainReturns, Crash, HandlerHitsTrap, Stopped, StoppedPc, vars
<1> QED
  BY <1>1, <1>2, <1>3, <1>4, <1>5, <1>6 DEF ScanStep

(* A place that a scan has ahead of it ends up covered, unless the scan is  *)
(* at the end of its window.                                               *)
LEMMA AheadStays ==
    ASSUME SightInv, TypeInv', Next, pc' \notin {"exited", "killed"}, NEW x \in Nat, Ahead(x)
    PROVE  Ahead(x)' \/ Covered(x)' \/ (ScanExhausted /\ x = insnEnd)
<1>0. /\ insnEnd \in Nat /\ lowerVal \in Nat /\ base \in Nat /\ WindowEnd \in Nat
      /\ Window \in Nat /\ RangeInv
  BY ScanTypes
<1>1. Scanning /\ ScanStep /\ lowerVal <= insnEnd /\ base <= insnEnd /\ insnEnd <= WindowEnd
  BY <1>0, ScansStep DEF Ahead, Scanning, SightInv, InWindow, RangeInv
<1>2. CASE ScanExhausted
  BY <1>0, <1>1, <1>2 DEF ScanExhausted, scanVars, Ahead, Scanning
<1>3. CASE ScanPastBound
  BY <1>0, <1>1, <1>3 DEF ScanPastBound, Ahead, Scanning
<1>4. CASE RecordStartByte
  BY <1>4 DEF RecordStartByte, scanVars, Ahead, Scanning
<1>5. ASSUME NEW d \in Disassemblies,
             ScanRet(d) \/ ScanPlain(d) \/ ScanCall(d) \/ ScanJump(d) \/ ScanIndirect(d)
      PROVE  Ahead(x)'
  <2>1. Inspect(d) /\ pc' \in {"scan", "record", "insert"}
    BY <1>5 DEF ScanRet, ScanPlain, ScanCall, ScanJump, ScanIndirect, Inspect
  <2>2. lowerVal <= x /\ x <= insnEnd
    BY <1>0, <1>1, <2>1 DEF Inspect, Ahead
  <2> QED
    BY <2>1, <2>2 DEF Inspect, Ahead, Scanning
<1>6. CASE InsertRange
  <2>1. /\ data.at \in Position /\ data.at \notin DOMAIN tree
        /\ Attach(data.at, lowerVal, base)
    BY <1>0, <1>6 DEF InsertRange, RangeInv, Scanning, VacantFor, direct_boundTree_insert
  <2>2. data.at \in DOMAIN tree' /\ tree'[data.at] = [lower |-> lowerVal, upper |-> base]
    BY <1>0, <2>1, AttachAdds DEF RangeInv, TreeInv
  <2>3. lowerVal <= x /\ x <= base
    BY <1>6 DEF InsertRange, Ahead
  <2> QED
    BY <2>2, <2>3 DEF Covered, Inside
<1> QED
  BY <1>1, <1>2, <1>3, <1>4, <1>5, <1>6 DEF ScanStep

LEMMA OnwardStays ==
    ASSUME SightInv, TypeInv', Next, pc' \notin {"exited", "killed"}, NEW x \in Nat, Onward(x)
    PROVE  Onward(x)'
<1>0. /\ insnEnd \in Nat /\ WindowEnd \in Nat /\ Window \in Nat /\ RangeInv
  BY ScanTypes
<1>1. CASE Covered(x) \/ AtWindowEnd(x)
  BY <1>0, <1>1, TreeGrows DEF Onward, Covered, AtWindowEnd
<1>2. CASE Ahead(x)
  <2>1. ScanExhausted => insnEnd = WindowEnd /\ pc' = "insert" /\ WindowEnd' = WindowEnd
    BY <1>0 DEF ScanExhausted, scanVars, WindowEnd, SightInv, InWindow, Scanning
  <2> QED
    BY <1>2, <2>1, AheadStays DEF Onward
<1>3. CASE pc = "insert" /\ x = WindowEnd
  <2>1. InsertRange
    BY <1>3, ScansStep DEF ScanStep, Scanning, ScanExhausted, ScanPastBound, RecordStartByte,
       ScanRet, ScanPlain, ScanCall, ScanJump, ScanIndirect, Inspect
  <2>2. /\ data.at \in Position /\ data.at \notin DOMAIN tree
        /\ Attach(data.at, lowerVal, base)
    BY <1>0, <2>1 DEF InsertRange, RangeInv, Scanning, VacantFor, direct_boundTree_insert
  <2>3. data.at \in DOMAIN tree' /\ tree'[data.at] = [lower |-> lowerVal, upper |-> base]
    BY <1>0, <2>2, AttachAdds DEF RangeInv, TreeInv
  <2> QED
    BY <1>3, <2>3 DEF Onward, AtWindowEnd, WindowEnd
<1> QED
  BY <1>1, <1>2, <1>3 DEF Onward

LEMMA InspectedChanges ==
    ASSUME Next, pc' \notin {"exited", "killed"}
    PROVE  \/ inspected' = inspected
           \/ \E d \in Disassemblies :
                 /\ Inspect(d)
                 /\ d.kind \in GoesOn =>
                      pc' = "scan" \/ (pc' = "record" /\ breakFlag')
<1>1. ASSUME NEW d \in Disassemblies,
             ScanRet(d) \/ ScanPlain(d) \/ ScanCall(d) \/ ScanJump(d) \/ ScanIndirect(d)
      PROVE  /\ Inspect(d)
             /\ d.kind \in GoesOn =>
                  pc' = "scan" \/ (pc' = "record" /\ breakFlag')
  <2>1. Inspect(d) /\ pc = "scan"
    BY <1>1 DEF ScanRet, ScanPlain, ScanCall, ScanJump, ScanIndirect, Inspect
  <2>2. CASE ScanPlain(d) \/ ScanCall(d)
    <3>1. pc' = pc
      BY <2>2 DEF ScanPlain, ScanCall
    <3> QED
      BY <2>1, <3>1
  <2>3. CASE ScanRet(d)
    BY <2>1, <2>3 DEF ScanRet, GoesOn
  <2>4. CASE ScanJump(d)
    BY <2>1, <2>4 DEF ScanJump, GoesOn
  <2>5. CASE ScanIndirect(d)
    <3>1. d.kind \in GoesOn => d.kind # "ijmp"
      BY DEF GoesOn
    <3>2. pc' = "record" /\ breakFlag' = (d.kind # "ijmp")
      BY <2>5 DEF ScanIndirect
    <3> QED
      BY <2>1, <3>1, <3>2, Zenon
  <2> QED
    BY <1>1, <2>2, <2>3, <2>4, <2>5
<1>2. CASE ~ \E d \in Disassemblies :
              ScanRet(d) \/ ScanPlain(d) \/ ScanCall(d) \/ ScanJump(d) \/ ScanIndirect(d)
  BY <1>2 DEF Next, Analyze, Trap, Run, PrintDis, FindMain, PopAddress, FindTurn, FindNull,
       FindVacancy, WorkDone, ScanExhausted, ScanPastBound, RecordStartByte, InsertRange,
       TrapAtSite, TrapElsewhere, TrapFails, UserStep, EnterHandler, MainReturns, Crash,
       HandlerHitsTrap, Stopped, vars
<1> QED
  BY <1>1, <1>2

LEMMA NotStopped ==
    ASSUME Next, pc' \notin {"exited", "killed"}
    PROVE  pc \notin {"exited", "killed"}
BY DEF Next, Analyze, Trap, Run, PrintDis, FindMain, PopAddress, FindTurn, FindNull,
       FindVacancy, WorkDone, ScanExhausted, ScanPastBound, RecordStartByte, InsertRange,
       ScanRet, ScanPlain, ScanCall, ScanJump, ScanIndirect, Inspect,
       TrapAtSite, TrapElsewhere, TrapFails, UserStep, EnterHandler, Trapped, MainReturns, Crash,
       HandlerHitsTrap, AnalysisPc, Stopped, vars

LEMMA NextStep ==
    ASSUME SightInv, TypeInv', Next
    PROVE  NextKnown'
<1> SUFFICES ASSUME pc' \notin {"exited", "killed"}, NEW s \in inspected', s.insn.kind \in GoesOn
             PROVE  Onward(s.at + s.insn.len)'
  BY DEF NextKnown
<1>1. pc \notin {"exited", "killed"}
  BY NotStopped
<1>2. s.at + s.insn.len \in Nat
  BY DEF TypeInv, TypeOK
<1>3. CASE s \in inspected
  <2>1. Onward(s.at + s.insn.len)
    BY <1>1, <1>3 DEF SightInv, NextKnown
  <2> QED
    BY <1>2, <2>1, OnwardStays
<1>4. CASE s \notin inspected
  <2>1. PICK d \in Disassemblies :
           /\ Inspect(d)
           /\ d.kind \in GoesOn => pc' = "scan" \/ (pc' = "record" /\ breakFlag')
    BY <1>4, InspectedChanges
  <2>2. s = [at |-> insnEnd, insn |-> d] /\ insnEnd' = insnEnd + d.len
    BY <1>4, <2>1 DEF Inspect, Seen
  <2> QED
    BY <2>1, <2>2 DEF Onward, Ahead
<1> QED
  BY <1>3, <1>4

(* What waits, waits until it is covered; 0 is only dropped.               *)
LEMMA HandledStays ==
    ASSUME ListInv, RangeInv', Next, pc' \notin {"exited", "killed"}, NEW x, x # 0, Handled(x)
    PROVE  Handled(x)'
<1>1. CASE Covered(x)
  BY <1>1, CoveredStays DEF Handled, ListInv
<1>2. CASE Waiting(x)
  <2>1. CASE PopAddress \/ FindTurn \/ FindNull \/ FindVacancy \/ InsertRange
    BY <1>2, <2>1, WaitingMoves
  <2>2. CASE FindMain
    BY <1>2, <2>2, ToSetSmall DEF FindMain, ListInv, Waiting
  <2>3. CASE WorkDone
    BY <1>2, <2>3, OnlyZeroLeft, ToSetSmall DEF WorkDone, Waiting
  <2>4. CASE ScanExhausted \/ ScanPastBound \/ RecordStartByte
    BY <1>2, <2>4 DEF ScanExhausted, ScanPastBound, RecordStartByte, scanVars, Handled, Waiting,
                      AnalysisPc
  <2>5. ASSUME NEW d \in Disassemblies,
               ScanRet(d) \/ ScanPlain(d) \/ ScanCall(d) \/ ScanJump(d) \/ ScanIndirect(d)
        PROVE  Handled(x)'
    <3>1. ToSet(addressList) \subseteq ToSet(addressList')
      BY <2>5, ScanAdds
    <3>2. /\ pc = "scan" /\ lowerVal' = lowerVal
          /\ pc' \in {"scan", "record", "insert"}
      BY <2>5 DEF ScanRet, ScanPlain, ScanCall, ScanJump, ScanIndirect, Inspect
    <3> QED
      BY <1>2, <3>1, <3>2 DEF Handled, Waiting, AnalysisPc
  <2>6. CASE Trap \/ Run \/ HandlerHitsTrap \/ Stopped
    BY <1>2, <2>6 DEF Trap, Run, TrapAtSite, TrapElsewhere, TrapFails, EnterHandler, Trapped,
         UserStep, MainReturns, Crash, HandlerHitsTrap, Stopped, StoppedPc, Waiting, AnalysisPc
  <2> QED
    BY <2>1, <2>2, <2>3, <2>4, <2>5, <2>6 DEF Next, Analyze, PrintDis
<1> QED
  BY <1>1, <1>2 DEF Handled

LEMMA PendingStep ==
    ASSUME SightInv, RangeInv', Next
    PROVE  PendingKnown'
<1> SUFFICES ASSUME pc' \notin {"exited", "killed"}, NEW t \in pending', t # 0
             PROVE  Handled(t)'
  BY DEF PendingKnown
<1>1. pc \notin {"exited", "killed"}
  BY NotStopped
<1>2. CASE TrapAtSite
  <2>1. t \in Nat /\ addressList' = list_insert(addressList, t) /\ pc' = "pop"
    <3>1. PICK u \in Targets : addressList' = list_insert(addressList, u) /\ pending' = {u}
      BY <1>2 DEF TrapAtSite
    <3>2. Targets \subseteq Nat
      BY ProgramsAreTyped DEF SightInv, ListInv, RangeInv, TypeInv
    <3> QED
      BY <1>2, <3>1, <3>2 DEF TrapAtSite
  <2>2. t \in ToSet(addressList')
    BY <2>1, ListGains DEF SightInv
  <2> QED
    BY <2>1, <2>2 DEF Handled, Waiting, AnalysisPc
<1>3. CASE UserStep
  BY <1>3 DEF UserStep
<1>4. CASE ~TrapAtSite /\ ~UserStep
  <2>1. pending' = pending
    BY <1>4 DEF Next, Analyze, Trap, Run, PrintDis, FindMain, PopAddress, FindTurn, FindNull,
       FindVacancy, WorkDone, ScanExhausted, ScanPastBound, RecordStartByte, InsertRange,
       ScanRet, ScanPlain, ScanCall, ScanJump, ScanIndirect, Inspect, userVars,
       TrapElsewhere, TrapFails, MainReturns, Crash, HandlerHitsTrap, Stopped, vars
  <2>2. Handled(t)
    BY <1>1, <2>1 DEF SightInv, PendingKnown
  <2> QED
    BY <2>2, HandledStays DEF SightInv
<1> QED
  BY <1>2, <1>3, <1>4

LEMMA SightStep == SightInv /\ [Next]_vars => SightInv'
<1> SUFFICES ASSUME SightInv, [Next]_vars PROVE SightInv'
  OBVIOUS
<1>1. ListInv' /\ RangeInv' /\ TypeInv'
  BY ListStep DEF SightInv, ListInv, RangeInv
<1>2. CASE Next
  BY <1>1, <1>2, WindowStep, NextStep, PendingStep DEF SightInv
<1>3. CASE UNCHANGED vars
  BY <1>1, <1>3 DEF vars, SightInv, InWindow, NextKnown, PendingKnown, Scanning, Onward, Ahead,
     Covered, AtWindowEnd, WindowEnd, Handled, Waiting
<1> QED
  BY <1>2, <1>3

(* A step of the program from an inspected instruction leads to code that  *)
(* is covered, unless by a transfer that is not followed, or on to what    *)
(* comes after an inspected instruction.                                   *)
LEMMA NextInSight ==
    ASSUME SightInv, pc = "user", NEW d \in Decodings(mem, ip), Seen(ip, d) \in inspected,
           Execute(d), ~Covered(ip')
    PROVE  \/ d.kind \in Unfollowed
           \/ d.kind \in Indirect /\ pending = {}
           \/ d.kind = "ret" /\ ~PushedByInspected(ip')
           \/ ip' = 0
           \/ \E s \in inspected : s.insn.kind \in GoesOn /\ ip' = s.at + s.insn.len
<1>2. ASSUME NEW s \in inspected, s.insn.kind \in Direct
      PROVE  Covered(s.insn.to)
  BY <1>2 DEF SightInv, ListInv, WorklistComplete, Waiting, AnalysisPc
<1>3. \A t \in pending : t = 0 \/ Covered(t)
  BY DEF SightInv, PendingKnown, Handled, Waiting, AnalysisPc
<1>4. Seen(ip, d).at = ip /\ Seen(ip, d).insn = d
  BY DEF Seen
<1>5. CASE ip' = ip + d.len /\ d.kind \in {"op", "jcc", "loop"}
  BY <1>4, <1>5 DEF GoesOn, Kind, Direct, Unfollowed
<1>6. CASE ip' = d.to /\ d.kind \in {"jmp", "jcc", "loop", "call"}
  BY <1>2, <1>4, <1>6 DEF Direct, Unfollowed
<1>7. CASE ip' \in Targets /\ d.kind \in Indirect
  BY <1>3, <1>7 DEF Targets
<1>8. CASE d.kind = "rcall"
  BY <1>8 DEF Unfollowed
<1>9. CASE d.kind = "ret" /\ PushedByInspected(ip')
  BY <1>9 DEF PushedByInspected, GoesOn, Kind, Direct, Indirect, Unfollowed
<1> QED
  BY <1>5, <1>6, <1>7, <1>8, <1>9 DEF Execute, Indirect

LEMMA LeavesStep ==
    ASSUME SightInv, pc = "user", NEW d \in Decodings(mem, ip), Seen(ip, d) \in inspected,
           Execute(d), ~Covered(ip')
    PROVE  OutOfSight(d, ip')
<1>1. ASSUME NEW s \in inspected, s.insn.kind \in GoesOn
      PROVE  Covered(s.at + s.insn.len) \/ AtWindowEnd(s.at + s.insn.len)
  BY <1>1 DEF SightInv, NextKnown, Onward, Ahead, Scanning
<1>2. CASE \E s \in inspected : s.insn.kind \in GoesOn /\ ip' = s.at + s.insn.len
  BY <1>1, <1>2 DEF OutOfSight
<1> QED
  BY <1>2, NextInSight DEF OutOfSight

(* From code that was disassembled as it runs, the program gets out of the *)
(* disassembled ranges only by the transfers that OutOfSight lists.        *)
THEOREM LeavesOnlyAsListed == Spec => LeavesOnlyOutOfSight
<1>1. SightInv /\ [Next]_vars =>
        [pc = "user" /\ pc' = "user" =>
            \A d \in Decodings(mem, ip) :
               Seen(ip, d) \in inspected /\ Execute(d) /\ ~Covered(ip')
                   => OutOfSight(d, ip')]_vars
  BY LeavesStep
<1> QED
  BY SightInit, SightStep, <1>1, PTL DEF Spec, LeavesOnlyOutOfSight

---------------------------------------------------------------------------
(* Programs of which the analyzer sees everything, and whose scans end     *)
(* before the window does.                                                 *)

(* Where a scan can be: at an instruction of the program, in a site whose  *)
(* trap it met, or past the code.                                          *)
OnCourse(c) ==
    \/ c > MaxAddr
    \/ c \in prog.starts
    \/ \E a \in prog.starts :
          prog.insn[a].kind \in Indirect /\ a < c /\ c < a + prog.insn[a].len

InspectedAt(x) == Seen(x, prog.insn[x]) \in inspected

(* Only sites are changed, and only after they were inspected. *)
SitesKnown ==
    \A a \in Addr : mem[a] # "orig" =>
        /\ mem[a] = "cc" /\ a \in prog.starts
        /\ prog.insn[a].kind \in Indirect /\ InspectedAt(a)

(* Scans begin at entries. *)
EntriesKnown ==
    /\ addressList \in Seq(Entries(prog))
    /\ pc = "find" => walk.key \in Entries(prog)
    /\ Scanning => lowerVal \in Entries(prog)
    /\ \A q \in DOMAIN tree : tree[q].lower \in Entries(prog)

RangesKnown == \A x \in prog.starts : Covered(x) => InspectedAt(x)

(* A bound is out of reach, or just before a range. *)
FromBound(b, x) ==
    \/ b = x + NO_BOUND
    \/ \E q \in DOMAIN tree : b = tree[q].lower - 1 /\ x <= b

BoundKnown ==
    /\ pc = "find" => FromBound(walk.bound, walk.key)
    /\ Scanning => FromBound(data.bound, lowerVal)

ScanKnown ==
    /\ pc \in {"scan", "record"} =>
          /\ OnCourse(insnEnd)
          /\ base < insnEnd \/ (pc = "scan" /\ insnEnd = lowerVal)
          /\ \A x \in prog.starts : lowerVal <= x /\ x < insnEnd =>
                InspectedAt(x) /\ prog.insn[x].kind \notin {"ret", "jmp"}
          /\ \A x \in prog.starts : x > data.bound => x >= insnEnd
    /\ pc = "insert" =>
          \A x \in prog.starts : lowerVal <= x /\ x <= base => InspectedAt(x)

(* What follows an inspected instruction is covered, or ahead of the scan. *)
ContinuesKnown ==
    pc \notin {"exited", "killed"} =>
        \A s \in inspected : s.insn.kind \in GoesOn =>
            LET next == s.at + s.insn.len IN next > MaxAddr \/ Covered(next) \/ Ahead(next)

InProgram(x) == x \in prog.starts \/ x > MaxAddr

RunKnown ==
    /\ pending \subseteq prog.runtime
    /\ InProgram(ip) /\ (pc = "start" => ip = prog.main)
    /\ \A i \in DOMAIN stack : InProgram(stack[i]) /\ PushedByInspected(stack[i])
    /\ pc \notin {"exited", "killed"} =>
          /\ resolved # {} => \A t \in prog.runtime : Handled(t)
          /\ pc # "start" /\ ip \in Addr => Handled(ip)

CodeInv ==
    TypeInv /\ Followed(prog) /\ Fits(prog) /\ NO_BOUND >= Window /\ SitesKnown

ClosedInv ==
    SightInv /\ TrapInv /\ CodeInv /\ EntriesKnown /\ RangesKnown /\ BoundKnown
    /\ ScanKnown /\ ContinuesKnown /\ RunKnown

LEMMA Numbers ==
    /\ MaxAddr \in Nat /\ MaxLen \in Nat /\ Window \in Nat \ {0} /\ NO_BOUND \in Nat \ {0}
BY AnalyzerAssumption, NoBoundAssumption

LEMMA InsnAt ==
    ASSUME TypeInv, NEW a \in Addr
    PROVE  /\ a \in Nat \ {0} /\ a <= MaxAddr
           /\ prog.insn[a] \in Insn /\ prog.insn[a].len \in Nat \ {0}
           /\ prog.insn[a].len <= MaxLen
<1>1. prog.insn[a] \in Insn
  BY ProgramInsn DEF TypeInv
<1> QED
  BY <1>1, AnalyzerAssumption DEF Insn, Addr

LEMMA StartsInCode ==
    ASSUME TypeInv
    PROVE  prog.starts \subseteq Addr
BY DEF TypeInv, TypeOK, Program

(* An instruction of the program ends before the next one. *)
LEMMA StartsApart ==
    ASSUME CodeInv, NEW a \in prog.starts
    PROVE  /\ prog.insn[a].kind \notin Unfollowed
           /\ prog.insn[a].kind \in Direct => prog.insn[a].to \in prog.starts
           /\ InProgram(a + prog.insn[a].len)
           /\ \A b \in Addr : a < b /\ b < a + prog.insn[a].len =>
                 /\ b \notin prog.starts /\ mem[b] = "orig"
                 /\ prog.insn[a].kind \in Indirect => Realigns(prog, a, b)
BY DEF CodeInv, Followed, InProgram, SitesKnown

(* The instructions of the program decode as themselves, or as the trap.   *)
LEMMA DecodedAtStart ==
    ASSUME CodeInv, NEW a \in prog.starts, NEW d \in Decodings(mem, a)
    PROVE  \/ mem[a] = "orig" /\ d = prog.insn[a]
           \/ mem[a] = "cc" /\ d = Int3
<1>1. a \in Addr /\ a \in Nat
  BY StartsInCode, InsnAt DEF CodeInv
<1>2. CASE mem[a] = "orig"
  <2>1. Intact(mem, a)
    <3> SUFFICES ASSUME NEW b \in a .. a + prog.insn[a].len - 1, b \in Addr, b # a
                 PROVE  mem[b] = "orig"
      BY <1>2 DEF Intact
    <3>1. a < b /\ b < a + prog.insn[a].len
      BY <1>1, InsnAt DEF CodeInv
    <3> QED
      BY <3>1, StartsApart
  <2> QED
    BY <1>1, <1>2, <2>1 DEF Decodings
<1>3. CASE mem[a] # "orig"
  BY <1>1, <1>3 DEF Decodings, CodeInv, SitesKnown
<1> QED
  BY <1>2, <1>3

(* Behind the first byte of a site nothing but plain instructions decode. *)
LEMMA DecodedInSite ==
    ASSUME CodeInv, NEW a \in prog.starts, prog.insn[a].kind \in Indirect,
           NEW c \in Addr, a < c, c < a + prog.insn[a].len, NEW d \in Decodings(mem, c)
    PROVE  d = prog.insn[c] /\ Realigns(prog, a, c)
<1>1. a \in Addr /\ a \in Nat /\ c \in Nat
  BY StartsInCode, InsnAt DEF CodeInv
<1>2. Realigns(prog, a, c) /\ mem[c] = "orig"
  BY StartsApart
<1>3. Intact(mem, c)
  <2> SUFFICES ASSUME NEW b \in c .. c + prog.insn[c].len - 1, b \in Addr
               PROVE  mem[b] = "orig"
    BY DEF Intact
  <2>1. a < b /\ b < a + prog.insn[a].len
    BY <1>1, <1>2, InsnAt DEF CodeInv, Realigns
  <2> QED
    BY <2>1, StartsApart
<1> QED
  BY <1>2, <1>3 DEF Decodings

(* A scan that is on course stays so, and steps over no instruction.       *)
LEMMA Sweep ==
    ASSUME CodeInv, NEW c \in Nat, OnCourse(c), c # 0, NEW d \in Decodings(mem, c)
    PROVE  /\ d.len \in Nat \ {0} /\ (c \in Addr => d.len <= MaxLen)
           /\ c \notin Addr => d.len = 1
           /\ OnCourse(c + d.len)
           /\ \A x \in prog.starts : x <= c \/ x >= c + d.len
           /\ c \notin prog.starts => d.kind = "op"
<1>0. MaxAddr \in Nat /\ MaxLen \in Nat \ {0}
  BY AnalyzerAssumption
<1>1. \A x \in prog.starts : x \in Addr /\ x \in Nat
  BY StartsInCode, InsnAt DEF CodeInv
<1>2. CASE c > MaxAddr
  <2>1. c \notin Addr
    BY <1>0, <1>2 DEF Addr
  <2>2. d = Plain(1)
    BY <2>1 DEF Decodings
  <2>3. d.len = 1 /\ d.kind = "op" /\ c + 1 > MaxAddr
    BY <1>0, <1>2, <2>2 DEF Plain
  <2>4. \A x \in prog.starts : x <= c
    BY <1>0, <1>1, <1>2 DEF Addr
  <2> QED
    BY <2>1, <2>3, <2>4 DEF OnCourse
<1>3. CASE c \in prog.starts
  <2>1. c \in Addr /\ prog.insn[c].len \in Nat \ {0} /\ prog.insn[c].len <= MaxLen
    BY <1>1, <1>3, InsnAt DEF CodeInv
  <2>2. CASE d = prog.insn[c]
    <3>1. OnCourse(c + d.len)
      BY <1>3, <2>2, StartsApart DEF OnCourse, InProgram
    <3>2. \A x \in prog.starts : x <= c \/ x >= c + d.len
      BY <1>1, <1>3, <2>1, <2>2, StartsApart
    <3> QED
      BY <1>3, <2>1, <2>2, <3>1, <3>2
  <2>3. CASE d = Int3 /\ mem[c] = "cc"
    <3>1. d.len = 1 /\ prog.insn[c].kind \in Indirect
      BY <2>1, <2>3 DEF Int3, CodeInv, SitesKnown
    <3>2. OnCourse(c + 1)
      <4>1. CASE prog.insn[c].len = 1
        BY <1>3, <4>1, StartsApart DEF OnCourse, InProgram
      <4>2. CASE prog.insn[c].len # 1
        BY <1>3, <2>1, <3>1, <4>2 DEF OnCourse
      <4> QED
        BY <4>1, <4>2
    <3> QED
      BY <1>0, <1>1, <1>3, <2>1, <3>1, <3>2
  <2> QED
    BY <1>3, <2>2, <2>3, DecodedAtStart
<1>4. CASE c <= MaxAddr /\ c \notin prog.starts
  <2>1. PICK a \in prog.starts :
           prog.insn[a].kind \in Indirect /\ a < c /\ c < a + prog.insn[a].len
    BY <1>0, <1>4 DEF OnCourse
  <2>2. c \in Addr
    BY <1>0, <1>4 DEF Addr
  <2>3. d = prog.insn[c] /\ d.kind = "op" /\ c + d.len <= a + prog.insn[a].len
    BY <2>1, <2>2, DecodedInSite DEF Realigns
  <2>4. /\ d.len \in Nat \ {0} /\ d.len <= MaxLen /\ a \in Nat
        /\ prog.insn[a].len \in Nat \ {0}
    BY <1>1, <2>2, <2>3, InsnAt DEF CodeInv
  <2>5. OnCourse(c + d.len)
    <3>1. CASE c + d.len = a + prog.insn[a].len
      BY <3>1, StartsApart DEF OnCourse, InProgram
    <3>2. CASE c + d.len # a + prog.insn[a].len
      <4>1. a < c + d.len /\ c + d.len < a + prog.insn[a].len
        BY <2>1, <2>3, <2>4, <3>2
      <4> QED
        BY <2>1, <4>1 DEF OnCourse
    <3> QED
      BY <3>1, <3>2
  <2>6. \A x \in prog.starts : x <= c \/ x >= c + d.len
    <3> SUFFICES ASSUME NEW x \in prog.starts, x > c, x < c + d.len PROVE FALSE
      BY <1>1, <2>4
    <3>1. x \in Addr /\ a < x /\ x < a + prog.insn[a].len
      BY <1>1, <2>1, <2>3, <2>4
    <3> QED
      BY <3>1, StartsApart
  <2> QED
    BY <1>4, <2>2, <2>3, <2>4, <2>5, <2>6
<1> QED
  BY <1>0, <1>2, <1>3, <1>4

LEMMA ClosedTypes ==
    ASSUME ClosedInv
    PROVE  /\ TypeInv /\ RangeInv /\ CodeInv /\ Followed(prog) /\ NO_BOUND >= Window
           /\ insnEnd \in Nat /\ lowerVal \in Nat /\ base \in Nat /\ walk.key \in Nat
           /\ Window \in Nat /\ WindowEnd = lowerVal + Window
           /\ \A x \in prog.starts : x \in Addr /\ x \in Nat \ {0} /\ x <= MaxAddr
           /\ Entries(prog) \subseteq prog.starts
<1>1. TypeInv /\ RangeInv /\ CodeInv /\ Followed(prog) /\ NO_BOUND >= Window /\ SightInv
  BY DEF ClosedInv, SightInv, ListInv, CodeInv, RangeInv
<1>2. \A x \in prog.starts : x \in Addr /\ x \in Nat \ {0} /\ x <= MaxAddr
  BY <1>1, StartsInCode, InsnAt
<1>3. Entries(prog) \subseteq prog.starts
  BY <1>1 DEF Entries, Followed
<1> QED
  BY <1>1, <1>2, <1>3, ScanTypes DEF WindowEnd

(* A scan that is at the end of its window is past the code.               *)
LEMMA WindowReaches ==
    ASSUME ClosedInv, pc = "scan", insnEnd >= WindowEnd
    PROVE  insnEnd > MaxAddr
<1>1. /\ lowerVal \in Entries(prog) /\ lowerVal \in Nat /\ insnEnd \in Nat
      /\ insnEnd >= lowerVal + Window
  BY ClosedTypes DEF ClosedInv, EntriesKnown, Scanning
<1>2. CASE lowerVal + Window >= MaxAddr + MaxLen
  BY <1>1, <1>2, Numbers, AnalyzerAssumption
<1>3. ASSUME NEW e \in prog.starts, lowerVal <= e, e + prog.insn[e].len <= lowerVal + Window,
             prog.insn[e].kind \in {"ret", "jmp"}
      PROVE  FALSE
  <2>1. e \in Nat /\ prog.insn[e].len \in Nat \ {0}
    BY ClosedTypes, InsnAt
  <2>2. e < insnEnd
    BY <1>1, <1>3, <2>1, Numbers
  <2> QED
    BY <1>3, <2>2 DEF ClosedInv, ScanKnown
<1> QED
  BY <1>1, <1>2, <1>3, ClosedTypes DEF CodeInv, Fits

(* What printDis sees: the window cuts nothing off. *)
LEMMA ScanSees ==
    ASSUME ClosedInv, pc = "scan", insnEnd < WindowEnd, NEW d \in Disassemblies
    PROVE  /\ d.len \in Nat \ {0}
           /\ OnCourse(insnEnd + d.len)
           /\ \A x \in prog.starts : x <= insnEnd \/ x >= insnEnd + d.len
           /\ d.kind = "op" \/ insnEnd \in prog.starts
           /\ insnEnd \in prog.starts =>
                 \/ mem[insnEnd] = "orig" /\ d = prog.insn[insnEnd]
                 \/ mem[insnEnd] = "cc" /\ d = Int3
<1>0. /\ CodeInv /\ lowerVal \in Nat \ {0} /\ insnEnd \in Nat /\ lowerVal <= insnEnd
      /\ insnEnd # 0
      /\ WindowEnd = lowerVal + Window /\ OnCourse(insnEnd)
  <2>1. lowerVal \in prog.starts /\ OnCourse(insnEnd)
    BY ClosedTypes DEF ClosedInv, EntriesKnown, Scanning, ScanKnown
  <2>2. lowerVal <= insnEnd
    BY ClosedTypes DEF RangeInv, Scanning
  <2> QED
    BY <2>1, <2>2, ClosedTypes
<1>1. PICK e \in Decodings(mem, insnEnd) : d = Truncate(e)
  BY DEF Disassemblies
<1>2. /\ e.len \in Nat \ {0} /\ (insnEnd \in Addr => e.len <= MaxLen)
      /\ insnEnd \notin Addr => e.len = 1
      /\ OnCourse(insnEnd + e.len)
      /\ \A x \in prog.starts : x <= insnEnd \/ x >= insnEnd + e.len
      /\ insnEnd \notin prog.starts => e.kind = "op"
  BY <1>0, Sweep
<1>3. insnEnd + e.len <= WindowEnd
  <2>1. lowerVal \in Entries(prog)
    BY DEF ClosedInv, EntriesKnown, Scanning
  <2>2. CASE insnEnd \notin Addr
    BY <1>0, <1>2, <2>2, ClosedTypes
  <2>3. CASE insnEnd \in Addr /\ lowerVal + Window >= MaxAddr + MaxLen
    <3>1. insnEnd <= MaxAddr
      BY <2>3, ClosedTypes, InsnAt
    <3> QED
      BY <1>0, <1>2, <2>3, <3>1, Numbers, ClosedTypes
  <2>4. ASSUME NEW r \in prog.starts, lowerVal <= r, r + prog.insn[r].len <= lowerVal + Window,
               prog.insn[r].kind \in {"ret", "jmp"}
        PROVE  insnEnd + e.len <= WindowEnd
    <3>1. r \in Addr /\ r \in Nat /\ prog.insn[r].len \in Nat \ {0}
      BY ClosedTypes, InsnAt
    <3>2. r >= insnEnd
      BY <1>0, <2>4, <3>1 DEF ClosedInv, ScanKnown
    <3>3. CASE r = insnEnd
      <4>1. e = prog.insn[r] \/ (e = Int3 /\ mem[r] = "cc")
        BY <1>0, <1>1, <3>3, DecodedAtStart
      <4>2. mem[r] = "orig"
        BY <2>4, <3>1, ClosedTypes DEF CodeInv, SitesKnown, Indirect
      <4> QED
        BY <1>0, <2>4, <3>1, <3>3, <4>1, <4>2
    <3>4. CASE r # insnEnd
      <4>1. r >= insnEnd + e.len
        BY <1>0, <1>2, <3>1, <3>2, <3>4
      <4> QED
        BY <1>0, <1>2, <2>4, <3>1, <4>1, ClosedTypes
    <3> QED
      BY <3>3, <3>4
  <2> QED
    BY <2>1, <2>2, <2>3, <2>4, ClosedTypes DEF CodeInv, Fits
<1>4. d = e
  <2>1. ~(insnEnd + e.len > WindowEnd)
    BY <1>0, <1>2, <1>3, ClosedTypes
  <2> QED
    BY <1>1, <2>1 DEF Truncate
<1>5. insnEnd \in prog.starts =>
        \/ mem[insnEnd] = "orig" /\ d = prog.insn[insnEnd]
        \/ mem[insnEnd] = "cc" /\ d = Int3
  BY <1>0, <1>1, <1>4, DecodedAtStart
<1> QED
  BY <1>2, <1>4, <1>5

(* The handler finds its byte, and a site with the target it reads.        *)
LEMMA TrapKnown ==
    ASSUME ClosedInv, Trapped
    PROVE  /\ ip \in prog.starts /\ ip \in Addr
           /\ restored = [mem EXCEPT ![ip] = "orig"]
           /\ ~TrapElsewhere
<1>1. pc = "user" /\ ip \in Addr /\ ip \in prog.starts
  <2>1. pc = "user" /\ ip \in Addr
    BY DEF Trapped
  <2>2. ip <= MaxAddr /\ ip \in Nat /\ MaxAddr \in Nat
    BY <2>1, InsnAt, ClosedTypes, Numbers
  <2> QED
    BY <2>1, <2>2 DEF ClosedInv, RunKnown, InProgram
<1>2. mem[ip] = "cc" /\ prog.insn[ip].kind \in Indirect
  <2>1. prog.insn[ip].kind # "int3"
    BY <1>1, StartsApart, ClosedTypes DEF Unfollowed
  <2>2. mem[ip] # "orig"
    BY <1>1, <2>1, DecodedAtStart, ClosedTypes DEF Trapped
  <2> QED
    BY <1>1, <2>2, ClosedTypes DEF CodeInv, SitesKnown
<1>3. ip \in DOMAIN originalStartBytes /\ originalStartBytes[ip] = "orig"
  <2>1. ip \in DOMAIN originalStartBytes
    BY <1>1, <1>2 DEF ClosedInv, TrapInv, TrapsRecorded
  <2> QED
    BY <2>1, ClosedTypes DEF TypeInv, TypeOK
<1>4. restored = [mem EXCEPT ![ip] = "orig"]
  BY <1>3 DEF restored, hashtable_find
<1>5. Decodings(restored, ip) = {prog.insn[ip]}
  <2>1. restored[ip] = "orig"
    BY <1>1, <1>4, ClosedTypes DEF TypeInv, TypeOK
  <2>2. Intact(restored, ip)
    <3> SUFFICES ASSUME NEW b \in ip .. ip + prog.insn[ip].len - 1, b \in Addr, b # ip
                 PROVE  restored[b] = "orig"
      BY <2>1 DEF Intact
    <3>1. ip < b /\ b < ip + prog.insn[ip].len
      BY <1>1, InsnAt, ClosedTypes
    <3>2. mem[b] = "orig"
      BY <1>1, <3>1, StartsApart, ClosedTypes
    <3>3. restored[b] = mem[b]
      BY <1>4, ClosedTypes DEF TypeInv, TypeOK
    <3> QED
      BY <3>2, <3>3
  <2> QED
    BY <1>1, <2>1, <2>2 DEF Decodings
<1>6. ip \notin prog.misread
  BY ClosedTypes DEF Followed
<1> QED
  BY <1>1, <1>2, <1>4, <1>5, <1>6 DEF TrapElsewhere

LEMMA ProgStays == ASSUME Next PROVE prog' = prog
BY DEF Next, Analyze, Trap, Run, PrintDis, FindMain, PopAddress, FindTurn, FindNull,
       FindVacancy, WorkDone, ScanExhausted, ScanPastBound, RecordStartByte, InsertRange,
       ScanRet, ScanPlain, ScanCall, ScanJump, ScanIndirect, Inspect, EnterHandler,
       TrapAtSite, TrapElsewhere, TrapFails, UserStep, MainReturns, Crash,
       HandlerHitsTrap, Stopped, vars

LEMMA InspectedGrows == ASSUME Next PROVE inspected \subseteq inspected'
BY DEF Next, Analyze, Trap, Run, PrintDis, FindMain, PopAddress, FindTurn, FindNull,
       FindVacancy, WorkDone, ScanExhausted, ScanPastBound, RecordStartByte, InsertRange,
       ScanRet, ScanPlain, ScanCall, ScanJump, ScanIndirect, Inspect, EnterHandler,
       TrapAtSite, TrapElsewhere, TrapFails, UserStep, MainReturns, Crash,
       HandlerHitsTrap, Stopped, vars

LEMMA InspectedAtStays ==
    ASSUME Next, NEW x, InspectedAt(x)
    PROVE  InspectedAt(x)'
BY ProgStays, InspectedGrows DEF InspectedAt, Seen

LEMMA PushedStays ==
    ASSUME Next, NEW x, PushedByInspected(x)
    PROVE  PushedByInspected(x)'
BY InspectedGrows DEF PushedByInspected

LEMMA SitesStep ==
    ASSUME ClosedInv, Next
    PROVE  SitesKnown'
<1>0. prog' = prog /\ SitesKnown /\ CodeInv /\ mem \in [Addr -> {"orig", "cc", "zero"}]
  BY ProgStays, ClosedTypes DEF CodeInv, TypeInv, TypeOK
<1>1. CASE mem' = mem
  BY <1>0, <1>1, InspectedAtStays DEF SitesKnown
<1>2. ASSUME NEW d \in Disassemblies, ScanIndirect(d) PROVE SitesKnown'
  <2>1. /\ pc = "scan" /\ insnEnd < WindowEnd /\ d.kind \in Indirect
        /\ Seen(insnEnd, d) \in inspected'
        /\ mem' = mem \/ mem' = [mem EXCEPT ![insnEnd] = "cc"]
    BY <1>2 DEF ScanIndirect, Inspect, Plants
  <2>2. insnEnd \in prog.starts /\ d = prog.insn[insnEnd]
    BY <2>1, ScanSees DEF Indirect, Int3
  <2>0. PICK c : c = insnEnd
    OBVIOUS
  <2>3. InspectedAt(c)'
    BY <1>0, <2>0, <2>1, <2>2 DEF InspectedAt, Seen
  <2>4. CASE mem' = [mem EXCEPT ![insnEnd] = "cc"]
    <3>1. ASSUME NEW a \in Addr, a # c, mem'[a] # "orig"
          PROVE  /\ mem'[a] = "cc" /\ a \in prog.starts
                 /\ prog.insn[a].kind \in Indirect /\ InspectedAt(a)'
      <4>1. mem'[a] = mem[a]
        BY <1>0, <2>0, <2>4, <3>1
      <4> QED
        BY <1>0, <3>1, <4>1, InspectedAtStays DEF SitesKnown
    <3>2. mem'[c] = "cc"
      BY <1>0, <2>0, <2>2, <2>4, ClosedTypes
    <3> QED
      BY <1>0, <2>0, <2>1, <2>2, <2>3, <3>1, <3>2 DEF SitesKnown
  <2> QED
    BY <1>1, <2>1, <2>4
<1>3. CASE TrapAtSite
  <2>1. Trapped /\ mem' = restored
    BY <1>3 DEF TrapAtSite, EnterHandler
  <2>2. ip \in Addr /\ mem' = [mem EXCEPT ![ip] = "orig"]
    BY <2>1, TrapKnown
  <2>3. \A a \in Addr : mem'[a] # "orig" => mem'[a] = mem[a]
    BY <1>0, <2>2
  <2> QED
    BY <1>0, <2>3, InspectedAtStays DEF SitesKnown
<1>4. CASE mem' # mem /\ ~TrapAtSite /\ ~ \E d \in Disassemblies : ScanIndirect(d)
  <2>1. TrapElsewhere
    BY <1>4 DEF Next, Analyze, Trap, Run, PrintDis, FindMain, PopAddress, FindTurn, FindNull,
       FindVacancy, WorkDone, ScanExhausted, ScanPastBound, RecordStartByte, InsertRange,
       ScanRet, ScanPlain, ScanCall, ScanJump, TrapFails, UserStep, MainReturns, Crash,
       HandlerHitsTrap, Stopped, vars, codeVars
  <2> QED
    BY <2>1, TrapKnown DEF TrapElsewhere, EnterHandler
<1> QED
  BY <1>1, <1>2, <1>3, <1>4

(* All targets are instructions of the program. *)
LEMMA TargetsStart ==
    ASSUME ClosedInv
    PROVE  Targets \subseteq prog.runtime /\ prog.runtime \subseteq prog.starts
BY ClosedTypes DEF Targets, Followed, ClosedInv, RunKnown

LEMMA ListOfEntries ==
    ASSUME ClosedInv, Next
    PROVE  addressList' \in Seq(Entries(prog))
<1>0. addressList \in Seq(Entries(prog))
  BY DEF ClosedInv, EntriesKnown
<1>1. \A t \in Entries(prog) : list_insert(addressList, t) \in Seq(Entries(prog))
  BY <1>0, ListInsert
<1>2. CASE FindMain
  BY <1>0, <1>1, <1>2, ClosedTypes DEF FindMain, Followed, Entries
<1>3. CASE PopAddress \/ WorkDone
  BY <1>0, <1>3, ListRest DEF PopAddress, WorkDone
<1>4. ASSUME NEW d \in Disassemblies, ScanCall(d) \/ ScanJump(d)
      PROVE  addressList' \in Seq(Entries(prog))
  <2>1. /\ pc = "scan" /\ insnEnd < WindowEnd /\ addressList' = list_insert(addressList, Target(d))
        /\ d.kind \in Direct \cup {"rcall"}
    BY <1>4 DEF ScanCall, ScanJump, Inspect, ListsTarget, Direct
  <2>2. insnEnd \in prog.starts /\ d = prog.insn[insnEnd]
    BY <2>1, ScanSees DEF Direct, Int3
  <2>3. d.kind \notin Unfollowed /\ (d.kind \in Direct => d.to \in Entries(prog))
    BY <2>2, StartsApart, ClosedTypes DEF Entries
  <2>4. Target(d) \in Entries(prog)
    BY <2>1, <2>3 DEF Target, Unfollowed, Direct
  <2> QED
    BY <1>1, <2>1, <2>4
<1>5. CASE TrapAtSite
  BY <1>1, <1>5, TargetsStart DEF TrapAtSite, Entries
<1>6. CASE TrapElsewhere
  BY <1>6, TrapKnown DEF TrapElsewhere, EnterHandler
<1>7. CASE MainReturns
  BY <1>7 DEF MainReturns
<1>8. CASE addressList' = addressList
  BY <1>0, <1>8
<1> QED
  BY <1>2, <1>3, <1>4, <1>5, <1>6, <1>7, <1>8
     DEF Next, Analyze, Trap, Run, PrintDis, FindTurn, FindNull, FindVacancy,
       ScanExhausted, ScanPastBound, RecordStartByte, InsertRange,
       ScanRet, ScanPlain, ScanIndirect, TrapFails, UserStep, Crash,
       HandlerHitsTrap, Stopped, vars

(* Steps that neither search, scan nor insert. *)
LEMMA OtherSteps ==
    ASSUME Next, ~PopAddress, ~FindTurn, ~FindVacancy, ~ScanStep
    PROVE  /\ pc' \notin {"find", "scan", "record", "insert"}
           /\ tree' = tree
BY DEF Next, Analyze, Trap, Run, PrintDis, ScanStep, FindMain, FindNull, WorkDone,
       TrapAtSite, TrapElsewhere, TrapFails, EnterHandler, Trapped, UserStep, MainReturns, Crash,
       HandlerHitsTrap, Stopped, StoppedPc, AnalysisPc, vars, treeVars

(* Steps of a scan, other than the last. *)
LEMMA ScanLocal ==
    ASSUME ScanStep, ~InsertRange
    PROVE  Scanning /\ UNCHANGED <<tree, data, lowerVal>> /\ pc' # "find"
BY DEF ScanStep, ScanExhausted, ScanPastBound, RecordStartByte, ScanRet, ScanPlain, ScanCall,
       ScanJump, ScanIndirect, Inspect, Scanning, treeVars, scanVars

LEMMA Inserted ==
    ASSUME ClosedInv, InsertRange
    PROVE  /\ DOMAIN tree' = DOMAIN tree \cup {data.at}
           /\ tree'[data.at] = [lower |-> lowerVal, upper |-> base]
           /\ \A q \in DOMAIN tree : tree'[q] = tree[q]
           /\ pc = "insert" /\ pc' = "pop"
<1>1. /\ data.at \in Position /\ data.at \notin DOMAIN tree
      /\ Attach(data.at, lowerVal, base) /\ TreeTypeOK /\ Rooted
  BY ClosedTypes DEF InsertRange, RangeInv, TreeInv, Scanning, VacantFor, direct_boundTree_insert
<1> QED
  BY <1>1, AttachAdds DEF InsertRange

LEMMA EntriesStep ==
    ASSUME ClosedInv, Next
    PROVE  EntriesKnown'
<1>0. prog' = prog /\ EntriesKnown
  BY ProgStays DEF ClosedInv
<1>1. addressList' \in Seq(Entries(prog))
  BY ListOfEntries
<1>2. CASE PopAddress
  <2>1. list_pop(addressList) \in Entries(prog)
    BY <1>0, <1>2, ListRest DEF PopAddress, EntriesKnown
  <2> QED
    BY <1>0, <1>1, <1>2, <2>1 DEF PopAddress, StartWalk, EntriesKnown, Scanning
<1>3. CASE FindTurn
  BY <1>0, <1>1, <1>3 DEF FindTurn, Turn, TurnLeft, TurnRight, EntriesKnown, Scanning
<1>4. CASE FindVacancy
  BY <1>0, <1>1, <1>4 DEF FindVacancy, EntriesKnown, Scanning
<1>5. CASE InsertRange
  BY <1>0, <1>1, <1>5, Inserted DEF EntriesKnown, Scanning
<1>6. CASE ScanStep /\ ~InsertRange
  BY <1>0, <1>1, <1>6, ScanLocal DEF EntriesKnown
<1>7. CASE ~PopAddress /\ ~FindTurn /\ ~FindVacancy /\ ~ScanStep
  BY <1>0, <1>1, <1>7, OtherSteps DEF EntriesKnown, Scanning
<1> QED
  BY <1>2, <1>3, <1>4, <1>5, <1>6, <1>7

LEMMA BoundStep ==
    ASSUME ClosedInv, Next
    PROVE  BoundKnown'
<1>0. BoundKnown /\ walk.key \in Nat
  BY ClosedTypes DEF ClosedInv
<1>2. CASE PopAddress
  BY <1>2 DEF PopAddress, StartWalk, BoundKnown, Scanning, FromBound
<1>3. CASE FindTurn
  <2>1. CASE TurnLeft
    <3>1. walk.at \in DOMAIN tree /\ tree[walk.at].lower \in Nat /\ walk.key < tree[walk.at].lower
      BY <2>1, ClosedTypes DEF TurnLeft, AtNode, TypeInv, TypeOK, TreeTypeOK, AddrRange
    <3>2. walk'.key = walk.key /\ walk'.bound = tree[walk.at].lower - 1
      BY <2>1 DEF TurnLeft, BoundBefore
    <3>3. walk.key <= tree[walk.at].lower - 1
      BY <1>0, <3>1
    <3>4. FromBound(walk.bound, walk.key)'
      BY <1>3, <3>1, <3>2, <3>3 DEF FindTurn, FromBound
    <3> QED
      BY <1>3, <3>4 DEF FindTurn, BoundKnown, Scanning
  <2>2. CASE TurnRight
    BY <1>3, <2>2 DEF FindTurn, TurnRight, BoundKnown, FromBound, Scanning
  <2> QED
    BY <1>3, <2>1, <2>2 DEF FindTurn, Turn
<1>4. CASE FindVacancy
  BY <1>0, <1>4 DEF FindVacancy, boundFindReturns, BoundKnown, FromBound, Scanning
<1>5. CASE InsertRange
  BY <1>5, Inserted DEF BoundKnown, Scanning
<1>6. CASE ScanStep /\ ~InsertRange
  BY <1>0, <1>6, ScanLocal DEF BoundKnown, FromBound
<1>7. CASE ~PopAddress /\ ~FindTurn /\ ~FindVacancy /\ ~ScanStep
  BY <1>7, OtherSteps DEF BoundKnown, Scanning
<1> QED
  BY <1>2, <1>3, <1>4, <1>5, <1>6, <1>7

LEMMA RangesKnownStep ==
    ASSUME ClosedInv, Next
    PROVE  RangesKnown'
<1>0. prog' = prog /\ RangesKnown /\ ScanKnown
  BY ProgStays DEF ClosedInv
<1> SUFFICES ASSUME NEW x \in prog.starts, Covered(x)' PROVE InspectedAt(x)'
  BY <1>0 DEF RangesKnown
<1>1. CASE Covered(x)
  BY <1>0, <1>1, InspectedAtStays DEF RangesKnown
<1>2. CASE ~Covered(x)
  <2>1. InsertRange
    BY <1>2, OtherSteps, ScanLocal
       DEF Covered, PopAddress, FindTurn, FindVacancy
  <2>2. lowerVal <= x /\ x <= base /\ pc = "insert"
    BY <1>2, <2>1, Inserted DEF Covered, Inside
  <2> QED
    BY <1>0, <2>2, InspectedAtStays DEF ScanKnown
<1> QED
  BY <1>1, <1>2

(* A scan that stops past its bound stands on the range that bounds it.    *)
LEMMA StopsAtRange ==
    ASSUME ClosedInv, ScanPastBound
    PROVE  insnEnd \in prog.starts => InspectedAt(insnEnd)
<1>0. /\ insnEnd \in Nat /\ lowerVal \in Nat /\ pc = "scan"
      /\ insnEnd < lowerVal + Window /\ insnEnd > data.bound
      /\ NO_BOUND >= Window /\ Window \in Nat /\ NO_BOUND \in Nat
  BY ClosedTypes, Numbers DEF ScanPastBound
<1>1. PICK q \in DOMAIN tree : data.bound = tree[q].lower - 1 /\ lowerVal <= data.bound
  <2>1. FromBound(data.bound, lowerVal)
    BY <1>0 DEF ClosedInv, BoundKnown, Scanning
  <2>2. data.bound # lowerVal + NO_BOUND
    BY <1>0
  <2> QED
    BY <2>1, <2>2 DEF FromBound
<1>2. tree[q].lower \in prog.starts /\ tree[q].lower \in Nat
  BY ClosedTypes DEF ClosedInv, EntriesKnown
<1>3. tree[q].lower >= insnEnd
  <2>1. tree[q].lower > data.bound
    BY <1>1, <1>2
  <2> QED
    BY <1>0, <1>2, <2>1 DEF ClosedInv, ScanKnown
<1>4. tree[q].lower = insnEnd
  BY <1>0, <1>1, <1>2, <1>3
<1>5. Covered(tree[q].lower)
  <2>1. tree[q].upper \in Nat /\ tree[q].lower <= tree[q].upper
    BY ClosedTypes DEF RangeInv, TreeInv, TreeTypeOK, AddrRange, RangesNonempty
  <2> QED
    BY <1>2, <2>1 DEF Covered, Inside
<1> QED
  BY <1>2, <1>4, <1>5 DEF ClosedInv, RangesKnown

LEMMA ScanKnownInspected ==
    ASSUME ClosedInv, Next, NEW d \in Disassemblies,
           ScanRet(d) \/ ScanPlain(d) \/ ScanCall(d) \/ ScanJump(d) \/ ScanIndirect(d)
    PROVE  ScanKnown'
<1>0. /\ pc = "scan" /\ insnEnd < WindowEnd /\ insnEnd <= data.bound
      /\ base' = insnEnd /\ insnEnd' = insnEnd + d.len
      /\ Seen(insnEnd, d) \in inspected'
      /\ UNCHANGED <<prog, data, lowerVal>>
      /\ pc' \in {"scan", "record"} => d.kind \notin {"ret", "jmp"}
  BY DEF ScanRet, ScanPlain, ScanCall, ScanJump, ScanIndirect, Inspect, treeVars, Indirect
<1>1. /\ d.len \in Nat \ {0}
      /\ OnCourse(insnEnd + d.len)
      /\ \A x \in prog.starts : x <= insnEnd \/ x >= insnEnd + d.len
      /\ insnEnd \in prog.starts =>
            \/ mem[insnEnd] = "orig" /\ d = prog.insn[insnEnd]
            \/ mem[insnEnd] = "cc" /\ d = Int3
  BY <1>0, ScanSees
<1>2. /\ insnEnd \in Nat /\ lowerVal \in Nat /\ data.bound \in Int
      /\ \A x \in prog.starts : x \in Addr /\ x \in Nat
  BY <1>0, ClosedTypes DEF TypeInv, Phase, MetaData
<1>3. PICK c : c = insnEnd
  OBVIOUS
<1>4. c \in prog.starts => InspectedAt(c)'
  <2>1. CASE d = prog.insn[c]
    BY <1>0, <1>3, <2>1 DEF InspectedAt, Seen
  <2>2. CASE c \in prog.starts /\ mem[c] = "cc"
    BY <1>2, <2>2, ClosedTypes, InspectedAtStays DEF CodeInv, SitesKnown
  <2> QED
    BY <1>1, <1>3, <2>1, <2>2
<1>5. OnCourse(insnEnd)'
  BY <1>0, <1>1 DEF OnCourse
<1>6. base' < insnEnd'
  BY <1>0, <1>1, <1>2
<1>7. ASSUME NEW x \in prog.starts, lowerVal <= x, x < insnEnd + d.len
      PROVE  InspectedAt(x)'
  <2>1. x <= c
    BY <1>1, <1>2, <1>3, <1>7
  <2>2. CASE x = c
    BY <1>4, <2>2
  <2>3. CASE x # c
    <3>1. x < insnEnd
      BY <1>2, <1>3, <2>1, <2>3
    <3>2. InspectedAt(x)
      BY <1>0, <1>7, <3>1 DEF ClosedInv, ScanKnown
    <3> QED
      BY <3>2, InspectedAtStays
  <2> QED
    BY <2>2, <2>3
<1>8. ASSUME NEW x \in prog.starts, x > data.bound PROVE x >= insnEnd + d.len
  BY <1>0, <1>1, <1>2, <1>8
<1>9. ASSUME NEW x \in prog.starts, lowerVal <= x, x <= insnEnd
      PROVE  InspectedAt(x)'
  BY <1>1, <1>2, <1>7, <1>9
<1>10. ASSUME pc' \in {"scan", "record"}, NEW x \in prog.starts, lowerVal <= x, x < insnEnd + d.len
       PROVE  prog.insn[x].kind \notin {"ret", "jmp"}
  <2>1. CASE x = c /\ d = prog.insn[c]
    BY <1>0, <1>10, <2>1
  <2>2. CASE x = c /\ mem[c] = "cc"
    BY <1>2, <1>10, <2>2, ClosedTypes DEF CodeInv, SitesKnown, Indirect
  <2>3. CASE x # c
    <3>1. x < insnEnd
      BY <1>1, <1>2, <1>3, <1>10, <2>3
    <3> QED
      BY <1>0, <1>10, <3>1 DEF ClosedInv, ScanKnown
  <2> QED
    BY <1>1, <1>3, <1>10, <2>1, <2>2, <2>3
<1> QED
  BY <1>0, <1>5, <1>6, <1>7, <1>8, <1>9, <1>10 DEF ScanKnown

LEMMA ScanKnownStep ==
    ASSUME ClosedInv, Next
    PROVE  ScanKnown'
<1>0. /\ prog' = prog /\ ScanKnown
      /\ insnEnd \in Nat /\ lowerVal \in Nat /\ base \in Nat /\ walk.key \in Nat
      /\ \A x \in prog.starts : x \in Nat
  BY ProgStays, ClosedTypes DEF ClosedInv
<1>1. CASE FindVacancy
  <2>1. /\ pc = "find" /\ pc' = "scan" /\ insnEnd' = walk.key /\ lowerVal' = walk.key
        /\ data'.bound = walk.bound
    BY <1>1 DEF FindVacancy, boundFindReturns
  <2>2. walk.key \in prog.starts /\ FromBound(walk.bound, walk.key)
    BY <2>1, ClosedTypes DEF ClosedInv, EntriesKnown, BoundKnown
  <2>3. walk.bound >= walk.key /\ walk.bound \in Int
    <3>1. CASE walk.bound = walk.key + NO_BOUND
      BY <1>0, <3>1, NoBoundAssumption
    <3>2. CASE \E q \in DOMAIN tree : walk.bound = tree[q].lower - 1 /\ walk.key <= walk.bound
      <4>1. walk.bound \in Int
        BY ClosedTypes DEF TypeInv, TypeOK, TreeTypeOK, Walk
      <4> QED
        BY <1>0, <3>2, <4>1
    <3> QED
      BY <2>2, <3>1, <3>2 DEF FromBound
  <2>4. OnCourse(insnEnd)'
    BY <1>0, <2>1, <2>2 DEF OnCourse
  <2>5. \A x \in prog.starts : x > walk.bound => x >= walk.key
    BY <1>0, <2>3
  <2>6. \A x \in prog.starts : ~(walk.key <= x /\ x < walk.key)
    BY <1>0
  <2> QED
    BY <1>0, <2>1, <2>4, <2>5, <2>6 DEF ScanKnown
<1>2. CASE ScanExhausted
  <2>1. /\ pc = "scan" /\ pc' = "insert" /\ insnEnd >= lowerVal + Window
        /\ UNCHANGED <<lowerVal, base>> /\ Window \in Nat \ {0}
    BY <1>2, ClosedTypes, AnalyzerAssumption DEF ScanExhausted, scanVars
  <2>2. base < insnEnd
    BY <1>0, <2>1 DEF ScanKnown
  <2>3. ASSUME NEW x \in prog.starts, lowerVal <= x, x <= base PROVE InspectedAt(x)'
    <3>1. x < insnEnd
      BY <1>0, <2>2, <2>3
    <3> QED
      BY <1>0, <2>1, <2>3, <3>1, InspectedAtStays DEF ScanKnown
  <2> QED
    BY <1>0, <2>1, <2>3 DEF ScanKnown
<1>3. CASE ScanPastBound
  <2>1. pc = "scan" /\ pc' = "insert" /\ base' = insnEnd /\ lowerVal' = lowerVal
    BY <1>3 DEF ScanPastBound
  <2>2. ASSUME NEW x \in prog.starts, lowerVal <= x, x <= insnEnd PROVE InspectedAt(x)'
    <3>1. CASE x = insnEnd
      BY <1>3, <3>1, StopsAtRange, InspectedAtStays
    <3>2. CASE x # insnEnd
      <4>1. x < insnEnd
        BY <1>0, <2>2, <3>2
      <4> QED
        BY <1>0, <2>1, <2>2, <4>1, InspectedAtStays DEF ScanKnown
    <3> QED
      BY <3>1, <3>2
  <2> QED
    BY <1>0, <2>1, <2>2 DEF ScanKnown
<1>4. CASE RecordStartByte
  <2>1. /\ pc = "record" /\ pc' \in {"scan", "insert"}
        /\ UNCHANGED <<lowerVal, base, insnEnd, data>>
    BY <1>4 DEF RecordStartByte, scanVars, treeVars
  <2>2. OnCourse(insnEnd)'
    BY <1>0, <2>1 DEF ScanKnown, OnCourse
  <2>3. ASSUME NEW x \in prog.starts, lowerVal <= x, x < insnEnd
        PROVE  InspectedAt(x)' /\ prog.insn[x].kind \notin {"ret", "jmp"}
    BY <1>0, <2>1, <2>3, InspectedAtStays DEF ScanKnown
  <2>4. \A x \in prog.starts : x <= base => x < insnEnd
    BY <1>0, <2>1 DEF ScanKnown
  <2> QED
    BY <1>0, <2>1, <2>2, <2>3, <2>4 DEF ScanKnown
<1>5. CASE InsertRange
  BY <1>5, Inserted DEF ScanKnown
<1>6. CASE \E d \in Disassemblies :
             ScanRet(d) \/ ScanPlain(d) \/ ScanCall(d) \/ ScanJump(d) \/ ScanIndirect(d)
  BY <1>6, ScanKnownInspected
<1>7. CASE PopAddress \/ FindTurn
  BY <1>7 DEF PopAddress, FindTurn, ScanKnown
<1>8. CASE ~PopAddress /\ ~FindTurn /\ ~FindVacancy /\ ~ScanStep
  BY <1>8, OtherSteps DEF ScanKnown
<1> QED
  BY <1>1, <1>2, <1>3, <1>4, <1>5, <1>6, <1>7, <1>8 DEF ScanStep

(* Past its window a scan has no code before it, so that what is ahead of  *)
(* it stays so until it is covered.                                        *)
LEMMA ContinuesStep ==
    ASSUME ClosedInv, TypeInv', RangeInv', Next
    PROVE  ContinuesKnown'
<1> SUFFICES ASSUME pc' \notin {"exited", "killed"}, NEW s \in inspected', s.insn.kind \in GoesOn
             PROVE  \/ s.at + s.insn.len > MaxAddr
                    \/ Covered(s.at + s.insn.len)' \/ Ahead(s.at + s.insn.len)'
  BY DEF ContinuesKnown
<1>1. pc \notin {"exited", "killed"} /\ SightInv
  BY NotStopped DEF ClosedInv
<1>2. PICK x \in Nat : x = s.at + s.insn.len
  BY DEF TypeInv, TypeOK
<1>3. CASE s \in inspected
  <2>1. x > MaxAddr \/ Covered(x) \/ Ahead(x)
    BY <1>1, <1>2, <1>3 DEF ClosedInv, ContinuesKnown
  <2>2. Covered(x) => Covered(x)'
    BY <1>1, CoveredStays DEF SightInv, ListInv
  <2>3. Ahead(x) => x > MaxAddr \/ Covered(x)' \/ Ahead(x)'
    BY <1>1, AheadStays, WindowReaches DEF ScanExhausted
  <2>4. x > MaxAddr \/ Covered(x)' \/ Ahead(x)'
    BY <2>1, <2>2, <2>3
  <2> QED
    BY <1>2, <2>4 DEF Covered, Inside, Ahead
<1>4. CASE s \notin inspected
  <2>1. PICK d \in Disassemblies :
           /\ Inspect(d)
           /\ d.kind \in GoesOn => pc' = "scan" \/ (pc' = "record" /\ breakFlag')
    BY <1>4, InspectedChanges
  <2>2. s = [at |-> insnEnd, insn |-> d] /\ insnEnd' = insnEnd + d.len
    BY <1>4, <2>1 DEF Inspect, Seen
  <2> QED
    BY <2>1, <2>2 DEF Ahead
<1> QED
  BY <1>3, <1>4

(* An instruction that runs was disassembled as it is, and so was its      *)
(* successor, or it is past the code.                                      *)
LEMMA RunsInspected ==
    ASSUME ClosedInv, UserStep
    PROVE  \E d \in Decodings(mem, ip) :
              /\ Execute(d)
              /\ ip \in prog.starts /\ d = prog.insn[ip] /\ mem[ip] = "orig"
              /\ Seen(ip, d) \in inspected
<1>1. pc = "user" /\ ip \in Addr
  BY DEF UserStep
<1>2. ip \in prog.starts
  <2>1. ip <= MaxAddr /\ ip \in Nat /\ MaxAddr \in Nat
    BY <1>1, InsnAt, ClosedTypes, Numbers
  <2> QED
    BY <2>1 DEF ClosedInv, RunKnown, InProgram
<1>3. Covered(ip)
  BY <1>1 DEF ClosedInv, RunKnown, Handled, Waiting, AnalysisPc
<1>4. PICK d \in Decodings(mem, ip) : Execute(d)
  BY DEF UserStep
<1>5. mem[ip] = "orig" /\ d = prog.insn[ip]
  <2>1. d # Int3
    BY <1>4 DEF Execute, Int3
  <2> QED
    BY <1>2, <2>1, DecodedAtStart, ClosedTypes
<1>6. Seen(ip, d) \in inspected
  BY <1>2, <1>3, <1>5 DEF ClosedInv, RangesKnown, InspectedAt
<1> QED
  BY <1>2, <1>4, <1>5, <1>6

LEMMA RunUserStep ==
    ASSUME ClosedInv, Next, UserStep
    PROVE  RunKnown'
<1>0. /\ prog' = prog /\ pc = "user" /\ pc' = "user" /\ pending' = {}
      /\ tree' = tree /\ resolved' = resolved /\ ip \in Addr
  BY ProgStays DEF UserStep, treeVars
<1>1. PICK d \in Decodings(mem, ip) :
         /\ Execute(d)
         /\ ip \in prog.starts /\ d = prog.insn[ip] /\ mem[ip] = "orig"
         /\ Seen(ip, d) \in inspected
  BY RunsInspected
<1>2. /\ d.kind \notin Unfollowed /\ (d.kind \in Direct => d.to \in prog.starts)
      /\ InProgram(ip + d.len)
  BY <1>1, StartsApart, ClosedTypes
<1>3. Targets \subseteq prog.runtime /\ prog.runtime \subseteq prog.starts
  BY TargetsStart
<1>4. \A i \in DOMAIN stack : InProgram(stack[i]) /\ PushedByInspected(stack[i])
  BY DEF ClosedInv, RunKnown
<1>5. stack \in Seq(Nat) /\ ip + d.len \in Nat
  <2>1. stack \in Seq(Nat)
    BY ClosedTypes DEF TypeInv, TypeOK
  <2>2. d.len \in Nat /\ ip \in Nat
    BY <1>0, <1>1, ClosedTypes, InsnAt
  <2> QED
    BY <2>1, <2>2
<1>6. d.kind = "ret" => stack # <<>> /\ 1 \in DOMAIN stack /\ ip' = stack[1]
  BY <1>1, <1>5 DEF Execute
<1>7. InProgram(ip')
  <2>1. CASE ip' = ip + d.len
    BY <1>2, <2>1
  <2>2. CASE d.kind = "ret"
    BY <1>4, <1>6, <2>2
  <2>3. CASE ip' \in Targets
    BY <1>3, <2>3 DEF InProgram
  <2>4. CASE ip' = d.to /\ d.kind \in Direct
    BY <1>2, <2>4 DEF InProgram
  <2> QED
    BY <1>1, <1>2, <2>1, <2>2, <2>3, <2>4 DEF Execute, Direct, Unfollowed
<1>8. \A i \in DOMAIN stack' : InProgram(stack'[i]) /\ PushedByInspected(stack'[i])
  <2>1. CASE stack' = stack
    BY <1>4, <2>1
  <2>2. CASE d.kind = "ret"
    <3>1. stack' = Tail(stack) /\ stack # <<>>
      BY <1>1, <2>2 DEF Execute
    <3>2. ASSUME NEW i \in DOMAIN Tail(stack)
          PROVE  i + 1 \in DOMAIN stack /\ Tail(stack)[i] = stack[i + 1]
      BY <1>5, <3>1, <3>2
    <3> QED
      BY <1>4, <3>1, <3>2
  <2>3. CASE d.kind \in {"call", "rcall", "icall"}
    <3>1. stack' = <<ip + d.len>> \o stack
      BY <1>1, <2>3 DEF Execute
    <3>2. PushedByInspected(ip + d.len)
      BY <1>1, <2>3 DEF PushedByInspected, Seen
    <3>3. PICK x \in Nat : x = ip + d.len
      BY <1>5
    <3>4. ASSUME NEW i \in DOMAIN (<<x>> \o stack), i # 1
          PROVE  i - 1 \in DOMAIN stack /\ (<<x>> \o stack)[i] = stack[i - 1]
      BY <1>5, <3>4
    <3>5. (<<x>> \o stack)[1] = x
      BY <1>5
    <3> QED
      BY <1>2, <1>4, <3>1, <3>2, <3>3, <3>4, <3>5
  <2> QED
    BY <1>1, <2>1, <2>2, <2>3 DEF Execute
<1>9. ip' \in Addr => Covered(ip')
  <2> SUFFICES ASSUME ip' \in Addr, ~Covered(ip') PROVE FALSE
    OBVIOUS
  <2>1. ip' <= MaxAddr /\ ip' # 0 /\ ip' \in Nat /\ SightInv
    BY InsnAt, ClosedTypes DEF ClosedInv
  <2>2. CASE d.kind \in Indirect /\ pending = {}
    <3>1. ip' \in prog.runtime
      BY <1>1, <1>3, <2>2 DEF Execute, Indirect
    <3>2. ip \in resolved
      <4>1. Seen(ip, d).at = ip /\ Seen(ip, d).insn = d
        BY DEF Seen
      <4> QED
        BY <1>0, <1>1, <2>2, <4>1 DEF ClosedInv, TrapInv, SitesArmed
    <3>3. Handled(ip')
      BY <1>0, <3>1, <3>2 DEF ClosedInv, RunKnown
    <3> QED
      BY <1>0, <3>3 DEF Handled, Waiting, AnalysisPc
  <2>3. CASE d.kind = "ret" /\ ~PushedByInspected(ip')
    BY <1>4, <1>6, <2>3
  <2>4. ASSUME NEW s \in inspected, s.insn.kind \in GoesOn, ip' = s.at + s.insn.len
        PROVE  FALSE
    <3>1. ip' > MaxAddr \/ Covered(ip') \/ Ahead(ip')
      BY <1>0, <2>4 DEF ClosedInv, ContinuesKnown
    <3>2. ~Ahead(ip')
      BY <1>0 DEF Ahead, Scanning
    <3> QED
      BY <2>1, <3>1, <3>2, Numbers
  <2> QED
    BY <1>0, <1>1, <1>2, <2>1, <2>2, <2>3, <2>4, NextInSight
<1>10. InProgram(ip)' /\ (ip' \in Addr => Handled(ip)')
  BY <1>0, <1>7, <1>9 DEF InProgram, Handled, Covered
<1>11. \A i \in DOMAIN stack' : InProgram(stack[i])' /\ PushedByInspected(stack[i])'
  BY <1>0, <1>8, PushedStays DEF InProgram, PushedByInspected, UserStep
<1>12. resolved # {} => \A t \in prog.runtime : Handled(t)'
  <2> SUFFICES ASSUME resolved # {}, NEW t \in prog.runtime PROVE Handled(t)'
    OBVIOUS
  <2>1. Handled(t)
    BY <1>0 DEF ClosedInv, RunKnown
  <2> QED
    BY <1>0, <2>1 DEF Handled, Covered, Waiting, AnalysisPc
<1> QED
  BY <1>0, <1>10, <1>11, <1>12 DEF RunKnown

LEMMA RunStep ==
    ASSUME ClosedInv, RangeInv', Next
    PROVE  RunKnown'
<1>0. /\ prog' = prog /\ RunKnown /\ ListInv
      /\ \A t \in prog.runtime : t # 0
      /\ prog.symbol = prog.main
  BY ProgStays, ClosedTypes DEF ClosedInv, SightInv, Followed
<1>1. CASE UserStep
  BY <1>1, RunUserStep
<1>2. CASE TrapElsewhere
  BY <1>2, TrapKnown DEF TrapElsewhere, EnterHandler
<1>3. CASE ~UserStep /\ ~TrapElsewhere
  <2>1. /\ UNCHANGED <<ip, stack>> /\ pc' # "start"
        /\ pc' \notin {"exited", "killed"} => pc \notin {"exited", "killed"}
    BY <1>3 DEF Next, Analyze, Trap, Run, PrintDis, FindMain, PopAddress, FindTurn, FindNull,
       FindVacancy, WorkDone, ScanExhausted, ScanPastBound, RecordStartByte, InsertRange,
       ScanRet, ScanPlain, ScanCall, ScanJump, ScanIndirect, Inspect, EnterHandler, Trapped,
       TrapAtSite, TrapFails, MainReturns, Crash, HandlerHitsTrap, AnalysisPc,
       Stopped, StoppedPc, vars, userVars
  <2>2. InProgram(ip)' /\ \A i \in DOMAIN stack' : InProgram(stack[i])' /\ PushedByInspected(stack[i])'
    <3>1. \A i \in DOMAIN stack : PushedByInspected(stack[i])'
      BY <1>0, <2>1, InspectedGrows DEF RunKnown, PushedByInspected
    <3> QED
      BY <1>0, <2>1, <3>1 DEF RunKnown, InProgram
  <2>3. CASE TrapAtSite /\ pc' \notin {"exited", "killed"}
    <3>1. PICK t \in Targets : addressList' = list_insert(addressList, t) /\ pending' = {t}
      BY <2>3 DEF TrapAtSite
    <3>2. t \in prog.runtime /\ t \in Nat /\ \A u \in prog.runtime : u = t
      BY <3>1, TargetsStart, ClosedTypes DEF Followed
    <3>3. t \in ToSet(addressList')
      BY <1>0, <3>1, <3>2, ListGains
    <3>4. \A u \in prog.runtime : Handled(u)'
      BY <2>3, <3>2, <3>3 DEF TrapAtSite, Handled, Waiting, AnalysisPc
    <3>5. ip' \in Addr => Handled(ip)'
      <4>1. PICK a : a = ip
        OBVIOUS
      <4>2. pc = "user" /\ ip \in Addr
        BY <2>3 DEF TrapAtSite, EnterHandler, Trapped
      <4>3. Handled(a) /\ a # 0
        BY <1>0, <4>1, <4>2, InsnAt, ClosedTypes DEF RunKnown
      <4>4. Handled(a)'
        BY <1>0, <2>3, <4>3, HandledStays
      <4> QED
        BY <2>1, <4>1, <4>4
    <3>6. pending' \subseteq prog'.runtime
      BY <1>0, <3>1, <3>2
    <3> QED
      BY <1>0, <2>1, <2>2, <3>4, <3>5, <3>6 DEF RunKnown
  <2>4. CASE ~TrapAtSite \/ pc' \in {"exited", "killed"}
    <3>1. pending' \subseteq prog'.runtime
      BY <1>0, <1>3, TargetsStart DEF RunKnown, Next, Analyze, Trap, Run, PrintDis, FindMain,
       PopAddress, FindTurn, FindNull,
       FindVacancy, WorkDone, ScanExhausted, ScanPastBound, RecordStartByte, InsertRange,
       ScanRet, ScanPlain, ScanCall, ScanJump, ScanIndirect, Inspect, EnterHandler, Trapped,
       TrapAtSite, TrapFails, MainReturns, Crash, HandlerHitsTrap,
       Stopped, vars, userVars
    <3>2. ASSUME pc' \notin {"exited", "killed"}, resolved' # {}, NEW t \in prog.runtime
          PROVE  Handled(t)'
      <4>1. resolved' = resolved
        BY <1>3, <2>4, <3>2 DEF Next, Analyze, Trap, Run, PrintDis, FindMain,
           PopAddress, FindTurn, FindNull, FindVacancy, WorkDone, ScanExhausted, ScanPastBound,
           RecordStartByte, InsertRange, ScanRet, ScanPlain, ScanCall, ScanJump, ScanIndirect,
           Inspect, TrapFails, MainReturns, Crash, HandlerHitsTrap, Stopped, vars
      <4>2. Handled(t) /\ t # 0
        BY <1>0, <2>1, <3>2, <4>1 DEF RunKnown
      <4> QED
        BY <1>0, <3>2, <4>2, HandledStays
    <3>3. ASSUME pc' \notin {"exited", "killed"}, ip' \in Addr
          PROVE  Handled(ip)'
      <4>1. PICK a : a = ip
        OBVIOUS
      <4>2. a # 0 /\ a \in Nat
        BY <2>1, <3>3, <4>1, InsnAt, ClosedTypes
      <4>3. CASE pc # "start"
        <5>1. Handled(a)
          BY <1>0, <2>1, <3>3, <4>1, <4>3 DEF RunKnown
        <5>2. Handled(a)'
          BY <1>0, <3>3, <4>2, <5>1, HandledStays
        <5> QED
          BY <2>1, <4>1, <5>2
      <4>4. CASE pc = "start"
        <5>1. FindMain /\ pc' = "pop" /\ addressList' = list_insert(addressList, prog.symbol)
          BY <3>3, <4>4 DEF Next, Analyze, Trap, Run, PrintDis, FindMain,
             PopAddress, FindTurn, FindNull, FindVacancy, WorkDone, ScanExhausted, ScanPastBound,
             RecordStartByte, InsertRange, ScanRet, ScanPlain, ScanCall, ScanJump, ScanIndirect,
             Inspect, EnterHandler, Trapped, TrapAtSite, TrapElsewhere, TrapFails, UserStep,
             MainReturns, Crash, HandlerHitsTrap, Stopped, StoppedPc
        <5>2. prog.symbol = a
          BY <1>0, <4>1, <4>4 DEF RunKnown
        <5>3. a \in ToSet(addressList')
          BY <1>0, <4>2, <5>1, <5>2, ListGains
        <5>4. Handled(a)'
          BY <5>1, <5>3 DEF Handled, Waiting, AnalysisPc
        <5> QED
          BY <2>1, <4>1, <5>4
      <4> QED
        BY <4>3, <4>4
    <3> QED
      BY <1>0, <2>1, <2>2, <3>1, <3>2, <3>3 DEF RunKnown
  <2> QED
    BY <2>3, <2>4
<1> QED
  BY <1>1, <1>2, <1>3

LEMMA ClosedInit ==
    ASSUME InSight(prog), Init
    PROVE  ClosedInv
<1>1. SightInv /\ TrapInv /\ TypeInv
  BY SightInit, TrapsInit, InitType
<1>2. Followed(prog) /\ Fits(prog) /\ NO_BOUND >= Window
  BY DEF InSight
<1>3. /\ mem = [a \in Addr |-> "orig"] /\ DOMAIN tree = {} /\ pc = "start" /\ inspected = {}
      /\ addressList = <<>> /\ pending = {} /\ stack = <<>> /\ resolved = {} /\ ip = prog.main
  BY DEF Init, boundTree_new
<1>4. CodeInv
  BY <1>1, <1>2, <1>3 DEF CodeInv, SitesKnown
<1>5. EntriesKnown /\ RangesKnown /\ BoundKnown /\ ScanKnown /\ ContinuesKnown
  BY <1>3 DEF EntriesKnown, RangesKnown, BoundKnown, ScanKnown, ContinuesKnown, Scanning, Covered
<1>6. RunKnown
  BY <1>2, <1>3 DEF RunKnown, InProgram, Followed
<1> QED
  BY <1>1, <1>4, <1>5, <1>6 DEF ClosedInv

LEMMA ClosedStep == ClosedInv /\ [Next]_vars => ClosedInv'
<1> SUFFICES ASSUME ClosedInv, [Next]_vars PROVE ClosedInv'
  OBVIOUS
<1>1. SightInv' /\ TrapInv' /\ TypeInv' /\ RangeInv'
  BY SightStep, TrapsStep DEF ClosedInv, SightInv, ListInv, RangeInv
<1>2. CASE Next
  <2>1. Followed(prog)' /\ Fits(prog)'
    BY <1>2, ProgStays DEF ClosedInv, CodeInv, Followed, Realigns, Fits, Entries
  <2>2. CodeInv'
    BY <1>1, <1>2, <2>1, SitesStep, ClosedTypes DEF CodeInv
  <2> QED
    BY <1>1, <1>2, <2>2, EntriesStep, BoundStep, RangesKnownStep, ScanKnownStep,
       ContinuesStep, RunStep DEF ClosedInv
<1>3. CASE UNCHANGED vars
  <2>1. CodeInv' /\ EntriesKnown' /\ RangesKnown'
    BY <1>1, <1>3, ClosedTypes DEF vars, ClosedInv, CodeInv, Followed, Realigns, Fits, Entries, SitesKnown,
       InspectedAt, EntriesKnown, RangesKnown, Covered, Scanning
  <2>2. BoundKnown' /\ ScanKnown'
    BY <1>3 DEF vars, ClosedInv, BoundKnown, FromBound, ScanKnown, OnCourse, InspectedAt, Scanning
  <2>4. ContinuesKnown'
    BY <1>3 DEF vars, ClosedInv, ContinuesKnown, Covered, Ahead, Scanning
  <2>3. RunKnown'
    BY <1>3 DEF vars, ClosedInv, RunKnown, InProgram, PushedByInspected, Handled, Covered, Waiting
  <2> QED
    BY <1>1, <2>1, <2>2, <2>3, <2>4 DEF ClosedInv
<1> QED
  BY <1>2, <1>3

(* The inductive invariant, for all programs. *)
SightedInv == InSight(prog) => ClosedInv

LEMMA SightedStep == SightedInv /\ TypeInv /\ [Next]_vars => SightedInv'
<1> SUFFICES ASSUME SightedInv, TypeInv, [Next]_vars, InSight(prog)' PROVE ClosedInv'
  BY DEF SightedInv
<1>1. prog' = prog
  <2>1. CASE Next
    BY <2>1, ProgStays
  <2>2. CASE UNCHANGED vars
    BY <2>2 DEF vars
  <2> QED
    BY <2>1, <2>2
<1>2. InSight(prog)
  BY <1>1 DEF InSight, Followed, Realigns, Fits, Entries
<1> QED
  BY <1>2, ClosedStep DEF SightedInv

(* No instruction of a program runs that printDis has not inspected, if    *)
(* the analyzer can follow the program and its scans end within the        *)
(* window: neither the window, nor bounds, nor scans that run into planted *)
(* traps, nor the order in which targets are found make it miss one.       *)
THEOREM ExecutedAlwaysInspected == Spec => []ExecutedInspected
<1>1. Init => SightedInv
  BY ClosedInit DEF SightedInv
<1>2. SightedInv => ExecutedInspected
  <2> SUFFICES ASSUME ClosedInv, pc = "user", ip \in Addr
               PROVE  \E s \in inspected : s.at = ip
    BY DEF ExecutedInspected, SightedInv
  <2>1. ip <= MaxAddr /\ ip \in Nat /\ MaxAddr \in Nat
    BY InsnAt, ClosedTypes, Numbers
  <2>2. ip \in prog.starts /\ Handled(ip)
    BY <2>1 DEF ClosedInv, RunKnown, InProgram
  <2>3. Covered(ip)
    BY <2>2 DEF Handled, Waiting, AnalysisPc
  <2>4. Seen(ip, prog.insn[ip]) \in inspected
    BY <2>2, <2>3 DEF ClosedInv, RangesKnown, InspectedAt
  <2> QED
    BY <2>4 DEF Seen
<1> QED
  BY <1>1, SightedStep, <1>2, InitType, TypeStep, PTL DEF Spec
=============================================================================
