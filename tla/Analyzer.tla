------------------------------ MODULE Analyzer ------------------------------
(***************************************************************************)
(* elf/libaddr.cc and data/trap/trap.c: the preloaded analyzer.  Before    *)
(* main it disassembles everything that direct calls and jumps reach, and  *)
(* plants a 0xCC byte on each indirect call and jump; when the program     *)
(* runs into such a byte the SIGTRAP handler puts the original byte back,  *)
(* reads the target and disassembles what it reaches in the same way.      *)
(*                                                                         *)
(* The program is single-threaded: SIGTRAP is blocked while its handler    *)
(* runs, so the handler is never re-entered and trapFlag # 0 is never      *)
(* seen by an entering handler (invariant HandlerNeverBusy).               *)
(*                                                                         *)
(* The data is abstracted as follows.  A byte of code is "orig", "cc" (a   *)
(* planted trap) or "zero" (what hashtable_find gives for a key that is    *)
(* not there).  What udis86, and the processor, decode at an address whose *)
(* bytes are intact is given by the program: an instruction has a kind, a  *)
(* length and a target.                                                    *)
(***************************************************************************)
EXTENDS BoundTree, ListSpec, HashSpec

CONSTANTS
    Programs,   \* the programs that may be analyzed
    MaxAddr,    \* their code is at the addresses 1 .. MaxAddr
    MaxLen,     \* the longest instruction
    Window,     \* the bytes printDis gives to udis86 (100)
    Garbled,    \* what an instruction decodes to with a byte of it replaced
    MaxStack    \* bound of the model: a deeper call overflows the stack

Addr == 1 .. MaxAddr

Direct == {"call", "jmp", "jcc"}        \* target in the instruction
Indirect == {"icall", "ijmp"}           \* target read when it is executed
(* call through a register; loop, jcxz and jrcxz, which printDis does not  *)
(* list; the program's own int3                                            *)
Unfollowed == {"rcall", "loop", "int3"}
Kind == {"op", "ret"} \cup Direct \cup Indirect \cup Unfollowed

Insn == [kind : Kind, len : 1 .. MaxLen, to : Addr]

(* symbol is what find_address finds for "main"; starts are the addresses  *)
(* where the program's instructions start; runtime the targets of indirect *)
(* transfers; misread the sites for which get_address computes another     *)
(* address than the processor (a negative displacement); shared the code   *)
(* that the handler itself executes, as printf or malloc.                  *)
Program == [main : Addr, symbol : Addr \cup {0}, insn : [Addr -> Insn],
            starts : SUBSET Addr, runtime : SUBSET (Addr \cup {0}),
            misread : SUBSET Addr, shared : SUBSET Addr]

ASSUME AnalyzerAssumption ==
    /\ MaxAddr \in Nat \ {0} /\ MaxLen \in Nat \ {0, 1} /\ Window \in Nat \ {0}
    /\ MaxStack \in Nat
    /\ Programs \subseteq Program
    /\ Garbled \subseteq Insn

VARIABLES
    prog,               \* the program under analysis, never changes
    mem,                \* its code bytes
    addressList,        \* address_list: what is to be disassembled
    startByteList,      \* start_byte_list: where traps were planted
    validAddressList,   \* valid_address_list: return sites
    originalStartBytes, \* original_start_bytes
    lowerVal,           \* the entry that is being disassembled
    base,               \* the instruction printDis is at
    insnEnd,            \* where udis86 decodes next
    breakFlag,          \* of printDis: goes on after this instruction
    trapFlag,
    pc,                 \* where the thread is in the analyzer, or "user"
    ctx,                \* what the analysis returns to: "main" or "sig"
    ip,                 \* the program's instruction pointer
    stack,              \* its return addresses, innermost first
    pending,            \* the target a restored instruction is about to take
    inspected,          \* history: what printDis saw
    resolved            \* history: the sites whose trap was handled

codeVars == <<mem, startByteList, originalStartBytes>>
scanVars == <<lowerVal, base, insnEnd, breakFlag>>
userVars == <<ip, stack, pending>>
handlerVars == <<trapFlag, ctx>>
vars == <<prog, mem, addressList, startByteList, validAddressList,
          originalStartBytes, tree, walk, data, lowerVal, base, insnEnd,
          breakFlag, trapFlag, pc, ctx, ip, stack, pending, inspected, resolved>>

AnalysisPc == {"start", "pop", "find", "scan", "record", "insert"}
StoppedPc == {"ended", "exited", "killed"}

---------------------------------------------------------------------------
(* What is decoded at a when the code bytes are m.  Past the program's     *)
(* code there is padding; ADD, the instruction that a zero byte starts,    *)
(* has at least two bytes.                                                 *)

Plain(n) == [kind |-> "op", len |-> n, to |-> 1]
Int3 == [kind |-> "int3", len |-> 1, to |-> 1]

Intact(m, a) == \A b \in a .. a + prog.insn[a].len - 1 : b \in Addr => m[b] = "orig"

Decodings(m, a) ==
    IF a \notin Addr THEN {Plain(1)}
    ELSE IF m[a] = "cc" THEN {Int3}
    ELSE IF m[a] = "zero" THEN {Plain(n) : n \in 2 .. MaxLen}
    ELSE IF Intact(m, a) THEN {prog.insn[a]}
    ELSE Garbled

(* printDis sees 100 bytes: an instruction that they cut is invalid, which *)
(* is decoded as one that does not transfer control.                       *)
WindowEndTooSoon == lowerVal + Window - 1     \* mutant
WindowEnd == lowerVal + Window
Truncate(d) == IF insnEnd + d.len > WindowEnd THEN Plain(WindowEnd - insnEnd) ELSE d
Disassemblies == {Truncate(d) : d \in Decodings(mem, insnEnd)}

Seen(a, d) == [at |-> a, insn |-> d]

---------------------------------------------------------------------------

Init ==
    /\ prog \in Programs
    /\ mem = [a \in Addr |-> "orig"]
    /\ addressList = <<>> /\ startByteList = <<>> /\ validAddressList = <<>>
    /\ originalStartBytes = hashtable_new
    /\ boundTree_new
    /\ walk = [key |-> 0, at |-> <<>>, bound |-> 0]
    /\ lowerVal = 0 /\ base = 0 /\ insnEnd = 0 /\ breakFlag = TRUE
    /\ trapFlag = 0 /\ pc = "start" /\ ctx = "main"
    /\ ip = prog.main /\ stack = <<>> /\ pending = {}
    /\ inspected = {} /\ resolved = {}

(* wrapped_main: the entry that find_address found, 0 when it found none;  *)
(* find_address exits when it cannot open the executable.                  *)
FindMain ==
    /\ pc = "start"
    /\ \/ addressList' = list_insert(addressList, prog.symbol) /\ pc' = "pop"
       \/ addressList' = addressList /\ pc' = "exited"
    /\ UNCHANGED <<prog, codeVars, validAddressList, treeVars, scanVars,
                   handlerVars, userVars, inspected, resolved>>

---------------------------------------------------------------------------
(* The work loop, the same in wrapped_main and in trap_handler.            *)

PopAddress ==
    /\ pc = "pop"
    /\ list_pop(addressList) # 0
    /\ addressList' = list_rest(addressList)
    /\ StartWalk(list_pop(addressList))
    /\ pc' = "find"
    /\ UNCHANGED <<prog, codeVars, validAddressList, tree, data, scanVars,
                   handlerVars, userVars, inspected, resolved>>

FindTurn ==
    /\ pc = "find"
    /\ Turn
    /\ UNCHANGED <<prog, codeVars, addressList, validAddressList, tree, data,
                   scanVars, handlerVars, pc, userVars, inspected, resolved>>

FindNull ==
    /\ pc = "find"
    /\ MeetsRange
    /\ data' = NULL
    /\ pc' = "pop"
    /\ UNCHANGED <<prog, codeVars, addressList, validAddressList, tree, walk,
                   scanVars, handlerVars, userVars, inspected, resolved>>

(* boundVal is data.bound from here on. *)
FindVacancy ==
    /\ pc = "find"
    /\ ReachesVacancy
    /\ boundFindReturns
    /\ lowerVal' = walk.key /\ base' = walk.key /\ insnEnd' = walk.key
    /\ breakFlag' = TRUE
    /\ pc' = "scan"
    /\ UNCHANGED <<prog, codeVars, addressList, validAddressList, tree, walk,
                   handlerVars, userVars, inspected, resolved>>

(* trap_handler lowers the flag it raised, wrapped_main has none to lower. *)
FlagAlwaysLowered == trapFlag - 1             \* mutant
FlagNeverLowered == trapFlag                  \* mutant
FlagLowered == IF ctx = "sig" THEN trapFlag - 1 ELSE trapFlag

(* The list is exhausted, or holds 0: the program starts, or goes on from  *)
(* the trap.                                                               *)
WorkDone ==
    /\ pc = "pop"
    /\ list_pop(addressList) = 0
    /\ addressList' = list_rest(addressList)
    /\ ctx' = "main"
    /\ trapFlag' = FlagLowered
    /\ pc' = "user"
    /\ UNCHANGED <<prog, codeVars, validAddressList, treeVars, scanVars,
                   userVars, inspected, resolved>>

---------------------------------------------------------------------------
(* printDis: one iteration of its loop for each instruction.               *)

(* ud_disassemble has no more input. *)
ScanExhausted ==
    /\ pc = "scan"
    /\ insnEnd >= WindowEnd
    /\ pc' = "insert"
    /\ UNCHANGED <<prog, codeVars, addressList, validAddressList, treeVars,
                   scanVars, handlerVars, userVars, inspected, resolved>>

(* The next instruction lies past the bound; base moves onto it all the    *)
(* same and the range will end with its first byte.                        *)
ScanPastBound ==
    /\ pc = "scan"
    /\ insnEnd < WindowEnd
    /\ insnEnd > data.bound
    /\ base' = insnEnd
    /\ pc' = "insert"
    /\ UNCHANGED <<prog, codeVars, addressList, validAddressList, treeVars,
                   lowerVal, insnEnd, breakFlag, handlerVars, userVars,
                   inspected, resolved>>

(* What every iteration does that gets past the bound. *)
Inspect(d) ==
    /\ pc = "scan"
    /\ insnEnd < WindowEnd
    /\ insnEnd <= data.bound
    /\ base' = insnEnd
    /\ insnEnd' = insnEnd + d.len
    /\ inspected' = inspected \cup {Seen(insnEnd, d)}
    /\ UNCHANGED <<prog, treeVars, lowerVal, handlerVars, userVars, resolved>>

ScanRet(d) ==
    /\ d.kind = "ret"
    /\ Inspect(d)
    /\ pc' = "insert"
    /\ UNCHANGED <<codeVars, addressList, validAddressList, breakFlag>>

ScanPlain(d) ==
    /\ d.kind \in {"op", "loop", "int3"}
    /\ Inspect(d)
    /\ UNCHANGED <<codeVars, addressList, validAddressList, breakFlag, pc>>

(* The operand of a call through a register holds no immediate, so that    *)
(* its callAddress is the address of the next instruction.                 *)
Target(d) == IF d.kind = "rcall" THEN insnEnd + d.len ELSE d.to

ListsUnconditional(d) ==                      \* mutant
    IF d.kind = "jcc" THEN addressList ELSE list_insert(addressList, Target(d))
ListsTarget(d) == list_insert(addressList, Target(d))

ScanCall(d) ==
    /\ d.kind \in {"call", "rcall"}
    /\ Inspect(d)
    /\ addressList' = ListsTarget(d)
    /\ validAddressList' = list_insert(validAddressList, insnEnd + d.len)
    /\ UNCHANGED <<codeVars, breakFlag, pc>>

ScanJump(d) ==
    /\ d.kind \in {"jmp", "jcc"}
    /\ Inspect(d)
    /\ addressList' = ListsTarget(d)
    /\ breakFlag' = (d.kind = "jcc")
    /\ pc' = IF d.kind = "jcc" THEN "scan" ELSE "insert"
    /\ UNCHANGED <<codeVars, validAddressList>>

(* The byte that trapSetup writes. *)
PlantsSecondByte(a) == [mem EXCEPT ![a + 1] = "cc"]    \* mutant
Plants(a) == [mem EXCEPT ![a] = "cc"]

(* A call through memory, a jump through memory or a register: trapSetup   *)
(* plants the trap; mprotect may fail there and ends the process.          *)
ScanIndirect(d) ==
    /\ d.kind \in Indirect
    /\ Inspect(d)
    /\ startByteList' = list_insert(startByteList, insnEnd)
    /\ \/ /\ mem' = Plants(insnEnd)
          /\ pc' = "record"
       \/ /\ mem' = mem
          /\ pc' = "exited"
    /\ breakFlag' = (d.kind # "ijmp")
    /\ UNCHANGED <<addressList, validAddressList, originalStartBytes>>

RecordsCalls ==                               \* mutant
    IF breakFlag THEN hashtable_insert(originalStartBytes, base, "orig")
                 ELSE originalStartBytes
Records == hashtable_insert(originalStartBytes, base, "orig")

(* hashtable_insert of the byte that trapSetup returned, the first byte of *)
(* an indirect transfer that decoded as one.                               *)
RecordStartByte ==
    /\ pc = "record"
    /\ originalStartBytes' = Records
    /\ pc' = IF breakFlag THEN "scan" ELSE "insert"
    /\ UNCHANGED <<prog, mem, startByteList, addressList, validAddressList,
                   treeVars, scanVars, handlerVars, userVars, inspected, resolved>>

InsertRange ==
    /\ pc = "insert"
    /\ direct_boundTree_insert(lowerVal, base)
    /\ pc' = "pop"
    /\ UNCHANGED <<prog, codeVars, addressList, validAddressList, walk, data,
                   scanVars, handlerVars, userVars, inspected, resolved>>

---------------------------------------------------------------------------
(* The program runs.  An instruction leads to (next, calls): the addresses *)
(* where the processor goes on and the stack it leaves.                    *)

Targets == IF pending = {} THEN prog.runtime ELSE pending

Execute(d) ==
    LET after == ip + d.len IN
    \/ /\ d.kind \in {"op", "jcc", "loop"}
       /\ ip' = after /\ stack' = stack
    \/ /\ d.kind \in {"jmp", "jcc", "loop"}
       /\ ip' = d.to /\ stack' = stack
    \/ /\ d.kind = "ijmp"
       /\ ip' \in Targets /\ stack' = stack
    \/ /\ d.kind \in {"call", "rcall", "icall"}
       /\ Len(stack) < MaxStack
       /\ ip' \in CASE d.kind = "call"  -> {d.to}
                    [] d.kind = "rcall" -> prog.runtime
                    [] d.kind = "icall" -> Targets
       /\ stack' = <<after>> \o stack
    \/ /\ d.kind = "ret" /\ stack # <<>>
       /\ ip' = Head(stack) /\ stack' = Tail(stack)

UserStep ==
    /\ pc = "user"
    /\ ip \in Addr
    /\ \E d \in Decodings(mem, ip) : Execute(d)
    /\ pending' = {}
    /\ UNCHANGED <<prog, codeVars, addressList, validAddressList, treeVars,
                   scanVars, handlerVars, pc, inspected, resolved>>

(* og_main returns and wrapped_main frees address_list; the traps stay.    *)
MainReturns ==
    /\ pc = "user"
    /\ ip \in Addr /\ stack = <<>>
    /\ \E d \in Decodings(mem, ip) : d.kind = "ret"
    /\ addressList' = <<>>
    /\ pc' = "ended"
    /\ UNCHANGED <<prog, codeVars, validAddressList, treeVars, scanVars,
                   handlerVars, userVars, inspected, resolved>>

(* A fetch outside the code, or a stack overflow. *)
Crash ==
    /\ pc = "user"
    /\ \/ ip \notin Addr
       \/ /\ Len(stack) >= MaxStack
          /\ \E d \in Decodings(mem, ip) : d.kind \in {"call", "rcall", "icall"}
    /\ pc' = "killed"
    /\ UNCHANGED <<prog, codeVars, addressList, validAddressList, treeVars,
                   scanVars, handlerVars, userVars, inspected, resolved>>

---------------------------------------------------------------------------
(* trap_handler, up to its work loop: SIGTRAP comes from a planted byte or *)
(* from an int3 of the program.  The handler has no way to tell: it writes *)
(* what the table holds for the address, and decodes what is there then.   *)

Trapped ==
    /\ pc = "user"
    /\ ip \in Addr
    /\ \E d \in Decodings(mem, ip) : d.kind = "int3"

restored == [mem EXCEPT ![ip] = hashtable_find(originalStartBytes, ip)]

EnterHandler ==
    /\ Trapped
    /\ trapFlag = 0
    /\ trapFlag' = trapFlag + 1
    /\ ctx' = "sig"
    /\ UNCHANGED <<prog, startByteList, originalStartBytes, validAddressList,
                   treeVars, scanVars, ip, stack, inspected>>

(* get_address reads the target that the processor will read when the      *)
(* program goes on at ip.                                                  *)
TrapAtSite ==
    /\ EnterHandler
    /\ ip \notin prog.misread
    /\ \E d \in Decodings(restored, ip) : d.kind \in Indirect
    /\ mem' = restored
    /\ \E t \in Targets :
           /\ addressList' = list_insert(addressList, t)
           /\ pending' = {t}
    /\ resolved' = resolved \cup {ip}
    /\ pc' = "pop"

(* The operand is not that of the indirect transfer, or get_address takes  *)
(* its displacement wrong: the handler exits (an operand that is neither   *)
(* memory nor register), reads its target where there is no memory, or     *)
(* finds some other value there.                                           *)
TrapElsewhere ==
    /\ EnterHandler
    /\ \/ ip \in prog.misread
       \/ \E d \in Decodings(restored, ip) : d.kind \notin Indirect
    /\ mem' = restored
    /\ \/ /\ \E t \in Addr \cup {0} : addressList' = list_insert(addressList, t)
          /\ pc' = "pop"
       \/ /\ addressList' = addressList
          /\ pc' \in {"exited", "killed"}
    /\ pending' = pending
    /\ resolved' = resolved \cup {ip}

(* mprotect fails in the handler. *)
TrapFails ==
    /\ EnterHandler
    /\ pc' = "exited"
    /\ UNCHANGED <<mem, addressList, pending, resolved>>

(* The handler itself runs into a trap, in code that it shares with the    *)
(* program: SIGTRAP is blocked, and the kernel kills the process.          *)
HandlerHitsTrap ==
    /\ ctx = "sig"
    /\ pc \in AnalysisPc
    /\ \E a \in prog.shared : mem[a] = "cc"
    /\ pc' = "killed"
    /\ UNCHANGED <<prog, codeVars, addressList, validAddressList, treeVars,
                   scanVars, handlerVars, userVars, inspected, resolved>>

Stopped == pc \in StoppedPc /\ UNCHANGED vars

(* The code as shutdown would leave it: swap_start_byte for each site in   *)
(* start_byte_list.  Its calls in exit and wrapped_main are commented out. *)
swap_start_byte(a) == hashtable_find(originalStartBytes, a)
shutdown ==
    [a \in Addr |-> IF list_find(startByteList, a) THEN swap_start_byte(a) ELSE mem[a]]

---------------------------------------------------------------------------

PrintDis ==
    \/ ScanExhausted
    \/ ScanPastBound
    \/ \E d \in Disassemblies :
          ScanRet(d) \/ ScanPlain(d) \/ ScanCall(d) \/ ScanJump(d) \/ ScanIndirect(d)
    \/ RecordStartByte
    \/ InsertRange

Analyze ==
    \/ FindMain
    \/ PopAddress
    \/ FindTurn
    \/ FindNull
    \/ FindVacancy
    \/ WorkDone
    \/ PrintDis

Trap == TrapAtSite \/ TrapElsewhere \/ TrapFails

Run == UserStep \/ MainReturns \/ Crash

Next == Analyze \/ Trap \/ HandlerHitsTrap \/ Run \/ Stopped

(* The analyzer is sequential code that waits for nothing.  Nothing is     *)
(* assumed of the program, which may stop running.                         *)
Spec == Init /\ [][Next]_vars /\ WF_vars(Analyze)

---------------------------------------------------------------------------

TypeOK ==
    /\ TreeTypeOK
    /\ prog \in Program
    /\ mem \in [Addr -> {"orig", "cc", "zero"}]
    /\ addressList \in Seq(Nat) /\ startByteList \in Seq(Addr)
    /\ validAddressList \in Seq(Nat)
    /\ DOMAIN originalStartBytes \subseteq Addr
    /\ originalStartBytes \in [DOMAIN originalStartBytes -> {"orig"}]
    /\ lowerVal \in Nat /\ base \in Nat /\ insnEnd \in Nat /\ breakFlag \in BOOLEAN
    /\ trapFlag \in Nat
    /\ pc \in AnalysisPc \cup {"user"} \cup StoppedPc
    /\ ctx \in {"main", "sig"}
    /\ ip \in Nat /\ stack \in Seq(Nat) /\ pending \subseteq Addr \cup {0}
    /\ inspected \subseteq [at : Nat, insn : [kind : Kind, len : Nat, to : Nat]]
    /\ resolved \subseteq Addr

(* Whatever trap is in the code is in both tables that undoing it needs:   *)
(* the handler finds the original byte, and shutdown would find the site.  *)
(* Only between trapSetup and hashtable_insert the byte is missing.        *)
TrapsRecorded ==
    \A a \in Addr : mem[a] = "cc" =>
        /\ a \in ToSet(startByteList)
        /\ \/ a \in DOMAIN originalStartBytes
           \/ pc \in {"record", "killed"} /\ a = base

(* No byte that the analyzer replaced is ever lost: the handler writes 0   *)
(* only over an int3 of the program itself.                                *)
PlantedBytesSurvive ==
    \A a \in Addr : mem[a] = "zero" => a \notin ToSet(startByteList)

(* Whenever the program runs or has returned, shutdown would leave it as   *)
(* it was: no trap stays, and no first byte is lost, whether its trap was  *)
(* handled, handled and planted again, or never met.                       *)
ShutdownRestores ==
    pc \in {"user", "ended"} =>
        \A a \in Addr : shutdown[a] # "orig" => mem[a] = "zero" /\ ~list_find(startByteList, a)

(* The branch of trap_handler for trapFlag # 0, which does not analyze,    *)
(* is never taken: every trap finds the flag down again.                   *)
HandlerNeverBusy == Trapped => trapFlag = 0

(* The addresses that are still to be disassembled, or are being so.       *)
Waiting(x) ==
    \/ pc \in AnalysisPc /\ x \in ToSet(addressList)
    \/ pc = "find" /\ x = walk.key
    \/ pc \in {"scan", "record", "insert"} /\ x = lowerVal

(* Nothing that a direct call or jump leads to is forgotten: its target is *)
(* in a disassembled range or waits for it, and while the program runs     *)
(* nothing waits.                                                          *)
WorklistComplete ==
    pc \notin {"exited", "killed"} =>
        \A s \in inspected :
            s.insn.kind \in Direct => Covered(s.insn.to) \/ Waiting(s.insn.to)

(* The promise of Worklist, kept by the list, the tree and the scans: an   *)
(* address in a disassembled range is done, and 0 is no address.           *)
Activity ==
    IF pc \in AnalysisPc THEN "busy" ELSE IF pc = "user" THEN "idle" ELSE "stopped"
ToDo == {x \in ToSet(addressList) \cup {walk.key, lowerVal} : x # 0 /\ Waiting(x)}
Done == UNION {tree[p].lower .. tree[p].upper : p \in DOMAIN tree}
DirectTargets == {s.insn.to : s \in {r \in inspected : r.insn.kind \in Direct}}

W == INSTANCE Worklist WITH phase <- Activity, todo <- ToDo, done <- Done, found <- DirectTargets

(* The loops over address_list, libaddr.cc:72 and trap.c:151: no address   *)
(* that was found is dropped before it is disassembled, none that was      *)
(* disassembled is ever forgotten, and the program does not run before     *)
(* the list is exhausted.                                                  *)
ImplementsWorklist == W!Spec

(* A disassembled indirect transfer cannot run before the handler has seen *)
(* it: there is a trap on it until then.                                   *)
SitesArmed ==
    pc # "exited" =>
        \A s \in inspected :
            s.insn.kind \in Indirect => mem[s.at] = "cc" \/ s.at \in resolved

(* The address follows the 100 bytes that some scan was given.             *)
AtWindowEnd(a) == \E p \in DOMAIN tree : a = tree[p].lower + Window

PushedByInspected(a) ==
    \E s \in inspected :
        s.insn.kind \in {"call", "rcall", "icall"} /\ a = s.at + s.insn.len

(* The transfers that the analyzer does not follow: through a register,    *)
(* by an instruction that printDis does not list, from an indirect site    *)
(* after its first time, past the 100 bytes, and back into code that was   *)
(* already out of sight.                                                   *)
OutOfSight(d, next) ==
    \/ d.kind \in Unfollowed
    \/ d.kind \in Indirect /\ pending = {}
    \/ d.kind = "ret" /\ ~PushedByInspected(next)
    \/ AtWindowEnd(next)
    \/ next = 0

(* From an instruction that was disassembled as it is, the program leaves  *)
(* the disassembled ranges only by a transfer that is out of sight.        *)
LeavesOnlyOutOfSight ==
    [][pc = "user" /\ pc' = "user" =>
          \A d \in Decodings(mem, ip) :
              Seen(ip, d) \in inspected /\ Execute(d) /\ ~Covered(ip')
                  => OutOfSight(d, ip')]_vars

(* Programs of which the analyzer sees everything.  Instructions follow    *)
(* each other from starts to starts without a gap; transfers lead to       *)
(* starts, and the indirect ones all to one, read as the processor reads   *)
(* it; and what decodes behind the first byte of a site, where a scan goes *)
(* on that meets the trap, ends with the site.                             *)
Realigns(p, a, b) ==
    p.insn[b].kind = "op" /\ b + p.insn[b].len <= a + p.insn[a].len

Followed(p) ==
    /\ p.symbol = p.main /\ p.main \in p.starts /\ p.misread = {}
    /\ p.runtime \subseteq p.starts /\ \A t, u \in p.runtime : t = u
    /\ \A a \in p.starts :
          LET i == p.insn[a] IN
          /\ i.kind \notin Unfollowed
          /\ i.kind \in Direct => i.to \in p.starts
          /\ a + i.len \in p.starts \/ a + i.len > MaxAddr
          /\ \A b \in Addr : a < b /\ b < a + i.len =>
                b \notin p.starts /\ (i.kind \in Indirect => Realigns(p, a, b))

(* Programs whose scans end before their window does: from each address    *)
(* where one may begin, there is a ret or jmp within the 100 bytes, or no  *)
(* more code after them.  An indirect jump does not count, since a scan    *)
(* that meets its trap goes on behind it.                                  *)
Entries(p) ==
    {p.main} \cup p.runtime
    \cup {p.insn[a].to : a \in {b \in p.starts : p.insn[b].kind \in Direct}}

Fits(p) ==
    \A a \in Entries(p) :
        \/ a + Window >= MaxAddr + MaxLen
        \/ \E e \in p.starts :
              /\ a <= e /\ e + p.insn[e].len <= a + Window
              /\ p.insn[e].kind \in {"ret", "jmp"}

(* A program the analyzer sees all of. *)
InSight(p) == Followed(p) /\ Fits(p) /\ NO_BOUND >= Window

(* libaddr.cc:118, "inspect each instruction": no instruction of a program *)
(* the analyzer can follow runs that printDis has not inspected before.    *)
ExecutedInspected ==
    InSight(prog) /\ pc = "user" /\ ip \in Addr => \E s \in inspected : s.at = ip

(* trap.c:62-63, "Setting the first byte to 0xCC": a trap is on the first  *)
(* byte of an instruction of the program, never inside one.                *)
TrapsAtFirstBytes == \A a \in Addr : mem[a] = "cc" => a \in prog.starts

(* Every analysis, static or in the handler, comes to an end.              *)
AnalysisEnds == pc \in AnalysisPc ~> pc \notin AnalysisPc
=============================================================================
