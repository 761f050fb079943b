----------------------------- MODULE TrapThreads ----------------------------
(***************************************************************************)
(* data/trap/trap.c in a program with several threads: each may be in      *)
(* trap_handler, and the flag, the table and the code are shared without a *)
(* lock.  A step is one access to what is shared; trapFlag += 1 is a load  *)
(* and a store, as it is compiled without optimisation.                    *)
(*                                                                         *)
(* The addresses that an analysis puts into address_list are named by the  *)
(* sites, indirect calls and jumps, that the scans from them come to: any  *)
(* set of them, all put there at once.  All sites are in one slot of the   *)
(* table, the worst case for two threads that insert.                      *)
(*                                                                         *)
(* address_list and ud_obj are shared too.  When two threads have used     *)
(* them at once, a node may have been freed twice or be its own successor, *)
(* and what one thread decodes may be what the other one reads: from then  *)
(* on the list is not looked at, and an analysis comes to any site, as     *)
(* often as it may, is done at any time, never, or with the process.       *)
(***************************************************************************)
EXTENDS Integers, FiniteSets, HashSpec

CONSTANTS
    Thread,
    Site,       \* addresses of indirect calls and jumps
    MaxFlag,    \* bound of the model: no further trap with a flag beyond it
    MaxPlants   \* bound of the model: how often a site is come to

ASSUME TrapThreadsAssumption ==
    IsFiniteSet(Thread) /\ MaxFlag \in Nat /\ MaxPlants \in Nat

VARIABLES
    mem,        \* the first byte of each site
    table,      \* original_start_bytes
    trapFlag,
    alive,      \* FALSE when the process was killed or has exited
    pc,         \* where each thread is
    ip,         \* the site it runs, or has trapped on
    busy,       \* it found trapFlag # 0
    reg,        \* what it loaded from trapFlag
    byte,       \* what hashtable_find or trapSetup returned
    list,       \* address_list, as the sites its addresses lead to
    broken,     \* two threads used address_list and ud_obj at once
    site,       \* the site it plants a trap on
    seen,       \* the table to which it adds its entry
    plants,     \* how often each site was planted
    torn,       \* history: an update of trapFlag was lost
    overlapped  \* history: two threads were past the test of trapFlag at once

flagVars == <<trapFlag, torn, reg>>
codeVars == <<mem, table, plants>>
workVars == <<list, broken, site, seen>>
vars == <<mem, table, trapFlag, alive, pc, ip, busy, reg, byte, list, broken,
          site, seen, plants, torn, overlapped>>

Byte == {"orig", "cc", "zero"}

(* wrapped_main planted traps on some of the sites. *)
Init ==
    /\ \E first \in SUBSET Site :
          /\ mem = [a \in Site |-> IF a \in first THEN "cc" ELSE "orig"]
          /\ table = [a \in first |-> "orig"]
          /\ plants = [a \in Site |-> IF a \in first THEN 1 ELSE 0]
    /\ trapFlag = 0 /\ alive = TRUE
    /\ pc = [t \in Thread |-> "user"]
    /\ ip \in [Thread -> Site]
    /\ busy = [t \in Thread |-> FALSE] /\ reg = [t \in Thread |-> 0]
    /\ byte = [t \in Thread |-> "orig"]
    /\ list = {} /\ broken = FALSE /\ site = ip
    /\ seen = [t \in Thread |-> hashtable_new]
    /\ torn = FALSE /\ overlapped = FALSE

(* A value that is not read again is put back to what it was at first.     *)
At(t, place) == alive /\ pc[t] = place
Goes(t, place) == pc' = [pc EXCEPT ![t] = place]

---------------------------------------------------------------------------
(* The program. *)

(* The site runs, or what a byte 0 has made of it. *)
Execute(t) ==
    /\ At(t, "user") /\ mem[ip[t]] # "cc"
    /\ \E a \in Site :
          ip' = [ip EXCEPT ![t] = a] /\ site' = [site EXCEPT ![t] = a]
    /\ UNCHANGED <<codeVars, flagVars, alive, pc, busy, byte, list, broken, seen, overlapped>>

Beyond == trapFlag \notin -MaxFlag .. MaxFlag

Trap(t) ==
    /\ At(t, "user") /\ mem[ip[t]] = "cc"
    /\ ~Beyond
    /\ Goes(t, "test")
    /\ UNCHANGED <<codeVars, flagVars, alive, ip, busy, byte, workVars, overlapped>>

---------------------------------------------------------------------------
(* trap_handler.  Its two branches raise the flag, put the byte back and   *)
(* lower the flag; only the second analyzes in between.                    *)

Analyzing(t) == pc[t] \notin {"user", "test"} /\ ~busy[t]

TestFlag(t) ==
    /\ At(t, "test")
    /\ busy' = [busy EXCEPT ![t] = trapFlag # 0]
    /\ overlapped' = (overlapped \/ (trapFlag = 0 /\ \E u \in Thread : Analyzing(u)))
    /\ Goes(t, "raise")
    /\ UNCHANGED <<codeVars, flagVars, alive, ip, byte, workVars>>

LoadFlag(t) ==
    /\ \/ At(t, "raise") /\ Goes(t, "raising")
       \/ At(t, "lower") /\ Goes(t, "lowering")
    /\ reg' = [reg EXCEPT ![t] = trapFlag]
    /\ UNCHANGED <<codeVars, trapFlag, torn, alive, ip, busy, byte, workVars, overlapped>>

RaiseFlag(t) ==
    /\ At(t, "raising")
    /\ trapFlag' = reg[t] + 1
    /\ torn' = (torn \/ trapFlag # reg[t])
    /\ reg' = [reg EXCEPT ![t] = 0]
    /\ Goes(t, "lookup")
    /\ UNCHANGED <<codeVars, alive, ip, busy, byte, workVars, overlapped>>

BusyKeepsFlag(t) == IF busy[t] THEN reg[t] ELSE reg[t] - 1      \* mutant
Lowered(t) == reg[t] - 1

LowerFlag(t) ==
    /\ At(t, "lowering")
    /\ trapFlag' = Lowered(t)
    /\ torn' = (torn \/ trapFlag # reg[t])
    /\ reg' = [reg EXCEPT ![t] = 0]
    /\ busy' = [busy EXCEPT ![t] = FALSE]
    /\ Goes(t, "user")
    /\ UNCHANGED <<codeVars, alive, ip, byte, workVars, overlapped>>

LookUp(t) ==
    /\ At(t, "lookup")
    /\ byte' = [byte EXCEPT ![t] = hashtable_find(table, ip[t])]
    /\ Goes(t, "restore")
    /\ UNCHANGED <<codeVars, flagVars, alive, ip, busy, workVars, overlapped>>

(* Where address_list and ud_obj are used. *)
InAnalysis(t) == pc[t] \in {"decode", "work", "read", "plant", "fill", "publish"}
InUse(t) == broken \/ (~busy[t] /\ \E u \in Thread : InAnalysis(u))

Restore(t) ==
    /\ At(t, "restore")
    /\ mem' = [mem EXCEPT ![ip[t]] = byte[t]]
    /\ byte' = [byte EXCEPT ![t] = "orig"]
    /\ Goes(t, IF busy[t] THEN "lower" ELSE "decode")
    /\ broken' = InUse(t)
    /\ list' = IF broken' THEN {} ELSE list
    /\ UNCHANGED <<table, plants, flagVars, alive, ip, busy, site, seen, overlapped>>

(* get_address, and what the target leads to goes into address_list; where *)
(* the site is not as it was, the target is any.                           *)
Decode(t) ==
    /\ At(t, "decode")
    /\ \E found \in SUBSET Site : list' = IF broken THEN {} ELSE list \cup found
    /\ Goes(t, "work")
    /\ UNCHANGED <<codeVars, flagVars, alive, ip, busy, byte, broken, site, seen, overlapped>>

(* mprotect fails, or the handler exits or faults where the site is not as *)
(* it was or a node of the list is freed twice.                            *)
Stop(t) ==
    /\ \/ At(t, "lookup") /\ ~busy[t]
       \/ At(t, "read")
       \/ At(t, "decode") /\ mem[ip[t]] # "orig"
       \/ At(t, "work") /\ broken
    /\ alive' = FALSE
    /\ UNCHANGED <<codeVars, flagVars, pc, ip, busy, byte, workVars, overlapped>>

---------------------------------------------------------------------------
(* The analysis. *)

Forgets(a) == list                                              \* mutant
Rest(a) == list \ {a}

ScanComesTo == IF broken THEN Site ELSE list

(* list_pop, boundFind and the scan.  Only an instruction that decodes as  *)
(* a transfer gets a trap.                                                 *)
Inspect(t) ==
    /\ At(t, "work")
    /\ \E a \in ScanComesTo :
          /\ list' = Rest(a)
          /\ IF (broken \/ mem[a] = "orig") /\ plants[a] < MaxPlants
               THEN Goes(t, "read") /\ site' = [site EXCEPT ![t] = a]
               ELSE UNCHANGED <<pc, site>>
    /\ UNCHANGED <<codeVars, flagVars, alive, ip, busy, byte, broken, seen, overlapped>>

(* list_find goes round in a circle of nodes. *)
Hang(t) ==
    /\ At(t, "work") /\ broken
    /\ Goes(t, "stuck")
    /\ UNCHANGED <<codeVars, flagVars, alive, ip, busy, byte, workVars, overlapped>>

ReadStartByte(t) ==
    /\ At(t, "read")
    /\ byte' = [byte EXCEPT ![t] = mem[site[t]]]
    /\ Goes(t, "plant")
    /\ UNCHANGED <<codeVars, flagVars, alive, ip, busy, workVars, overlapped>>

Plant(t) ==
    /\ At(t, "plant")
    /\ mem' = [mem EXCEPT ![site[t]] = "cc"]
    /\ plants' = [plants EXCEPT ![site[t]] = @ + 1]
    /\ Goes(t, "fill")
    /\ UNCHANGED <<table, flagVars, alive, ip, busy, byte, workVars, overlapped>>

(* hashtable_insert finds the key, or fills an entry that goes before what *)
(* is in the slot now.                                                     *)
Forget(t) ==
    /\ site' = [site EXCEPT ![t] = ip[t]]
    /\ byte' = [byte EXCEPT ![t] = "orig"]

FindKey(t) ==
    /\ At(t, "fill") /\ site[t] \in DOMAIN table
    /\ Goes(t, "work") /\ Forget(t)
    /\ UNCHANGED <<codeVars, flagVars, alive, ip, busy, list, broken, seen, overlapped>>

Fill(t) ==
    /\ At(t, "fill") /\ site[t] \notin DOMAIN table
    /\ seen' = [seen EXCEPT ![t] = table]
    /\ Goes(t, "publish")
    /\ UNCHANGED <<codeVars, flagVars, alive, ip, busy, byte, list, broken, site, overlapped>>

SiteForByte(t) == hashtable_insert(seen[t], site[t], site[t])   \* mutant
RecordsTrap(t) == hashtable_insert(seen[t], site[t], "cc")      \* mutant
Published(t) == hashtable_insert(seen[t], site[t], byte[t])

Publish(t) ==
    /\ At(t, "publish")
    /\ table' = Published(t)
    /\ seen' = [seen EXCEPT ![t] = hashtable_new]
    /\ Goes(t, "work") /\ Forget(t)
    /\ UNCHANGED <<mem, plants, flagVars, alive, ip, busy, list, broken, overlapped>>

WorkDone(t) ==
    /\ At(t, "work") /\ (broken \/ list = {})
    /\ Goes(t, "lower")
    /\ UNCHANGED <<codeVars, flagVars, alive, ip, busy, byte, workVars, overlapped>>

Stopped ==
    /\ ~alive \/ Beyond \/ \A t \in Thread : pc[t] = "stuck"
    /\ UNCHANGED vars

---------------------------------------------------------------------------

Handle(t) ==
    \/ TestFlag(t) \/ LoadFlag(t) \/ RaiseFlag(t) \/ LookUp(t) \/ Restore(t)
    \/ Decode(t) \/ Inspect(t) \/ ReadStartByte(t) \/ Plant(t)
    \/ FindKey(t) \/ Fill(t) \/ Publish(t) \/ WorkDone(t) \/ LowerFlag(t)

Next ==
    \/ \E t \in Thread : Execute(t) \/ Trap(t) \/ Handle(t) \/ Hang(t) \/ Stop(t)
    \/ Stopped

(* A thread in the handler goes on; the program need not. *)
Spec == Init /\ [][Next]_vars /\ \A t \in Thread : WF_vars(Handle(t))

---------------------------------------------------------------------------

TypeOK ==
    /\ mem \in [Site -> Byte]
    /\ DOMAIN table \subseteq Site /\ \A a \in DOMAIN table : table[a] \in Byte
    /\ trapFlag \in Int /\ alive \in BOOLEAN
    /\ pc \in [Thread -> {"user", "test", "raise", "raising", "lookup", "restore",
                          "decode", "work", "read", "plant", "fill", "publish",
                          "lower", "lowering", "stuck"}]
    /\ ip \in [Thread -> Site] /\ site \in [Thread -> Site]
    /\ busy \in [Thread -> BOOLEAN] /\ reg \in [Thread -> Int]
    /\ byte \in [Thread -> Byte] /\ list \subseteq Site /\ broken \in BOOLEAN
    /\ \A t \in Thread : DOMAIN seen[t] \subseteq Site
    /\ plants \in [Site -> Nat]
    /\ torn \in BOOLEAN /\ overlapped \in BOOLEAN

(* As long as no two threads were past the test of the flag at once, the   *)
(* original byte of every site that was changed, even to 0, is in the      *)
(* table, or the thread that plants the trap is about to put it there.     *)
Recoverable ==
    ~overlapped =>
        \A a \in Site : mem[a] # "orig" =>
            \/ a \in DOMAIN table /\ table[a] = "orig"
            \/ \E t \in Thread :
                  pc[t] \in {"fill", "publish"} /\ site[t] = a /\ byte[t] = "orig"

(* trapFlag counts the threads that have raised it and not lowered it,     *)
(* busy or not, unless an update of it was lost: then it may stay up, and  *)
(* no trap is ever analyzed again.                                         *)
Raised(t) ==
    pc[t] \in {"lookup", "restore", "decode", "work", "read", "plant", "fill",
               "publish", "lower", "lowering", "stuck"}
FlagCounts == ~torn => trapFlag = Cardinality({t \in Thread : Raised(t)})

(* Every thread that trapped gets out of the handler, or the process has   *)
(* ended, unless two analyses ran at once.  Handlers that find the flag up *)
(* beside an analysis, and updates of the flag that are lost, keep none in *)
(* the handler (trap.c:81-91, 95, 162).  After two analyses at once a      *)
(* thread may stay in list_find for good (list.c:32-38).                   *)
HandlersReturn ==
    \A t \in Thread : pc[t] # "user" ~> pc[t] = "user" \/ ~alive \/ broken

(* trap.c:124, "replacing the original startByte": what the handler writes *)
(* where it trapped is the byte that was there before the trap.            *)
BytesRestored == \A a \in Site : mem[a] # "zero"
=============================================================================
