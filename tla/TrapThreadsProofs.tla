-------------------------- MODULE TrapThreadsProofs --------------------------
(***************************************************************************)
(* What the handler guarantees without a lock, for any finite number of    *)
(* threads, any set of sites and however often they are planted.           *)
(***************************************************************************)
EXTENDS TrapThreads, FiniteSetTheorems, TLAPS

Steps(t) == Execute(t) \/ Trap(t) \/ Handle(t) \/ Hang(t) \/ Stop(t)

(* What a thread adds its entry to holds bytes too. *)
TypeInv ==
    /\ TypeOK
    /\ DOMAIN seen = Thread
    /\ \A t \in Thread : \A a \in DOMAIN seen[t] : seen[t][a] \in Byte

LEMMA TypeInit == Init => TypeInv
<1> SUFFICES ASSUME Init PROVE TypeInv
  OBVIOUS
<1>1. PICK first \in SUBSET Site :
          /\ mem = [a \in Site |-> IF a \in first THEN "cc" ELSE "orig"]
          /\ table = [a \in first |-> "orig"]
          /\ plants = [a \in Site |-> IF a \in first THEN 1 ELSE 0]
  BY DEF Init
<1>2. mem \in [Site -> Byte] /\ plants \in [Site -> Nat]
  BY <1>1 DEF Byte
<1>3. DOMAIN table \subseteq Site /\ \A a \in DOMAIN table : table[a] \in Byte
  BY <1>1 DEF Byte
<1>4. DOMAIN hashtable_new = {}
  BY DEF hashtable_new
<1>5. DOMAIN seen = Thread /\ \A t \in Thread : DOMAIN seen[t] = {}
  BY <1>4 DEF Init
<1>6. trapFlag \in Int /\ {alive, torn, overlapped, broken} \subseteq BOOLEAN
  <2>1. trapFlag \in Int
    BY DEF Init
  <2>2. alive = TRUE /\ torn = FALSE /\ overlapped = FALSE /\ broken = FALSE
    BY DEF Init
  <2> QED
    BY <2>1, <2>2
<1>7. ip \in [Thread -> Site] /\ site \in [Thread -> Site]
  BY DEF Init
<1>8. /\ pc = [t \in Thread |-> "user"] /\ busy = [t \in Thread |-> FALSE]
      /\ reg = [t \in Thread |-> 0] /\ byte = [t \in Thread |-> "orig"]
      /\ list = {}
  BY DEF Init
<1>9. /\ pc \in [Thread -> {"user"}] /\ busy \in [Thread -> BOOLEAN]
      /\ reg \in [Thread -> Int] /\ byte \in [Thread -> {"orig"}]
      /\ list \subseteq Site
  BY <1>8
<1> QED
  BY <1>2, <1>3, <1>5, <1>6, <1>7, <1>9 DEF TypeInv, TypeOK, Byte

LEMMA InsertType ==
    ASSUME NEW S, NEW V, NEW ht, DOMAIN ht \subseteq S, \A a \in DOMAIN ht : ht[a] \in V,
           NEW k \in S, NEW v \in V
    PROVE  /\ DOMAIN hashtable_insert(ht, k, v) \subseteq S
           /\ \A a \in DOMAIN hashtable_insert(ht, k, v) : hashtable_insert(ht, k, v)[a] \in V
  BY DEF hashtable_insert

LEMMA TypeNext == TypeInv /\ [Next]_vars => TypeInv'
<1> SUFFICES ASSUME TypeInv, [Next]_vars PROVE TypeInv'
  OBVIOUS
<1> USE DEF At, Goes, TypeInv, TypeOK, codeVars, flagVars, workVars
<1>1. ASSUME NEW t \in Thread, Execute(t) \/ Trap(t) \/ Hang(t) \/ Stop(t) PROVE TypeInv'
  <2>1. CASE Execute(t)
    BY <2>1 DEF Execute
  <2>2. CASE Trap(t)
    BY <2>2 DEF Trap
  <2>3. CASE Stop(t)
    BY <2>3 DEF Stop
  <2>4. CASE Hang(t)
    BY <2>4 DEF Hang
  <2> QED
    BY <1>1, <2>1, <2>2, <2>3, <2>4
<1>2. ASSUME NEW t \in Thread, TestFlag(t) \/ LoadFlag(t) \/ RaiseFlag(t) \/ LowerFlag(t)
      PROVE  TypeInv'
  <2>1. CASE TestFlag(t)
    BY <2>1 DEF TestFlag
  <2>2. CASE LoadFlag(t)
    BY <2>2 DEF LoadFlag
  <2>3. CASE RaiseFlag(t)
    BY <2>3 DEF RaiseFlag
  <2>4. CASE LowerFlag(t)
    BY <2>4 DEF LowerFlag, Lowered
  <2> QED
    BY <1>2, <2>1, <2>2, <2>3, <2>4
<1>3. ASSUME NEW t \in Thread, LookUp(t) \/ Restore(t) \/ Decode(t) \/ Inspect(t) \/ WorkDone(t)
      PROVE  TypeInv'
  <2>1. CASE LookUp(t)
    <3>1. hashtable_find(table, ip[t]) \in Byte
      BY DEF hashtable_find, Byte
    <3> QED
      BY <2>1, <3>1 DEF LookUp
  <2>2. CASE Restore(t)
    <3>1. InUse(t) \in BOOLEAN
      BY DEF InUse
    <3> QED
      BY <2>2, <3>1 DEF Restore, Byte
  <2>3. CASE Decode(t)
    BY <2>3 DEF Decode
  <2>4. CASE Inspect(t)
    BY <2>4 DEF Inspect, Rest, ScanComesTo
  <2>5. CASE WorkDone(t)
    BY <2>5 DEF WorkDone
  <2> QED
    BY <1>3, <2>1, <2>2, <2>3, <2>4, <2>5
<1>4. ASSUME NEW t \in Thread,
             ReadStartByte(t) \/ Plant(t) \/ FindKey(t) \/ Fill(t) \/ Publish(t)
      PROVE  TypeInv'
  <2>1. CASE ReadStartByte(t)
    BY <2>1 DEF ReadStartByte
  <2>2. CASE Plant(t)
    BY <2>2 DEF Plant, Byte
  <2>3. CASE FindKey(t)
    BY <2>3 DEF FindKey, Forget, Byte
  <2>4. CASE Fill(t)
    BY <2>4 DEF Fill
  <2>5. CASE Publish(t)
    <3>1. /\ DOMAIN Published(t) \subseteq Site
          /\ \A a \in DOMAIN Published(t) : Published(t)[a] \in Byte
      <4>1. site[t] \in Site /\ byte[t] \in Byte
        OBVIOUS
      <4>2. DOMAIN seen[t] \subseteq Site /\ \A a \in DOMAIN seen[t] : seen[t][a] \in Byte
        OBVIOUS
      <4> HIDE DEF TypeInv, TypeOK, Goes, At, codeVars, flagVars, workVars
      <4> QED
        BY <4>1, <4>2, InsertType DEF Published
    <3>2. DOMAIN hashtable_new = {}
      BY DEF hashtable_new
    <3> QED
      BY <2>5, <3>1, <3>2 DEF Publish, Forget, Byte
  <2> QED
    BY <1>4, <2>1, <2>2, <2>3, <2>4, <2>5
<1>5. CASE UNCHANGED vars
  BY <1>5 DEF vars
<1> QED
  BY <1>1, <1>2, <1>3, <1>4, <1>5 DEF Next, Handle, Stopped

(* Type correctness, for any number of threads and sites. *)
THEOREM TypeCorrect == Spec => []TypeOK
<1>1. TypeInv => TypeOK
  BY DEF TypeInv
<1> QED
  BY <1>1, TypeInit, TypeNext, PTL DEF Spec

---------------------------------------------------------------------------
(* trapFlag and the handlers.                                              *)

Raisers == {t \in Thread : Raised(t)}

LEMMA FlagInit == Init => FlagCounts
<1> SUFFICES ASSUME Init PROVE FlagCounts
  OBVIOUS
<1>1. Raisers = {} /\ trapFlag = 0
  BY DEF Init, Raisers, Raised
<1> QED
  BY <1>1, FS_EmptySet DEF FlagCounts, Raisers

LEMMA FlagNext == TypeInv /\ FlagCounts /\ [Next]_vars => FlagCounts'
<1> SUFFICES ASSUME TypeInv, FlagCounts, [Next]_vars PROVE FlagCounts'
  OBVIOUS
<1>0. /\ IsFiniteSet(Raisers) /\ Cardinality(Raisers) \in Nat
      /\ ~torn => trapFlag = Cardinality(Raisers)
  <2>1. IsFiniteSet(Raisers)
    BY TrapThreadsAssumption, FS_Subset DEF Raisers
  <2> QED
    BY <2>1, FS_CardinalityType DEF FlagCounts, Raisers
<1>1. ASSUME NEW t \in Thread, RaiseFlag(t) PROVE FlagCounts'
  <2>1. t \notin Raisers /\ Raisers' = Raisers \cup {t}
    BY <1>1 DEF RaiseFlag, At, Goes, Raisers, Raised, TypeInv, TypeOK
  <2>2. Cardinality(Raisers') = Cardinality(Raisers) + 1
    BY <1>0, <2>1, FS_AddElement
  <2>3. torn' = (torn \/ trapFlag # reg[t]) /\ trapFlag' = reg[t] + 1
    BY <1>1 DEF RaiseFlag
  <2> QED
    BY <1>0, <2>2, <2>3 DEF FlagCounts, Raisers
<1>2. ASSUME NEW t \in Thread, LowerFlag(t) PROVE FlagCounts'
  <2>1. t \in Raisers /\ Raisers' = Raisers \ {t}
    BY <1>2 DEF LowerFlag, At, Goes, Raisers, Raised, TypeInv, TypeOK
  <2>2. Cardinality(Raisers') = Cardinality(Raisers) - 1
    BY <1>0, <2>1, FS_RemoveElement
  <2>3. torn' = (torn \/ trapFlag # reg[t]) /\ trapFlag' = reg[t] - 1
    BY <1>2 DEF LowerFlag, Lowered
  <2> QED
    BY <1>0, <2>2, <2>3 DEF FlagCounts, Raisers
<1>3. ASSUME NEW t \in Thread, Steps(t), ~RaiseFlag(t), ~LowerFlag(t) PROVE FlagCounts'
  <2>1. UNCHANGED <<trapFlag, torn>>
    BY <1>3 DEF Steps, Handle, Execute, Trap, Stop, Hang, TestFlag, LoadFlag, LookUp, Restore, Decode,
                Inspect, ReadStartByte, Plant, FindKey, Fill, Publish, WorkDone, flagVars
  <2>2. Raisers' = Raisers
    BY <1>3 DEF Steps, Handle, Execute, Trap, Stop, Hang, TestFlag, LoadFlag, LookUp, Restore, Decode,
                Inspect, ReadStartByte, Plant, FindKey, Fill, Publish, WorkDone, At, Goes,
                Raisers, Raised, TypeInv, TypeOK
  <2> QED
    BY <1>0, <2>1, <2>2 DEF FlagCounts, Raisers
<1>4. CASE UNCHANGED vars
  <2>1. Raisers' = Raisers /\ UNCHANGED <<trapFlag, torn>>
    BY <1>4 DEF vars, Raisers, Raised
  <2> QED
    BY <1>0, <2>1 DEF FlagCounts, Raisers
<1> QED
  BY <1>1, <1>2, <1>3, <1>4 DEF Next, Steps, Stopped

(* As long as no update of trapFlag was lost, it counts the handlers.      *)
THEOREM FlagAlwaysCounts == Spec => []FlagCounts
  BY TypeInit, TypeNext, FlagInit, FlagNext, PTL DEF Spec

---------------------------------------------------------------------------
(* The original bytes.                                                     *)

InHandler == {"test", "raise", "raising", "lookup", "restore"}
Working == {"work", "read", "plant", "fill", "publish"}

(* The original byte of a is in the table, or on its way there. *)
Recorded(a) ==
    \/ a \in DOMAIN table /\ table[a] = "orig"
    \/ \E t \in Thread : pc[t] \in {"fill", "publish"} /\ site[t] = a /\ byte[t] = "orig"

(* One thread analyzes at a time, and the busy ones do not. *)
OneAnalyzes ==
    /\ \A t, u \in Thread : Analyzing(t) /\ Analyzing(u) => t = u
    /\ \A t \in Thread : busy[t] =>
          pc[t] \in {"raise", "raising", "lookup", "restore", "lower", "lowering"}

TableOriginal == \A a \in DOMAIN table : table[a] = "orig"

(* A thread is in the handler because of a trap that is recorded. *)
TrappedRecorded == \A t \in Thread : pc[t] \in InHandler => Recorded(ip[t])

(* What the analysis adds is the original byte of a site that has none. *)
AddsOriginal ==
    \A t \in Thread :
        /\ pc[t] \in {"plant", "fill", "publish"} =>
              byte[t] = "orig" \/ site[t] \in DOMAIN table
        /\ pc[t] = "publish" => site[t] \notin DOMAIN table /\ seen[t] = table

BytesKept ==
    /\ OneAnalyzes /\ TableOriginal /\ TrappedRecorded /\ AddsOriginal
    /\ \A a \in Site : mem[a] # "orig" => Recorded(a)

(* The inductive invariant. *)
ByteInv == ~overlapped => BytesKept

LEMMA ByteInit == Init => ByteInv
<1> SUFFICES ASSUME Init PROVE ByteInv
  OBVIOUS
<1>1. PICK first \in SUBSET Site :
          /\ mem = [a \in Site |-> IF a \in first THEN "cc" ELSE "orig"]
          /\ table = [a \in first |-> "orig"]
  BY DEF Init
<1>2. \A t \in Thread : pc[t] = "user" /\ busy[t] = FALSE
  BY DEF Init
<1> QED
  BY <1>1, <1>2 DEF ByteInv, BytesKept, OneAnalyzes, Analyzing, TableOriginal, TrappedRecorded, AddsOriginal,
                    InHandler, Recorded

LEMMA OverlapStays == [Next]_vars /\ ~overlapped' => ~overlapped
<1>1. ASSUME NEW t \in Thread, TestFlag(t), ~overlapped' PROVE ~overlapped
  BY <1>1 DEF TestFlag
<1>2. ASSUME NEW t \in Thread, Steps(t), ~TestFlag(t) PROVE overlapped' = overlapped
  BY <1>2 DEF Steps, Handle, Execute, Trap, Stop, Hang, LoadFlag, RaiseFlag, LowerFlag, LookUp, Restore,
              Decode, Inspect, ReadStartByte, Plant, FindKey, Fill, Publish, WorkDone
<1>3. UNCHANGED vars => overlapped' = overlapped
  BY DEF vars
<1> QED
  BY <1>1, <1>2, <1>3 DEF Next, Steps, Stopped

(* One thread analyzes at a time as long as the history says so. *)
LEMMA OneNext ==
    ASSUME TypeInv, OneAnalyzes, [Next]_vars, ~overlapped'
    PROVE  OneAnalyzes'
<1> USE DEF OneAnalyzes, Analyzing, TypeInv, TypeOK, At, Goes
<1>1. ASSUME NEW t \in Thread, Execute(t) \/ Trap(t) \/ Hang(t) \/ Stop(t) PROVE OneAnalyzes'
  <2>1. Hang(t) => ~busy[t]
    BY DEF Hang
  <2> QED
    BY <1>1, <2>1 DEF Execute, Trap, Hang, Stop
<1>2. ASSUME NEW t \in Thread, TestFlag(t) PROVE OneAnalyzes'
  <2>1. trapFlag = 0 => \A u \in Thread : ~Analyzing(u)
    BY <1>2 DEF TestFlag
  <2>2. /\ pc' = [pc EXCEPT ![t] = "raise"]
        /\ busy' = [busy EXCEPT ![t] = trapFlag # 0]
    BY <1>2 DEF TestFlag
  <2> QED
    BY <2>1, <2>2
<1>3. ASSUME NEW t \in Thread, LoadFlag(t) \/ RaiseFlag(t) \/ LowerFlag(t) \/ LookUp(t) \/ Restore(t)
      PROVE  OneAnalyzes'
  BY <1>3 DEF LoadFlag, RaiseFlag, LowerFlag, LookUp, Restore
<1>4. ASSUME NEW t \in Thread,
             \/ Decode(t) \/ Inspect(t) \/ ReadStartByte(t) \/ Plant(t)
             \/ FindKey(t) \/ Fill(t) \/ Publish(t) \/ WorkDone(t)
      PROVE  OneAnalyzes'
  BY <1>4 DEF Decode, Inspect, ReadStartByte, Plant, FindKey, Fill, Publish, WorkDone
<1>5. CASE UNCHANGED vars
  BY <1>5 DEF vars
<1> QED
  BY <1>1, <1>2, <1>3, <1>4, <1>5 DEF Next, Handle, Stopped

(* The step of hashtable_insert that can be seen. *)
LEMMA PublishAdds ==
    ASSUME TypeInv, BytesKept, NEW t \in Thread, Publish(t)
    PROVE  /\ DOMAIN table' = DOMAIN table \cup {site[t]} /\ site[t] \notin DOMAIN table
           /\ table'[site[t]] = "orig" /\ \A a \in DOMAIN table : table'[a] = table[a]
<1>1. seen[t] = table /\ site[t] \notin DOMAIN table /\ byte[t] = "orig"
  BY DEF BytesKept, AddsOriginal, Publish, At
<1>2. table' = [x \in DOMAIN table \cup {site[t]} |-> IF x = site[t] THEN byte[t] ELSE table[x]]
  BY <1>1 DEF Publish, Published, hashtable_insert
<1> QED
  BY <1>1, <1>2

(* What is recorded stays recorded. *)
LEMMA RecordedKept ==
    ASSUME TypeInv, BytesKept, NEW t \in Thread, Steps(t), NEW a, Recorded(a)
    PROVE  Recorded(a)'
<1> USE DEF TypeInv, TypeOK, At, Goes
<1>1. CASE Publish(t)
  <2>1. a \in DOMAIN table => Recorded(a)'
    <3>1. a \in DOMAIN table => a \in DOMAIN table' /\ table'[a] = "orig"
      BY <1>1, PublishAdds DEF BytesKept, TableOriginal
    <3> QED
      BY <3>1 DEF Recorded
  <2>2. ASSUME NEW u \in Thread, pc[u] \in {"fill", "publish"}, site[u] = a, byte[u] = "orig"
        PROVE  Recorded(a)'
    <3>1. CASE u = t
      BY <1>1, <2>2, <3>1, PublishAdds DEF Recorded
    <3>2. CASE u # t
      BY <1>1, <2>2, <3>2 DEF Publish, Forget, Recorded
    <3> QED
      BY <3>1, <3>2
  <2> QED
    BY <2>1, <2>2 DEF Recorded
<1>2. CASE FindKey(t)
  <2>1. table' = table /\ site[t] \in DOMAIN table /\ table[site[t]] = "orig"
    BY <1>2 DEF FindKey, codeVars, BytesKept, TableOriginal
  <2> QED
    BY <1>2, <2>1 DEF FindKey, Forget, Recorded
<1>3. CASE Steps(t) /\ ~Publish(t) /\ ~FindKey(t)
  <2>1. table' = table
    BY <1>3 DEF Steps, Handle, Execute, Trap, Stop, Hang, TestFlag, LoadFlag, RaiseFlag, LowerFlag,
                LookUp, Restore, Decode, Inspect, ReadStartByte, Plant, Fill, WorkDone, codeVars
  <2>2. ASSUME NEW u \in Thread, pc[u] \in {"fill", "publish"}
        PROVE  pc'[u] \in {"fill", "publish"} /\ site'[u] = site[u] /\ byte'[u] = byte[u]
    <3>1. CASE Execute(t) \/ Trap(t) \/ Hang(t) \/ Stop(t) \/ TestFlag(t) \/ LoadFlag(t)
               \/ RaiseFlag(t) \/ LowerFlag(t)
      BY <2>2, <3>1 DEF Execute, Trap, Hang, Stop, TestFlag, LoadFlag, RaiseFlag, LowerFlag, workVars, codeVars
    <3>2. CASE LookUp(t) \/ Restore(t) \/ Decode(t) \/ Inspect(t) \/ WorkDone(t)
      BY <2>2, <3>2 DEF LookUp, Restore, Decode, Inspect, WorkDone, workVars, codeVars
    <3>3. CASE ReadStartByte(t) \/ Plant(t) \/ Fill(t)
      BY <2>2, <3>3 DEF ReadStartByte, Plant, Fill, workVars, codeVars
    <3> QED
      BY <1>3, <3>1, <3>2, <3>3 DEF Steps, Handle
  <2> QED
    BY <2>1, <2>2 DEF Recorded
<1> QED
  BY <1>1, <1>2, <1>3

(* The bytes of the code and of the table, action by action. *)
LEMMA BytesStep ==
    ASSUME TypeInv, BytesKept, NEW t \in Thread, Steps(t), OneAnalyzes'
    PROVE  BytesKept'
<1>0. ASSUME NEW a, Recorded(a) PROVE Recorded(a)'
  BY <1>0, RecordedKept
<1> USE DEF TypeInv, TypeOK, At, Goes, codeVars, workVars
<1>1. TableOriginal'
  <2>1. CASE Publish(t)
    <3>1. /\ DOMAIN table' = DOMAIN table \cup {site[t]}
          /\ table'[site[t]] = "orig" /\ \A a \in DOMAIN table : table'[a] = table[a]
      BY <2>1, PublishAdds
    <3>2. \A a \in DOMAIN table : table[a] = "orig"
      BY DEF BytesKept, TableOriginal
    <3> HIDE DEF TypeInv, TypeOK
    <3> QED
      BY <3>1, <3>2 DEF TableOriginal
  <2>2. CASE ~Publish(t)
    <3>1. table' = table
      BY <2>2 DEF Steps, Handle, Execute, Trap, Stop, Hang, TestFlag, LoadFlag, RaiseFlag, LowerFlag,
                  LookUp, Restore, Decode, Inspect, ReadStartByte, Plant, FindKey, Fill, WorkDone
    <3> QED
      BY <3>1 DEF BytesKept, TableOriginal
  <2> QED
    BY <2>1, <2>2
<1>2. TrappedRecorded'
  <2>1. ASSUME NEW u \in Thread, pc'[u] \in InHandler PROVE Recorded(ip[u])'
    <3>1. CASE Trap(t) /\ u = t
      <4>1. PICK a \in Site : a = ip[u]
        OBVIOUS
      <4>2. ip'[u] = a /\ mem[a] = "cc"
        BY <3>1, <4>1 DEF Trap
      <4>3. Recorded(a)'
        BY <1>0, <4>2 DEF BytesKept
      <4> QED
        BY <4>2, <4>3 DEF Recorded
    <3>2. CASE ~(Trap(t) /\ u = t)
      <4>1. pc[u] \in InHandler /\ ip'[u] = ip[u]
        <5>1. CASE u # t
          BY <2>1, <5>1 DEF Steps, Handle, Execute, Trap, Stop, Hang, TestFlag, LoadFlag, RaiseFlag,
                      LowerFlag, LookUp, Restore, Decode, Inspect, ReadStartByte, Plant, FindKey,
                      Fill, Publish, WorkDone
        <5>2. CASE u = t
          BY <2>1, <3>2, <5>2 DEF InHandler, Steps, Handle, Execute, Trap, Stop, Hang, TestFlag, LoadFlag,
                      RaiseFlag, LowerFlag, LookUp, Restore, Decode, Inspect, ReadStartByte, Plant,
                      FindKey, Fill, Publish, WorkDone
        <5> QED
          BY <5>1, <5>2
      <4>2. PICK a \in Site : a = ip[u]
        OBVIOUS
      <4>3. Recorded(a)
        BY <4>1, <4>2 DEF BytesKept, TrappedRecorded, Recorded
      <4>4. Recorded(a)'
        BY <1>0, <4>3
      <4> QED
        BY <4>1, <4>2, <4>4 DEF Recorded
    <3> QED
      BY <3>1, <3>2
  <2> QED
    BY <2>1 DEF TrappedRecorded
<1>3. AddsOriginal'
  <2>1. ASSUME NEW u \in Thread, u # t, pc'[u] \in {"plant", "fill", "publish"}
        PROVE  /\ byte'[u] = "orig" \/ site'[u] \in DOMAIN table'
               /\ pc'[u] = "publish" => site'[u] \notin DOMAIN table' /\ seen'[u] = table'
    <3>1. pc'[u] = pc[u] /\ byte'[u] = byte[u] /\ site'[u] = site[u] /\ seen'[u] = seen[u]
      <4>1. CASE Execute(t) \/ Trap(t) \/ Hang(t) \/ Stop(t) \/ TestFlag(t) \/ LoadFlag(t)
                 \/ RaiseFlag(t) \/ LowerFlag(t)
        BY <2>1, <4>1 DEF Execute, Trap, Hang, Stop, TestFlag, LoadFlag, RaiseFlag, LowerFlag
      <4>2. CASE LookUp(t) \/ Restore(t) \/ Decode(t) \/ Inspect(t) \/ WorkDone(t)
        BY <2>1, <4>2 DEF LookUp, Restore, Decode, Inspect, WorkDone
      <4>3. CASE ReadStartByte(t) \/ Plant(t) \/ FindKey(t) \/ Fill(t) \/ Publish(t)
        BY <2>1, <4>3 DEF ReadStartByte, Plant, FindKey, Fill, Publish, Forget
      <4> QED
        BY <4>1, <4>2, <4>3 DEF Steps, Handle
    <3>2. ~Publish(t)
      <4>1. Publish(t) => Analyzing(t) /\ Analyzing(u)
        BY <2>1, <3>1 DEF Publish, Analyzing, BytesKept, OneAnalyzes
      <4> QED
        BY <2>1, <4>1 DEF BytesKept, OneAnalyzes
    <3>3. table' = table
      BY <3>2 DEF Steps, Handle, Execute, Trap, Stop, Hang, TestFlag, LoadFlag, RaiseFlag, LowerFlag,
                  LookUp, Restore, Decode, Inspect, ReadStartByte, Plant, FindKey, Fill, WorkDone
    <3> QED
      BY <2>1, <3>1, <3>3 DEF BytesKept, AddsOriginal
  <2>2. ASSUME pc'[t] \in {"plant", "fill", "publish"}
        PROVE  /\ byte'[t] = "orig" \/ site'[t] \in DOMAIN table'
               /\ pc'[t] = "publish" => site'[t] \notin DOMAIN table' /\ seen'[t] = table'
    <3>1. ReadStartByte(t) \/ Plant(t) \/ Fill(t) \/ (Stop(t) /\ pc[t] \in {"plant", "fill", "publish"})
      BY <2>2 DEF Steps, Handle, Execute, Trap, Stop, Hang, TestFlag, LoadFlag, RaiseFlag, LowerFlag,
                  LookUp, Restore, Decode, Inspect, FindKey, Publish, WorkDone
    <3>2. CASE ReadStartByte(t)
      <4>1. pc[t] = "read" /\ pc'[t] = "plant" /\ site'[t] = site[t] /\ byte'[t] = mem[site[t]]
            /\ table' = table
        BY <3>2 DEF ReadStartByte
      <4>2. CASE mem[site[t]] # "orig" /\ site[t] \notin DOMAIN table
        <5>1. PICK u \in Thread : pc[u] \in {"fill", "publish"}
          BY <4>2 DEF BytesKept, Recorded
        <5>2. Analyzing(t) /\ Analyzing(u)
          BY <4>1, <5>1 DEF Analyzing, BytesKept, OneAnalyzes
        <5> QED
          BY <4>1, <5>1, <5>2 DEF BytesKept, OneAnalyzes
      <4> QED
        BY <4>1, <4>2
    <3>3. CASE Plant(t)
      BY <3>3 DEF Plant, BytesKept, AddsOriginal
    <3>4. CASE Fill(t)
      BY <3>4 DEF Fill, BytesKept, AddsOriginal
    <3>5. CASE Stop(t) /\ pc[t] \in {"plant", "fill", "publish"}
      BY <3>5 DEF Stop
    <3> QED
      BY <3>1, <3>2, <3>3, <3>4, <3>5
  <2> QED
    BY <2>1, <2>2 DEF AddsOriginal
<1>4. ASSUME NEW a \in Site, mem'[a] # "orig" PROVE Recorded(a)'
  <2>1. CASE mem[a] # "orig"
    BY <1>0, <2>1 DEF BytesKept
  <2>2. CASE mem[a] = "orig"
    <3>1. (Restore(t) /\ a = ip[t]) \/ (Plant(t) /\ a = site[t])
      BY <1>4, <2>2 DEF Steps, Handle, Execute, Trap, Stop, Hang, TestFlag, LoadFlag, RaiseFlag, LowerFlag,
                  LookUp, Restore, Decode, Inspect, ReadStartByte, Plant, FindKey, Fill, Publish, WorkDone
    <3>2. CASE Restore(t) /\ a = ip[t]
      <4>1. Recorded(a)
        BY <3>2 DEF Restore, BytesKept, TrappedRecorded, InHandler
      <4> QED
        BY <1>0, <4>1
    <3>3. CASE Plant(t) /\ a = site[t]
      <4>1. byte[t] = "orig" \/ a \in DOMAIN table
        BY <3>3 DEF Plant, BytesKept, AddsOriginal
      <4>2. /\ pc'[t] = "fill" /\ site'[t] = a /\ byte'[t] = byte[t] /\ table' = table
        BY <3>3 DEF Plant
      <4> QED
        BY <4>1, <4>2 DEF Recorded, BytesKept, TableOriginal
    <3> QED
      BY <3>1, <3>2, <3>3
  <2> QED
    BY <2>1, <2>2
<1> QED
  BY <1>1, <1>2, <1>3, <1>4 DEF BytesKept

LEMMA ByteNext == TypeInv /\ ByteInv /\ [Next]_vars => ByteInv'
<1> SUFFICES ASSUME TypeInv, ByteInv, [Next]_vars, ~overlapped' PROVE BytesKept'
  BY DEF ByteInv
<1>1. BytesKept
  BY OverlapStays DEF ByteInv
<1>2. OneAnalyzes'
  BY <1>1, OneNext DEF BytesKept
<1>3. ASSUME NEW t \in Thread, Steps(t) PROVE BytesKept'
  BY <1>1, <1>2, <1>3, BytesStep
<1>4. CASE UNCHANGED vars
  BY <1>1, <1>4 DEF vars, BytesKept, OneAnalyzes, Analyzing, TableOriginal, TrappedRecorded,
                    AddsOriginal, Recorded
<1> QED
  BY <1>3, <1>4 DEF Next, Steps, Stopped

(* As long as no two threads analyzed at once, no original byte is lost,   *)
(* however many threads run into traps beside the one that plants them.    *)
THEOREM AlwaysRecoverable == Spec => []Recoverable
<1>1. ByteInv => Recoverable
  BY DEF ByteInv, BytesKept, Recoverable, Recorded
<1> QED
  BY <1>1, TypeInit, TypeNext, ByteInit, ByteNext, PTL DEF Spec
=============================================================================
