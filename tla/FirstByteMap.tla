---------------------------- MODULE FirstByteMap ----------------------------
(***************************************************************************)
(* What data/hashtable promises to threads that use it side by side: each  *)
(* call takes effect in one step between its begin and its return, on the  *)
(* map of HashSpec.                                                        *)
(***************************************************************************)
EXTENDS HashSpec

CONSTANTS Thread, Call

VARIABLES
    map,    \* the first value that was given for each key
    call,   \* the last call of each thread
    answer  \* what it returned, "none" as long as it has not

Init ==
    /\ map = hashtable_new
    /\ call \in [Thread -> Call]
    /\ answer = [t \in Thread |-> "zero"]

Begin(t) ==
    /\ answer[t] # "none"
    /\ \E c \in Call : call' = [call EXCEPT ![t] = c]
    /\ answer' = [answer EXCEPT ![t] = "none"]
    /\ UNCHANGED map

(* hashtable.h:22-23 says "Returns the key if found.  else returns NULL";  *)
(* hashtable.c:47 returns the data, on which trap.c:87 and 126 rely, and   *)
(* so does the map.                                                        *)
Find(t) ==
    /\ answer[t] = "none" /\ call[t].data = "none"
    /\ answer' = [answer EXCEPT ![t] = hashtable_find(map, call[t].key)]
    /\ UNCHANGED <<map, call>>

Insert(t) ==
    /\ answer[t] = "none" /\ call[t].data # "none"
    /\ answer' = [answer EXCEPT ![t] =
                     IF call[t].key \in DOMAIN map THEN "present" ELSE "inserted"]
    /\ map' = hashtable_insert(map, call[t].key, call[t].data)
    /\ UNCHANGED call

Delete == map' = hashtable_new /\ UNCHANGED <<call, answer>>

Next == Delete \/ \E t \in Thread : Begin(t) \/ Find(t) \/ Insert(t)

Spec == Init /\ [][Next]_<<map, call, answer>>
=============================================================================
