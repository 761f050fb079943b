------------------------ MODULE MCEffectiveAddress --------------------------
(* Addresses of 5 bits, of which 12 can be read, with displacements of 2   *)
(* and 3 bits in place of 64, 8 and 32.                                    *)
EXTENDS EffectiveAddress, TLC

Spans == 0 :> 1 @@ 8 :> 4 @@ 32 :> 8 @@ 64 :> 32

Memory == [a \in 4 .. 15 |-> 35 - 2 * a + IF a > 13 THEN 3 ELSE -5]

Transfers ==
    {[kind |-> k, operand |-> "mem", base |-> b, index |-> x, scale |-> s,
      width |-> d[1], disp |-> d[2], len |-> 2, short |-> h, segment |-> g] :
        k \in {"icall"}, b \in Base, x \in Wide \cup {"NONE"}, s \in {1, 2},
        d \in {<<0, 0>>} \cup {<<8, v>> : v \in 0 .. 3} \cup {<<32, v>> : v \in 0 .. 7},
        h \in BOOLEAN, g \in BOOLEAN}

(* An address-size prefix does not go with RIP; without an index there is  *)
(* no scale; without a base the displacement has 32 bits, and with RIP it  *)
(* has and there is no index.                                              *)
Encodable(i) ==
    /\ i.index = "NONE" => i.scale = 1
    /\ i.base \in {"NONE", "RIP"} => i.width = 32
    /\ i.base = "RIP" => i.index = "NONE" /\ ~i.short

Jumps ==
    {[kind |-> "ijmp", operand |-> "reg", base |-> b, index |-> "NONE", scale |-> 1,
      width |-> 0, disp |-> 0, len |-> 2, short |-> FALSE, segment |-> FALSE] : b \in Wide}

(* What the handler decodes where it wrote the byte 0, or at the program's *)
(* own int3.                                                               *)
Others ==
    {[kind |-> "add", operand |-> o, base |-> "RAX", index |-> "NONE", scale |-> 1,
      width |-> 8, disp |-> v, len |-> 2, short |-> FALSE, segment |-> FALSE] :
        o \in {"mem", "other"}, v \in 0 .. 3}

MCInsns == {i \in Transfers : Encodable(i)} \cup Jumps \cup Others
MCValues == {3, 6, 30}
=============================================================================
