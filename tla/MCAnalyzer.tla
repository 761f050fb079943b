----------------------------- MODULE MCAnalyzer -----------------------------
(***************************************************************************)
(* Families of small programs for the Analyzer.  Each has six bytes of     *)
(* code: one-byte instructions at 1, 2, 5 and 6 and one of two bytes at 3  *)
(* (an indirect transfer may stand there); what decodes from the middle of *)
(* the instruction at 3 is a parameter too.                                *)
(***************************************************************************)
EXTENDS Analyzer

I(k, n, t) == [kind |-> k, len |-> n, to |-> t]

Starts == {1, 2, 3, 5, 6}

Code(i1, i2, i3, i4, i5, i6) == <<i1, i2, i3, i4, i5, i6>>

(* The operands of the middle byte: an instruction that ends where the one *)
(* at 3 ends (as in ff 25 disp32, whose rest is an AND with an immediate), *)
(* one that goes on into the next, and another indirect call (as in        *)
(* 41 ff 14 24, whose rest is a call through memory).                      *)
Realigning == {Plain(1)}
Misaligning == {Plain(1), Plain(2), I("icall", 1, 1)}

Family(first, second, third, middle, fifth, sixth, main, sym, rt, mis, sh) ==
    {[main |-> m, symbol |-> IF s THEN m ELSE 0,
      insn |-> Code(i1, i2, i3, i4, i5, i6),
      starts |-> Starts, runtime |-> r, misread |-> x, shared |-> h] :
        i1 \in first, i2 \in second, i3 \in third, i4 \in middle, i5 \in fifth,
        i6 \in sixth, m \in main, s \in sym, r \in rt, x \in mis, h \in sh}

(* Programs with everything the analyzer does not follow as well. *)
OpenPrograms ==
    Family({Plain(1), I("ret", 1, 1), I("jmp", 1, 4)},
           {Plain(1), I("call", 1, 5)},
           {Plain(2), I("icall", 2, 1), I("ijmp", 2, 1)},
           Misaligning,
           {I("call", 1, 1), I("rcall", 1, 1), I("loop", 1, 1),
            I("int3", 1, 1), I("icall", 1, 1), I("jcc", 1, 1)},
           {I("jmp", 1, 2), I("jcc", 1, 3), I("ret", 1, 1)},
           {2, 3}, {TRUE}, {{1, 2}, {6}}, {{}}, {{}})
    \cup
    Family({I("ret", 1, 1)}, {I("jmp", 1, 6)}, {I("icall", 2, 1)}, Realigning,
           {I("ijmp", 1, 1)}, {I("ret", 1, 1)},
           {2, 3}, BOOLEAN, {{1, 5}, {0, 6}}, {{}, {3}}, {{}, {1}, {5}})

(* Programs of which the analyzer can follow everything. *)
FollowedPrograms ==
    Family({Plain(1), I("ret", 1, 1), I("jmp", 1, 5)},
           {Plain(1), I("call", 1, 5), I("jcc", 1, 1)},
           {Plain(2), I("icall", 2, 1), I("ijmp", 2, 1)},
           Realigning,
           {I("call", 1, 1), I("jcc", 1, 1), I("ijmp", 1, 1), I("icall", 1, 1), I("ret", 1, 1)},
           {I("jmp", 1, 2), I("jmp", 1, 3), I("ret", 1, 1)},
           {1, 2, 3, 5}, {TRUE}, {{1}, {2}, {3}, {6}}, {{}}, {{}})

ASSUME ProgramsAreFollowed == \A p \in FollowedPrograms : Followed(p)

ClosedPrograms == {p \in FollowedPrograms : Fits(p)}

AllPrograms == OpenPrograms \cup ClosedPrograms

(* A program whose site at 3 has a tail that decodes as another site. *)
PrefixedSite ==
    Family({I("ret", 1, 1)}, {Plain(1)}, {I("icall", 2, 1)}, Misaligning,
           {I("call", 1, 1)}, {I("jmp", 1, 2), I("ret", 1, 1)},
           {3}, {TRUE}, {{1}}, {{}}, {{}})

(* What an instruction may become when a byte inside it is replaced. *)
GarbledInsns == {Plain(1), I("ret", 1, 1)}
=============================================================================
