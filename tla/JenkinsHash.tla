---------------------------- MODULE JenkinsHash -----------------------------
(***************************************************************************)
(* data/hashtable/jhash.c on unsigned numbers of a given width (64 bits in *)
(* the code).  The table passes the address of a key as the string.        *)
(***************************************************************************)
EXTENDS Integers, Sequences, SequencesExt, FiniteSetsExt, Bitwise

CONSTANT Width  \* of unsigned long, greater than 15

Modulus == 2 ^ Width

ShiftLeft(h, n) == (h % 2 ^ (Width - n)) * 2 ^ n
Plus(h, n) == (h + n) % Modulus

(* strlen: what comes before the first zero byte. *)
String(bytes) ==
    LET zeros == {i \in DOMAIN bytes : bytes[i] = 0} IN
    IF zeros = {} THEN bytes ELSE SubSeq(bytes, 1, Min(zeros) - 1)

(* A char is signed. *)
Char(b) == IF b < 128 THEN b ELSE b - 256

Round(h, b) ==
    LET added == Plus(h, Char(b))
        spread == Plus(added, ShiftLeft(added, 10)) IN
    spread ^^ (spread \div 2 ^ 6)

JenkinsHash(bytes, mod) ==
    LET mixed == FoldLeft(Round, 0, String(bytes))
        spread == Plus(mixed, ShiftLeft(mixed, 3))
        folded == spread ^^ (spread \div 2 ^ 11) IN
    Plus(folded, ShiftLeft(folded, 15)) % mod
=============================================================================
