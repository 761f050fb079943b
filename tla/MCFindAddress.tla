--------------------------- MODULE MCFindAddress ---------------------------
(***************************************************************************)
(* Executables for FindAddress, as a linker lays them out: header, names   *)
(* of the sections, names of the symbols, symbol tables, program headers,  *)
(* section headers.  Names share their ends, as the linker makes them: the *)
(* name "m" is the tail of "xm".  All sizes are scaled down, in the units  *)
(* of the offsets.                                                         *)
(***************************************************************************)
EXTENDS FindAddress

Both(a, b) == [elf32 |-> a, elf64 |-> b, bad |-> a]
StructSizes == [Ident |-> Both(1, 1), Ehdr |-> Both(3, 4), Phdr |-> Both(2, 3),
                Shdr |-> Both(2, 3), Sym |-> Both(2, 3)]

Powers == [w \in 0 .. Xword |-> Byte^w]

OneObject == {<<3>>, <<0>>}
TwoObjects == {<<3, 7>>}
ObjectLists == OneObject \cup TwoObjects

Main == <<"m">>
Other == <<"x", "m">>
NameOffset(n) == IF n = Main THEN 2 ELSE 1
Letters == <<"NUL", "x", "m", "NUL">>
SectionLetters == <<"NUL", "t", "NUL">>

S(n, t, b, v) == [name |-> n, type |-> t, bind |-> b, value |-> v]

Dynamic == {S(Main, stt.func, stb.global, 0), S(Main, stt.func, stb.global, 9),
            S(Other, stt.func, stb.global, 4)}
Locals == {S(Main, stt.func, stb.local, 5), S(Main, stt.object, stb.local, 6),
           S(Other, stt.func, stb.local, 7)}
Globals == {S(Main, stt.func, stb.global, 9), S(Other, stt.func, stb.global, 4)}

DynTables == {<<>>} \cup {<<d>> : d \in Dynamic}
SymTables ==
    {<<>>} \cup {<<g>> : g \in Globals}
           \cup {<<l, g>> : l \in Locals, g \in Globals}
           \cup {<<l, k>> : l \in Locals, k \in Locals}
           \cup {<<l, g, h>> : l \in Locals, g \in Globals, h \in Globals}

(* A linker that keeps the full table keeps every defined symbol in it. *)
Includes(d, s) ==
    \A i \in DOMAIN d : d[i].value # 0 => \E k \in DOMAIN s : s[k] = d[i]

TableLists ==
    {<<>>}
    \cup {<<[kind |-> "dynsym", syms |-> d]>> : d \in DynTables}
    \cup {<<[kind |-> "dynsym", syms |-> p[1]], [kind |-> "symtab", syms |-> p[2]]>> :
             p \in {q \in DynTables \X SymTables : Includes(q[1], q[2])}}

---------------------------------------------------------------------------
(* The file that holds these tables.  An edit e changes it as a damaged or *)
(* an unusual file may be.                                                 *)

NoEdit == [magic |-> TRUE, eiVersion |-> 1, version |-> 1, shorter |-> 0,
           shstrndx |-> 1, noSections |-> FALSE, shrink |-> 0, wrapHeaders |-> FALSE,
           widen |-> 0, phnum |-> 1, claimSegments |-> FALSE, claimSections |-> FALSE,
           wrapTable |-> FALSE, link |-> 2, cutNames |-> 0, nameShift |-> 0, cutTable |-> 0]

(* The greatest half-word; a table of so many entries of that size has a   *)
(* size that is a negative int, and with this offset load accepts it.      *)
Most == Byte^Half - 1
FarAway == Byte^Word - Most * Most + 5

Stored(v, w, order) ==
    IF order = "lsb" THEN v
    ELSE FoldLeft(LAMBDA n, i : (n * Byte) + ((v \div Byte^(i - 1)) % Byte),
                  0, [i \in 1 .. w |-> i])

Image(class, order, extra, tables, e) ==
    LET size(struct) == StructSizes[struct][class]
        off == IF class = "elf32" THEN Word ELSE Xword
        put(v, w) == Stored(v, w, order)
        names1 == size("Ehdr")
        names2 == names1 + Len(SectionLetters)
        at(i) == names2 + Len(Letters)
                 + size("Sym") * FoldLeft(LAMBDA n, t : n + Len(t.syms), 0, SubSeq(tables, 1, i - 1))
        phoff == at(Len(tables) + 1)
        phentsize == size("Phdr") + extra + e.widen
        shoff == phoff + phentsize * e.phnum
        shentsize == size("Shdr") + extra - e.shrink
        shnum == 3 + Len(tables)
        plain(n, t, o, s, l) == [name |-> n, type |-> t, offset |-> o, size |-> s, link |-> l]
        header(p) ==
            [name |-> put(p.name, Word), type |-> put(p.type, Word), offset |-> put(p.offset, off),
             size |-> put(p.size, off), link |-> put(p.link, Word)]
        table(i) ==
            plain(1, sht[tables[i].kind],
                   IF e.wrapTable THEN Byte^Xword - 1 ELSE at(i),
                   size("Sym") * Len(tables[i].syms) - e.cutTable, e.link)
        section(i) ==
            CASE i = 0 -> plain(0, sht.null, 0, 0, 0)
              [] i = 1 -> plain(1, sht.strtab, names1, Len(SectionLetters), 0)
              [] i = 2 -> plain(1, sht.strtab, names2, Len(Letters) - e.cutNames, 0)
              [] i > 2 -> table(i - 2)
        symbol(s) ==
            [name |-> put(NameOffset(s.name) + e.nameShift, Word),
             info |-> s.bind * Nibble + s.type, value |-> put(s.value, off)]
        places == {<<i, k>> \in (1 .. Len(tables)) \X (1 .. 3) : k <= Len(tables[i].syms)}
        symAt(p) == at(p[1]) + (p[2] - 1) * size("Sym")
        len == shoff + shentsize * shnum - e.shorter
        filled(f, blank) == [o \in 0 .. len - 1 |-> IF o \in DOMAIN f THEN f[o] ELSE blank]
    IN  [len |-> len,
         magic |-> e.magic, version |-> e.eiVersion, class |-> class, order |-> order,
         ehdr |-> [version |-> put(e.version, Word),
                   phoff |-> put(IF e.claimSegments THEN FarAway ELSE phoff, off),
                   shoff |-> put(IF e.claimSections THEN FarAway
                                 ELSE IF e.wrapHeaders THEN Byte^Xword - 1 ELSE shoff, off),
                   phentsize |-> put(IF e.claimSegments THEN Most ELSE phentsize, Half),
                   phnum |-> put(IF e.claimSegments THEN Most ELSE e.phnum, Half),
                   shentsize |-> put(IF e.claimSections THEN Most ELSE shentsize, Half),
                   shnum |-> put(IF e.claimSections THEN Most
                                 ELSE IF e.noSections THEN 0 ELSE shnum, Half),
                   shstrndx |-> put(e.shstrndx, Half)],
         shdr |-> filled([o \in {shoff + i * (size("Shdr") + extra) : i \in 0 .. shnum - 1} |->
                             header(section((o - shoff) \div (size("Shdr") + extra)))],
                         plain(0, 0, 0, 0, 0)),
         sym |-> filled([o \in {symAt(p) : p \in places} |->
                            LET p == CHOOSE q \in places : symAt(q) = o
                            IN  symbol(tables[p[1]].syms[p[2]])],
                        [name |-> 0, info |-> 0, value |-> 0]),
         chr |-> [o \in names1 .. at(1) - 1 |->
                     (SectionLetters \o Letters)[o - names1 + 1]],
         tables |-> IF e.noSections THEN <<>>
                    ELSE [i \in DOMAIN tables |-> tables[i].syms],
         layout |->
             [ehdr |-> [version |-> 1, phoff |-> phoff, shoff |-> shoff, phentsize |-> phentsize,
                        phnum |-> e.phnum, shentsize |-> shentsize, shnum |-> IF e.noSections THEN 0 ELSE shnum,
                        shstrndx |-> 1],
              sections |-> [i \in 1 .. IF e.noSections THEN 0 ELSE shnum |-> section(i - 1)],
              at |-> [i \in IF e.noSections THEN {} ELSE DOMAIN tables |-> i + 2]]]

Edits ==
    {[NoEdit EXCEPT !.magic = FALSE], [NoEdit EXCEPT !.eiVersion = 2],
     [NoEdit EXCEPT !.version = 2], [NoEdit EXCEPT !.noSections = TRUE],
     [NoEdit EXCEPT !.shrink = 1], [NoEdit EXCEPT !.cutNames = 1],
     [NoEdit EXCEPT !.nameShift = 5], [NoEdit EXCEPT !.cutTable = 1]}
    \cup {[NoEdit EXCEPT !.shorter = n] : n \in 1 .. 28}
    \cup {[NoEdit EXCEPT !.shstrndx = n] : n \in {0, 2, 5, 6}}
    \cup {[NoEdit EXCEPT !.link = n] : n \in {3, 9, 83, 130}}
    \cup {[NoEdit EXCEPT !.claimSegments = TRUE], [NoEdit EXCEPT !.claimSections = TRUE]}

WrapEdits == {[NoEdit EXCEPT !.wrapHeaders = TRUE], [NoEdit EXCEPT !.wrapTable = TRUE]}

(* Whole files with a large table of segments, the second too large for    *)
(* the int product.                                                        *)
LargeEdits == {[NoEdit EXCEPT !.widen = 76, !.phnum = 40], [NoEdit EXCEPT !.widen = 76, !.phnum = 43]}

Full == <<[kind |-> "dynsym", syms |-> <<S(Main, stt.func, stb.global, 9)>>],
          [kind |-> "symtab", syms |-> <<S(Main, stt.func, stb.local, 5),
                                         S(Main, stt.func, stb.global, 9)>>]>>

Executables ==
    {Image(c, o, x, t, NoEdit) : c \in {"elf32", "elf64"}, o \in {"lsb", "msb"},
                                 x \in {0, 1}, t \in TableLists}
    \cup {Image(c, o, 0, Full, e) : c \in {"elf32", "elf64"}, o \in {"lsb", "msb"}, e \in Edits}
    \cup {Image("elf64", o, 0, Full, e) : o \in {"lsb", "msb"}, e \in WrapEdits}
    \cup {Image(c, "lsb", 0, Full, e) : c \in {"elf32", "elf64"}, e \in LargeEdits}
    \cup {[Image("elf64", "lsb", 0, Full, NoEdit) EXCEPT !.class = "bad"],
          [Image("elf64", "lsb", 0, Full, NoEdit) EXCEPT !.order = "bad"]}

(* The hypothesis of AnswerIsGlobal (FindAddressProofs) holds of them.     *)
ASSUME TablesAreOrdered == \A f \in Executables : LinkerOrder(f.tables)
=============================================================================
