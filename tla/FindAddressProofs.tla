-------------------------- MODULE FindAddressProofs --------------------------
(***************************************************************************)
(* What the reader of ELF files guarantees for every file, whatever its    *)
(* bytes, for any width of the integers and any size of the headers.       *)
(***************************************************************************)
EXTENDS FindAddress, TLAPS

Section == [name : Nat, type : Nat, offset : Nat, size : Nat, link : 0 .. Power[Half] - 1]

(* The iterator is a whole number of symbols into a table that was loaded. *)
InTable ==
    LET s == get_section(sec) IN
    /\ valid(sec) /\ IsTable(s) /\ loads(s.offset, s.size)
    /\ \E k \in Nat : pos = begin(s) + k * stride
    /\ pos <= end(s)

(* The inductive invariant. *)
FindInv ==
    /\ TypeOK /\ file \in Files
    /\ pc \in {"phdr", "open", "ident", "header", "segments", "sections"} => sections = <<>> /\ sec = 0
    /\ pc \in {"header", "segments", "sections", "section", "symbols", "done"} => file.class \in {"elf32", "elf64"}
    /\ pc \in {"segments", "sections", "section", "symbols"} => hdr \in Header
    /\ pc = "symbols" => InTable
    /\ StraysAsListed

---------------------------------------------------------------------------
(* Numbers.                                                                *)

LEMMA Remainder == ASSUME NEW m \in Nat \ {0}, NEW n \in Nat PROVE n % m \in 0 .. m - 1 /\ (n < m => n % m = n)
  OBVIOUS

LEMMA PowerType ==
    /\ \A w \in 0 .. Xword : Power[w] \in Nat \ {0}
    /\ Half \in 1 .. Xword /\ Word \in 1 .. Xword /\ Xword \in 1 .. Xword /\ 1 \in 1 .. Xword
    /\ Byte \in Nat \ {0} /\ Nibble \in Nat \ {0}
<1>1. Half \in Nat \ {0} /\ Word \in Nat \ {0} /\ Xword \in Nat \ {0} /\ Half <= Word /\ Word <= Xword
  BY ElfAssumption
<1>2. Half \in 1 .. Xword /\ Word \in 1 .. Xword /\ Xword \in 1 .. Xword /\ 1 \in 1 .. Xword
  BY <1>1
<1>3. Nibble \in Nat \ {0} /\ Byte = Nibble * Nibble
  BY ElfAssumption
<1>4. Nibble * Nibble \in Nat \ {0}
  BY <1>3
<1>5. \A w \in 0 .. Xword : Power[w] \in Nat \ {0}
  BY ElfAssumption
<1> QED
  BY <1>2, <1>3, <1>4, <1>5

(* A byte swap gives a number. *)
LEMMA SwappedType ==
    ASSUME NEW v \in Nat, NEW w \in 1 .. Xword, NEW i \in Nat
    PROVE  Swapped(v, w, i) \in Nat
<1>1. CASE i \notin 1 .. w
  BY <1>1 DEF Swapped
<1>2. CASE i \in 1 .. w
  <2>1. Xword \in Nat /\ w - i \in 0 .. Xword /\ i - 1 \in 0 .. Xword
    <3>1. Xword \in Nat
      BY ElfAssumption
    <3> QED
      BY <1>2, <3>1
  <2>2. PICK p \in Nat \ {0} : p = Power[w - i]
    BY <2>1, PowerType
  <2>3. PICK q \in Nat \ {0} : q = Power[i - 1]
    BY <2>1, PowerType
  <2>4. PICK b \in Nat \ {0} : b = Byte
    BY PowerType
  <2>5. v \div q \in Nat
    OBVIOUS
  <2>6. (v \div q) % b \in Nat
    BY <2>5, Remainder
  <2>7. p * ((v \div q) % b) \in Nat
    BY <2>6
  <2> QED
    BY <1>2, <2>2, <2>3, <2>4, <2>7 DEF Swapped
<1> QED
  BY <1>1, <1>2

LEMMA SwizzleType ==
    ASSUME NEW v \in Nat, NEW w \in 1 .. Xword, NEW from, NEW to
    PROVE  swizzle(v, w, from, to) \in Nat
<1>1. \A i \in Nat : Swapped(v, w, i) \in Nat
  BY SwappedType
<1>2. \A i \in 1 .. 8 : Swapped(v, w, i) \in Nat
  BY <1>1
<1> QED
  BY <1>2 DEF swizzle

(* The canonical forms of the headers. *)
LEMMA OffType == Off \in 1 .. Xword
  BY PowerType DEF Off

LEMMA HeaderType == ASSUME file \in Files PROVE canon_hdr(file.ehdr, Ehdr) \in Header
<1>1. file.ehdr \in Header
  BY FindAddressAssumption DEF Header
<1>2. DOMAIN file.ehdr = {"version", "phoff", "shoff", "phentsize", "phnum", "shentsize", "shnum", "shstrndx"}
  BY <1>1 DEF Header
<1>3. \A f \in DOMAIN file.ehdr : file.ehdr[f] \in Nat /\ Ehdr[f] \in 1 .. Xword
  BY <1>1, <1>2, OffType, PowerType DEF Header, Ehdr
<1>4. \A f \in DOMAIN file.ehdr : swizzle(file.ehdr[f], Ehdr[f], file.order, Native) \in Nat
  BY <1>3, SwizzleType
<1> QED
  BY <1>2, <1>4 DEF canon_hdr, Header

LEMMA SectionType ==
    ASSUME file \in Files, hdr \in Header, NEW i \in Nat,
           hdr.shoff + i * hdr.shentsize \in 0 .. file.len - 1
    PROVE  SectionAt(i) \in Section
<1> DEFINE h == file.shdr[hdr.shoff + i * hdr.shentsize]
           c == canon_hdr(h, Shdr)
<1>1. h \in [name : Nat, type : Nat, offset : Nat, size : Nat, link : Nat]
  BY FindAddressAssumption DEF SectionEntry
<1>2. DOMAIN h = {"name", "type", "offset", "size", "link"}
  BY <1>1
<1>3. \A f \in DOMAIN h : h[f] \in Nat /\ Shdr[f] \in 1 .. Xword
  BY <1>1, <1>2, OffType, PowerType DEF Shdr
<1>4. \A f \in DOMAIN h : swizzle(h[f], Shdr[f], file.order, Native) \in Nat
  BY <1>3, SwizzleType
<1>5. c \in [name : Nat, type : Nat, offset : Nat, size : Nat, link : Nat]
  BY <1>2, <1>4 DEF canon_hdr
<1>6. Link(c.link) \in 0 .. Power[Half] - 1
  <2>1. PICK p \in Nat \ {0} : p = Power[Half]
    BY PowerType
  <2>2. c.link \in Nat
    BY <1>5
  <2>3. c.link % p \in 0 .. p - 1
    BY <2>2, Remainder
  <2> QED
    BY <2>1, <2>3 DEF Link
<1>7. [c EXCEPT !.link = Link(c.link)] \in Section
  BY <1>5, <1>6 DEF Section
<1> QED
  BY <1>7 DEF SectionAt, SectionHeader

LEMMA SymbolType ==
    ASSUME file \in Files, pos \in 0 .. file.len - 1
    PROVE  sym.value \in Nat
<1> DEFINE h == file.sym[pos]
<1>1. h \in [name : Nat, info : Nat, value : Nat]
  BY FindAddressAssumption
<1>2. DOMAIN h = {"name", "info", "value"} /\ h["value"] \in Nat /\ Sym["value"] \in 1 .. Xword
  BY <1>1, OffType DEF Sym
<1>3. sym.value = swizzle(h["value"], Sym["value"], file.order, Native)
  BY <1>2 DEF sym, canon_hdr
<1> QED
  BY <1>2, <1>3, SwizzleType

LEMMA SizeType ==
    ASSUME file.class \in {"elf32", "elf64"}, NEW struct \in {"Ident", "Ehdr", "Phdr", "Shdr", "Sym"}
    PROVE  SizeOf(struct) \in Nat \ {0}
  BY ElfAssumption DEF SizeOf

(* What is loaded and yet not in the file wraps around. *)
LEMMA LoadedWraps ==
    ASSUME file \in Files, NEW at \in Nat, NEW size \in Nat, loads(at, size)
    PROVE  InFile(at, size) \/ Wraps(at, size)
<1>1. PICK m \in Nat \ {0} : m = Power[Xword]
  BY PowerType
<1>2. (at + size) % m <= file.len /\ at + size \in Nat /\ file.len \in Nat
  BY <1>1, FindAddressAssumption DEF loads, End
<1>3. CASE at + size < m
  <2>1. (at + size) % m = at + size
    BY <1>2, <1>3, Remainder
  <2> QED
    BY <1>2, <2>1 DEF InFile
<1>4. CASE at + size >= m
  BY <1>1, <1>4 DEF Wraps
<1> QED
  BY <1>2, <1>3, <1>4

(* A table whose size is an int is loaded in that size.                    *)
LEMMA IntSize ==
    ASSUME NEW entsize \in Nat, NEW n \in Nat, IsInt(entsize * n)
    PROVE  TableSize(entsize, n) = entsize * n
<1>1. PICK z \in Nat : z = entsize * n
  OBVIOUS
<1>2. PICK p \in Nat \ {0} : p = Power[Word]
  BY PowerType
<1>3. z % p = z
  <2>1. z < p
    BY <1>1, <1>2 DEF IsInt
  <2> QED
    BY <1>1, <1>2, <2>1, Remainder
<1> QED
  BY <1>1, <1>2, <1>3 DEF TableSize

LEMMA TableStrays ==
    ASSUME file \in Files, file.class \in {"elf32", "elf64"}, NEW struct \in {"Phdr", "Shdr"},
           NEW at \in Nat, NEW entsize \in Nat, NEW n \in Nat
    PROVE  /\ TableFails(struct, at, entsize, n) \in {"ok", "aborted", "stray"}
           /\ TableFails(struct, at, entsize, n) = "stray" =>
                 \/ Overflows(entsize, n) \/ Wraps(at, entsize * n)
                 \/ entsize < SizeOf(struct)
           /\ TableFails(struct, at, entsize, n) = "ok" /\ n > 0 =>
                 InFile(at, entsize * n) /\ ~(entsize < SizeOf(struct))
<1>1. PICK z \in Nat : z = entsize * n
  OBVIOUS
<1>2. loads(at, z) => InFile(at, z) \/ Wraps(at, z)
  BY LoadedWraps
<1>3. Overflows(entsize, n) \/ TableSize(entsize, n) = z
  BY <1>1, IntSize DEF Overflows
<1> QED
  BY <1>1, <1>2, <1>3 DEF TableFails

(* An entry of a table that is in the file is in the file. *)
LEMMA EntryInFile ==
    ASSUME NEW len \in Nat, NEW at \in Nat, NEW e \in Nat, NEW n \in Nat, NEW i \in Nat,
           e >= 1, i < n, at + e * n <= len
    PROVE  at + i * e \in 0 .. len - 1
<1>1. i * e \in Nat /\ e * n \in Nat /\ i * e + e = (i + 1) * e
  OBVIOUS
<1>2. (i + 1) * e <= e * n
  OBVIOUS
<1> QED
  BY <1>1, <1>2

(* A place before the end of a table, closer than one symbol to it. *)
LEMMA Ragged ==
    ASSUME NEW size \in Nat, NEW e \in Nat \ {0}, NEW k \in Nat, k * e < size, size < k * e + e
    PROVE  size % e # 0
<1>1. PICK r \in 1 .. e - 1 : size = k * e + r
  <2>1. size - k * e \in 1 .. e - 1 /\ size = k * e + (size - k * e)
    OBVIOUS
  <2> QED
    BY <2>1
<1>2. (k * e + r) % e = r
  OBVIOUS
<1> QED
  BY <1>1, <1>2

LEMMA FindInit == Init => FindInv
<1> SUFFICES ASSUME Init PROVE FindInv
  OBVIOUS
<1>1. Len(objects) \in Nat
  BY FindAddressAssumption DEF Init
<1>2. sections = <<>> /\ Len(sections) = 0 /\ sections \in Seq(Section)
  BY DEF Init
<1>3. TypeOK
  BY <1>1, <1>2 DEF Init, TypeOK, Running, Section
<1> QED
  BY <1>2, <1>3 DEF Init, FindInv, StraysAsListed

(* What a state says of its sections. *)
LEMMA SectionsAre ==
    ASSUME TypeOK
    PROVE  /\ Len(sections) \in Nat /\ DOMAIN sections = 1 .. Len(sections)
           /\ \A i \in DOMAIN sections : sections[i] \in Section
           /\ \A i \in Nat : valid(i) => i + 1 \in DOMAIN sections /\ get_section(i) = sections[i + 1]
                                         /\ get_section(i) \in Section
<1>1. sections \in Seq(Section)
  BY DEF TypeOK, Section
<1>2. Len(sections) \in Nat /\ DOMAIN sections = 1 .. Len(sections) /\ \A i \in DOMAIN sections : sections[i] \in Section
  BY <1>1
<1> QED
  BY <1>2 DEF valid, get_section

(* A string table that is read beside the file wraps around. *)
LEMMA StringsStray ==
    ASSUME TypeOK, file \in Files, NEW i \in Nat
    PROVE  /\ as_strtab(i) \in {"ok", "aborted", "killed", "stray"}
           /\ as_strtab(i) = "stray" => \E k \in DOMAIN sections : Wraps(sections[k].offset, sections[k].size)
<1>1. as_strtab(i) \in {"ok", "aborted", "killed", "stray"}
  BY DEF as_strtab
<1>2. ASSUME as_strtab(i) = "stray"
      PROVE  \E k \in DOMAIN sections : Wraps(sections[k].offset, sections[k].size)
  <2>1. /\ valid(i) /\ loads(get_section(i).offset, get_section(i).size)
        /\ ~InFile(get_section(i).offset, get_section(i).size)
    BY <1>2 DEF as_strtab
  <2>2. i + 1 \in DOMAIN sections /\ get_section(i) = sections[i + 1] /\ get_section(i) \in Section
    BY <2>1, SectionsAre
  <2>3. get_section(i).offset \in Nat /\ get_section(i).size \in Nat
    BY <2>2 DEF Section
  <2> QED
    BY <2>1, <2>2, <2>3, LoadedWraps
<1> QED
  BY <1>1, <1>2

(* A step before the sections are known, or one that ends the lookup in    *)
(* another way than by reading beside the file.                            *)
LEMMA ControlStep ==
    ASSUME FindInv, TypeOK', UNCHANGED <<file, hdr, sections, sec>>,
           pc' \in {"open", "ident", "aborted", "killed", "exited", "done"},
           pc' \in {"open", "ident"} => pc \in {"phdr", "open"}, pc' = "done" => pc = "section"
    PROVE  FindInv'
  BY DEF FindInv, StraysAsListed

LEMMA OpeningInv ==
    ASSUME FindInv, callback \/ OpenFile \/ CreateLoader \/ ReadIdent
    PROVE  FindInv'
<1> USE DEF Running, Failures
<1>1. Objects \subseteq Seq(Nat) /\ objects \in Objects /\ file \in Files
  BY FindAddressAssumption DEF FindInv, TypeOK
<1>2. Len(objects) \in Nat /\ \A i \in 1 .. Len(objects) : objects[i] \in Nat
  BY <1>1
<1>3. CASE callback
  <2>1. visited + 1 \in 1 .. Len(objects) /\ OffsetAfter(objects[visited + 1]) \in Nat
    BY <1>2, <1>3 DEF callback, OffsetAfter, FindInv, TypeOK
  <2>2. TypeOK'
    BY <1>3, <2>1 DEF callback, FindInv, TypeOK, elfVars, loopVars
  <2> QED
    BY <1>3, <2>2 DEF callback, FindInv, StraysAsListed, elfVars, loopVars
<1>4. CASE OpenFile
  <2>1. TypeOK' /\ UNCHANGED <<file, hdr, sections, sec>> /\ pc = "phdr" /\ pc' \in {"open", "exited"}
    BY <1>4 DEF OpenFile, FindInv, TypeOK, elfVars, loopVars, offsetVars
  <2> QED
    BY <2>1, ControlStep
<1>5. CASE CreateLoader
  <2>1. TypeOK' /\ UNCHANGED <<file, hdr, sections, sec>> /\ pc = "open" /\ pc' \in {"ident", "aborted"}
    BY <1>5 DEF CreateLoader, Continue, FindInv, TypeOK, elfVars, loopVars, offsetVars
  <2> QED
    BY <2>1, ControlStep
<1>6. CASE ReadIdent
  <2>1. TypeOK' /\ UNCHANGED <<file, hdr, sections, sec>> /\ pc = "ident" /\ pc' \in {"header", "aborted"}
        /\ (pc' = "header" => IdentOK)
    BY <1>6 DEF ReadIdent, Continue, FindInv, TypeOK, elfVars, loopVars, offsetVars
  <2>2. CASE pc' = "header"
    BY <2>1, <2>2 DEF FindInv, IdentOK, StraysAsListed
  <2> QED
    BY <2>1, <2>2, ControlStep
<1> QED
  BY <1>3, <1>4, <1>5, <1>6

LEMMA ReadHeaderInv == ASSUME FindInv, ReadHeader PROVE FindInv'
<1>1. /\ pc = "header" /\ UNCHANGED <<file, sections, sec>> /\ TypeOK'
      /\ pc' \in {"segments", "aborted"}
      /\ pc' = "segments" => hdr' = canon_hdr(file.ehdr, Ehdr)
  BY DEF ReadHeader, Continue, FindInv, TypeOK, offsetVars, loopVars, Running, Failures
<1>2. pc' = "segments" => hdr' \in Header
  BY <1>1, HeaderType DEF FindInv
<1> QED
  BY <1>1, <1>2 DEF FindInv, StraysAsListed

LEMMA LoadSegmentsInv == ASSUME FindInv, LoadSegments PROVE FindInv'
<1> DEFINE fails == TableFails("Phdr", hdr.phoff, hdr.phentsize, hdr.phnum)
<1>1. /\ pc = "segments" /\ UNCHANGED <<elfVars, offsetVars, loopVars>>
      /\ pc' = IF fails = "ok" THEN "sections" ELSE fails
  BY DEF LoadSegments, Continue
<1>2. hdr.phoff \in Nat /\ hdr.phentsize \in Nat /\ hdr.phnum \in Nat /\ file \in Files
      /\ file.class \in {"elf32", "elf64"}
  BY <1>1 DEF FindInv, Header
<1>3. /\ fails \in {"ok", "aborted", "stray"}
      /\ fails = "stray" =>
            \/ Overflows(hdr.phentsize, hdr.phnum) \/ Wraps(hdr.phoff, hdr.phentsize * hdr.phnum)
            \/ hdr.phentsize < SizeOf("Phdr")
  BY <1>2, TableStrays
<1> HIDE DEF fails
<1>4. pc' \in {"sections", "aborted", "stray"} /\ (pc' = "stray" => fails = "stray")
  BY <1>1, <1>3
<1>5. TypeOK'
  BY <1>1, <1>4 DEF FindInv, TypeOK, elfVars, offsetVars, loopVars, Running, Failures
<1>6. pc' = "stray" => StraysAsListed'
  BY <1>1, <1>3, <1>4 DEF StraysAsListed, elfVars, Overflows, IsInt, Wraps, SizeOf
<1>7. StraysAsListed'
  BY <1>6 DEF StraysAsListed
<1> QED
  BY <1>1, <1>4, <1>5, <1>7 DEF FindInv, elfVars, loopVars

LEMMA LoadSectionsInv == ASSUME FindInv, LoadSections PROVE FindInv'
<1> DEFINE fails == TableFails("Shdr", hdr.shoff, hdr.shentsize, hdr.shnum)
<1>1. /\ pc = "sections" /\ UNCHANGED <<file, hdr, offsetVars, loopVars>>
      /\ pc' = IF fails = "ok" THEN "section" ELSE fails
      /\ sections' = IF pc' = "section" THEN [i \in 1 .. hdr.shnum |-> SectionAt(i - 1)] ELSE sections
  BY DEF LoadSections, Continue
<1>2. hdr.shoff \in Nat /\ hdr.shentsize \in Nat /\ hdr.shnum \in Nat /\ file \in Files /\ hdr \in Header
      /\ file.class \in {"elf32", "elf64"} /\ sections = <<>> /\ sec = 0
  BY <1>1 DEF FindInv, Header
<1>3. /\ fails \in {"ok", "aborted", "stray"}
      /\ fails = "stray" =>
            \/ Overflows(hdr.shentsize, hdr.shnum) \/ Wraps(hdr.shoff, hdr.shentsize * hdr.shnum)
            \/ hdr.shentsize < SizeOf("Shdr")
      /\ fails = "ok" /\ hdr.shnum > 0 =>
            InFile(hdr.shoff, hdr.shentsize * hdr.shnum) /\ ~(hdr.shentsize < SizeOf("Shdr"))
  BY <1>2, TableStrays
<1> HIDE DEF fails
<1>4. /\ pc' \in {"section", "aborted", "stray"} /\ (pc' = "stray" => fails = "stray")
      /\ (pc' = "section" => fails = "ok")
  BY <1>1, <1>3
<1>5. sections' \in Seq(Section)
  <2>1. CASE pc' = "section"
    <3>1. ASSUME NEW i \in 1 .. hdr.shnum PROVE SectionAt(i - 1) \in Section
      <4>1. i - 1 \in Nat /\ i - 1 < hdr.shnum /\ hdr.shnum > 0
        BY <1>2
      <4>2. PICK z \in Nat \ {0} : z = SizeOf("Shdr")
        BY <1>2, SizeType
      <4>3. hdr.shentsize >= 1 /\ InFile(hdr.shoff, hdr.shentsize * hdr.shnum)
        BY <1>2, <1>3, <1>4, <2>1, <4>1, <4>2
      <4>4. file.len \in Nat /\ hdr.shoff + hdr.shentsize * hdr.shnum <= file.len
        BY <1>2, <4>3, FindAddressAssumption DEF InFile
      <4>5. hdr.shoff + (i - 1) * hdr.shentsize \in 0 .. file.len - 1
        BY <1>2, <4>1, <4>3, <4>4, EntryInFile
      <4> QED
        BY <1>2, <4>1, <4>5, SectionType
    <3>2. sections' = [i \in 1 .. hdr.shnum |-> SectionAt(i - 1)]
      BY <1>1, <2>1
    <3> QED
      BY <1>2, <3>1, <3>2
  <2>2. CASE pc' # "section"
    BY <1>1, <1>2, <2>2
  <2> QED
    BY <2>1, <2>2
<1>6. Len(sections') \in Nat
  BY <1>5
<1>7. TypeOK'
  BY <1>1, <1>2, <1>4, <1>5, <1>6
     DEF FindInv, TypeOK, Section, offsetVars, loopVars, Running, Failures
<1>8. pc' = "stray" => StraysAsListed'
  BY <1>1, <1>3, <1>4 DEF StraysAsListed, Overflows, IsInt, Wraps, SizeOf
<1>9. StraysAsListed'
  BY <1>8 DEF StraysAsListed
<1> QED
  BY <1>1, <1>2, <1>4, <1>7, <1>9 DEF FindInv

---------------------------------------------------------------------------
(* The loops over the sections and the symbols.                            *)

LEMMA SecType == ASSUME TypeOK, valid(sec) PROVE sec + 1 \in 0 .. Len(sections) /\ sec \in Nat
  BY SectionsAre DEF TypeOK, valid

LEMMA SkipSectionInv == ASSUME FindInv, SkipSection PROVE FindInv'
<1>1. pc = "section" /\ UNCHANGED <<elfVars, offsetVars, pos, addr, pc>> /\ sec' = sec + 1 /\ valid(sec)
  BY DEF SkipSection
<1>2. TypeOK'
  BY <1>1, SecType DEF FindInv, TypeOK, elfVars, offsetVars
<1> QED
  BY <1>1, <1>2 DEF FindInv, StraysAsListed, elfVars

LEMMA BeginTableInv == ASSUME FindInv, BeginTable PROVE FindInv'
<1> DEFINE s == get_section(sec)
<1>1. /\ pc = "section" /\ UNCHANGED <<file, hdr, sections, offsetVars, sec, addr>>
      /\ valid(sec) /\ IsTable(s) /\ pos' = begin(s)
      /\ \/ get_name(s) # "ok" /\ pc' = get_name(s)
         \/ get_name(s) = "ok" /\ \E f \in as_symtab(s) : pc' = IF f = "ok" THEN "symbols" ELSE f
  BY DEF BeginTable, Continue, elfVars
<1>2. hdr.shstrndx \in Nat /\ file \in Files /\ TypeOK /\ sec \in Nat
  BY <1>1, SecType DEF FindInv, Header
<1>3. s \in Section /\ sec + 1 \in DOMAIN sections /\ s = sections[sec + 1]
  BY <1>1, <1>2, SectionsAre
<1>4. s.offset \in Nat /\ s.size \in Nat /\ s.link \in Nat
  <2>1. Power[Half] \in Nat
    BY PowerType
  <2> QED
    BY <1>3, <2>1 DEF Section
<1>5. /\ get_name(s) \in {"ok", "aborted", "killed", "stray"}
      /\ get_name(s) = "stray" => \E k \in DOMAIN sections : Wraps(sections[k].offset, sections[k].size)
  BY <1>2, StringsStray DEF get_name
<1>6. /\ as_strtab(strs(s)) \in {"ok", "aborted", "killed", "stray"}
      /\ as_strtab(strs(s)) = "stray" => \E k \in DOMAIN sections : Wraps(sections[k].offset, sections[k].size)
  BY <1>2, <1>4, StringsStray DEF strs
<1>7. /\ as_symtab(s) \subseteq {"ok", "aborted", "killed", "stray"}
      /\ "ok" \in as_symtab(s) => DataLoads(s) = "ok"
      /\ "stray" \in as_symtab(s) => as_strtab(strs(s)) = "stray"
  BY <1>6 DEF as_symtab, DataLoads
<1>8. /\ pc' \in {"symbols", "aborted", "killed", "stray"}
      /\ pc' = "symbols" => loads(s.offset, s.size)
      /\ pc' = "stray" => \E k \in DOMAIN sections : Wraps(sections[k].offset, sections[k].size)
  <2>1. CASE get_name(s) # "ok" /\ pc' = get_name(s)
    BY <1>5, <2>1
  <2>2. ASSUME NEW f \in as_symtab(s), pc' = IF f = "ok" THEN "symbols" ELSE f
        PROVE  /\ pc' \in {"symbols", "aborted", "killed", "stray"}
               /\ pc' = "symbols" => loads(s.offset, s.size)
               /\ pc' = "stray" => \E k \in DOMAIN sections : Wraps(sections[k].offset, sections[k].size)
    <3>1. f \in {"ok", "aborted", "killed", "stray"}
      BY <1>7
    <3>2. pc' = "symbols" => f = "ok"
      BY <2>2, <3>1
    <3>3. pc' = "stray" => f = "stray"
      BY <2>2, <3>1
    <3>4. f = "ok" => loads(s.offset, s.size)
      BY <1>7 DEF DataLoads
    <3> QED
      BY <1>6, <1>7, <2>2, <3>1, <3>2, <3>3, <3>4
  <2> QED
    BY <1>1, <2>1, <2>2
<1>9. TypeOK'
  BY <1>1, <1>2, <1>4, <1>8 DEF TypeOK, offsetVars, begin, Running, Failures
<1>10. pc' = "symbols" => InTable'
  <2>1. SUFFICES ASSUME pc' = "symbols" PROVE InTable'
    OBVIOUS
  <2>2. pos' = s.offset + 0 * stride /\ pos' <= s.offset + s.size
    <3>1. PICK z \in Nat : z = stride
      BY <1>1, SizeType DEF FindInv, stride
    <3> QED
      BY <1>1, <1>4, <3>1 DEF begin
  <2>3. s' = s /\ stride' = stride /\ valid(sec)' = valid(sec)
    BY <1>1 DEF get_section, stride, SizeOf, valid
  <2>4. loads(s.offset, s.size)' = loads(s.offset, s.size)
    BY <1>1, <2>3 DEF loads, End, get_section
  <2>5. 0 \in Nat
    OBVIOUS
  <2> QED
    BY <1>1, <1>8, <2>1, <2>2, <2>3, <2>4, <2>5 DEF InTable, begin, end, IsTable
<1>11. StraysAsListed'
  BY <1>1, <1>8 DEF StraysAsListed, Wraps
<1> QED
  BY <1>1, <1>8, <1>9, <1>10, <1>11 DEF FindInv

(* What the iterator points to. *)
LEMMA InTableIs ==
    ASSUME FindInv, pc = "symbols"
    PROVE  /\ sec \in Nat /\ get_section(sec) \in Section /\ sec + 1 \in DOMAIN sections
           /\ get_section(sec) = sections[sec + 1] /\ valid(sec) /\ InTable
           /\ begin(get_section(sec)) = get_section(sec).offset /\ get_section(sec).offset \in Nat
           /\ end(get_section(sec)) = get_section(sec).offset + get_section(sec).size
           /\ get_section(sec).size \in Nat /\ stride \in Nat \ {0}
<1>1. InTable /\ TypeOK /\ file.class \in {"elf32", "elf64"}
  BY DEF FindInv
<1>2. valid(sec) /\ sec \in Nat
  BY <1>1, SecType DEF InTable
<1>3. get_section(sec) \in Section /\ sec + 1 \in DOMAIN sections /\ get_section(sec) = sections[sec + 1]
  BY <1>1, <1>2, SectionsAre
<1>4. stride \in Nat \ {0}
  BY <1>1, SizeType DEF stride
<1> QED
  BY <1>1, <1>2, <1>3, <1>4 DEF begin, end, Section

LEMMA NextSymbol ==
    ASSUME FindInv, pc = "symbols", Inside, pos' = NextPlace, addr' \in Nat,
           UNCHANGED <<elfVars, offsetVars, sec, pc>>
    PROVE  FindInv'
<1>1. InTable /\ TypeOK /\ pos \in Nat /\ stride \in Nat \ {0} /\ begin(get_section(sec)) \in Nat
  BY InTableIs DEF FindInv, TypeOK
<1>2. PICK k \in Nat : pos = begin(get_section(sec)) + k * stride
  BY <1>1 DEF InTable
<1>3. pos' = begin(get_section(sec)) + (k + 1) * stride /\ pos' <= end(get_section(sec)) /\ pos' \in Nat
  BY <1>1, <1>2 DEF NextPlace, Inside
<1>4. /\ get_section(sec)' = get_section(sec) /\ stride' = stride /\ valid(sec)' = valid(sec)
      /\ UNCHANGED <<file, hdr, sections, sec, pc>>
  BY DEF get_section, stride, SizeOf, valid, elfVars
<1>5. InTable'
  <2>1. k + 1 \in Nat
    OBVIOUS
  <2>2. loads(get_section(sec).offset, get_section(sec).size)' = loads(get_section(sec).offset, get_section(sec).size)
    BY <1>4 DEF loads, End
  <2> QED
    BY <1>1, <1>3, <1>4, <2>1, <2>2 DEF InTable, IsTable, begin, end
<1>6. TypeOK'
  BY <1>1, <1>3 DEF TypeOK, elfVars, offsetVars
<1> QED
  BY <1>4, <1>5, <1>6 DEF FindInv, StraysAsListed

LEMMA SkipSymbolInv == ASSUME FindInv, SkipSymbol PROVE FindInv'
  BY NextSymbol DEF SkipSymbol, FindInv, TypeOK

LEMMA MatchSymbolInv == ASSUME FindInv, MatchSymbol PROVE FindInv'
<1>1. pc = "symbols" /\ Inside /\ pos' = NextPlace /\ addr' = Address /\ UNCHANGED <<elfVars, offsetVars, sec, pc>>
  BY DEF MatchSymbol
<1>2. pos \in 0 .. file.len - 1 /\ file \in Files
  <2>1. pos \in Nat /\ stride \in Nat \ {0} /\ file \in Files /\ file.len \in Nat
    BY <1>1, InTableIs, FindAddressAssumption DEF FindInv, TypeOK
  <2>2. pos + stride <= file.len
    BY <1>1 DEF Inside, InFile
  <2> QED
    BY <2>1, <2>2
<1>3. sym.value \in Nat
  BY <1>2, SymbolType
<1>4. addr' \in Nat
  BY <1>1, <1>3 DEF Address, FindInv, TypeOK
<1> QED
  BY <1>1, <1>4, NextSymbol

LEMMA PastTableInv == ASSUME FindInv, PastTable PROVE FindInv'
<1> DEFINE s == get_section(sec)
<1>1. pc = "symbols" /\ pc' = "stray" /\ ~AtEnd /\ ~Inside /\ UNCHANGED <<elfVars, offsetVars, loopVars>>
  BY DEF PastTable
<1>2. /\ InTable /\ pos \in Nat /\ stride \in Nat \ {0} /\ sec + 1 \in DOMAIN sections /\ s = sections[sec + 1]
      /\ begin(s) = s.offset /\ s.offset \in Nat /\ s.size \in Nat /\ end(s) = s.offset + s.size
      /\ file \in Files
  BY <1>1, InTableIs DEF FindInv, TypeOK
<1>3. PICK k \in Nat : pos = s.offset + k * stride
  BY <1>2 DEF InTable
<1>4. pos < s.offset + s.size /\ k * stride \in Nat
  BY <1>1, <1>2, <1>3 DEF AtEnd, InTable
<1>5. ASSUME Wraps(s.offset, s.size) PROVE StraysAsListed'
  <2>1. \E i \in DOMAIN sections : Wraps(sections[i].offset, sections[i].size)
    BY <1>2, <1>5
  <2> QED
    BY <1>1, <2>1 DEF StraysAsListed, elfVars, Wraps
<1>6. ASSUME ~Wraps(s.offset, s.size) PROVE StraysAsListed'
  <2>1. InFile(s.offset, s.size) /\ file.len \in Nat
    BY <1>2, <1>6, LoadedWraps, FindAddressAssumption DEF InTable
  <2>2. ~(pos + stride <= s.offset + s.size)
    BY <1>1, <1>2, <2>1 DEF Inside, InFile
  <2>3. k * stride < s.size /\ s.size < k * stride + stride
    BY <1>2, <1>3, <1>4, <2>2
  <2>4. s.size % stride # 0
    BY <1>2, <2>3, Ragged
  <2>5. \E i \in DOMAIN sections : IsTable(sections[i]) /\ sections[i].size % stride # 0
    BY <1>2, <2>4 DEF InTable
  <2> QED
    BY <1>1, <2>5 DEF StraysAsListed, elfVars, IsTable, stride, SizeOf
<1>7. StraysAsListed'
  BY <1>5, <1>6
<1>8. TypeOK'
  BY <1>1 DEF FindInv, TypeOK, elfVars, offsetVars, loopVars, Failures
<1> QED
  BY <1>1, <1>7, <1>8 DEF FindInv, elfVars

LEMMA LeaveInv == ASSUME FindInv, BadName \/ EndTable \/ Return PROVE FindInv'
<1>1. CASE BadName
  <2>1. TypeOK' /\ UNCHANGED <<file, hdr, sections, sec>> /\ pc' = "aborted"
    BY <1>1 DEF BadName, FindInv, TypeOK, elfVars, offsetVars, loopVars, Failures
  <2> QED
    BY <2>1, ControlStep
<1>2. CASE EndTable
  <2>1. pc = "symbols" /\ pc' = "section" /\ UNCHANGED <<file, hdr, sections>> /\ sec' = sec + 1
    BY <1>2 DEF EndTable, elfVars
  <2>2. sec + 1 \in 0 .. Len(sections)
    BY <2>1, InTableIs, SecType DEF FindInv
  <2>3. TypeOK'
    BY <1>2, <2>1, <2>2 DEF EndTable, FindInv, TypeOK, elfVars, offsetVars, Running
  <2> QED
    BY <2>1, <2>3 DEF FindInv, StraysAsListed
<1>3. CASE Return
  <2>1. TypeOK' /\ UNCHANGED <<file, hdr, sections, sec>> /\ pc' = "done" /\ pc = "section"
    BY <1>3 DEF Return, FindInv, TypeOK, elfVars, offsetVars, loopVars
  <2> QED
    BY <2>1, ControlStep
<1> QED
  BY <1>1, <1>2, <1>3

LEMMA FindStep == FindInv /\ [Next]_vars => FindInv'
<1> SUFFICES ASSUME FindInv, [Next]_vars PROVE FindInv'
  OBVIOUS
<1>1. CASE UNCHANGED vars
  <2>1. UNCHANGED <<file, hdr, sections, objects, visited, run, offset, sec, pos, addr, pc>>
    BY <1>1 DEF vars, elfVars, offsetVars, loopVars
  <2>2. TypeOK' /\ StraysAsListed'
    BY <2>1 DEF FindInv, TypeOK, StraysAsListed, Wraps, SizeOf, stride, IsTable
  <2>3. InTable' = InTable
    BY <2>1 DEF InTable, get_section, valid, IsTable, loads, End, begin, end, stride, SizeOf
  <2> QED
    BY <2>1, <2>2, <2>3 DEF FindInv
<1> QED
  BY <1>1, OpeningInv, ReadHeaderInv, LoadSegmentsInv, LoadSectionsInv, SkipSectionInv,
     BeginTableInv, SkipSymbolInv, MatchSymbolInv, PastTableInv, LeaveInv
     DEF Next, LookUp, Stopped

(* Every variable keeps its type, for every file and whatever its bytes.   *)
THEOREM TypeCorrect == Spec => []TypeOK
<1>1. FindInv => TypeOK
  BY DEF FindInv
<1> QED
  BY FindInit, FindStep, <1>1, PTL DEF Spec

(* The reader goes beside what it has loaded only in the cases that are    *)
(* listed: the size of a table of headers is no int, an offset and a size  *)
(* wrap around, entries are smaller than their structs, or the last entry  *)
(* of a symbol table is cut off.                                           *)
THEOREM StraysAlwaysListed == Spec => []StraysAsListed
<1>1. FindInv => StraysAsListed
  BY DEF FindInv
<1> QED
  BY FindInit, FindStep, <1>1, PTL DEF Spec

---------------------------------------------------------------------------
(* The answer.  A place <<i, k>> is the k-th symbol of section i, counted  *)
(* from 0; Found are the places the loops have passed that hold a function *)
(* with the name that is looked for.                                       *)

Matches(i, k) ==
    LET y == SymbolIn(i, k) IN
    /\ IsTable(get_section(i)) /\ type(y) = stt.func
    /\ ~get_fails(strs(get_section(i)), y.name)
    /\ get(strs(get_section(i)), y.name) = func_name

Passed(i, k) ==
    /\ valid(i) /\ k * stride < get_section(i).size
    /\ i < sec \/ (pc = "symbols" /\ i = sec /\ begin(get_section(i)) + k * stride < pos)

Found == {p \in Nat \X Nat : Passed(p[1], p[2]) /\ Matches(p[1], p[2])}

(* addr is the address of the last place found. *)
LastFound ==
    \/ Found = {} /\ addr = 0
    \/ \E p \in Found :
          /\ \A q \in Found : q = p \/ Before(q, p)
          /\ addr = offset + SymbolIn(p[1], p[2]).value

Loops == {"section", "symbols", "done"}

AnswerInv ==
    /\ FindInv
    /\ run = 0 => visited = 0
    /\ run = 1 => visited > 0 /\ offset = objects[1]
    /\ pc # "phdr" => visited = Len(objects)
    /\ pc \in Running \ Loops => addr = 0 /\ sec = 0
    /\ pc \in Loops => LastFound
    /\ pc = "done" => ~valid(sec)

(* Two places of one table are as far apart as their numbers say. *)
LEMMA Distance ==
    ASSUME NEW e \in Nat \ {0}, NEW k \in Nat, NEW m \in Nat
    PROVE  /\ k * e \in Nat /\ m * e \in Nat /\ (m + 1) * e = m * e + e
           /\ k * e < m * e <=> k < m
<1>1. k < m => k * e < m * e
  <2>1. ASSUME k < m PROVE k * e < m * e
    <3>1. PICK d \in Nat \ {0} : m = k + d
      <4>1. m - k \in Nat \ {0} /\ m = k + (m - k)
        BY <2>1
      <4> QED
        BY <4>1
    <3>2. m * e = k * e + d * e /\ d * e \in Nat \ {0}
      BY <3>1
    <3> QED
      BY <3>2
  <2> QED
    BY <2>1
<1>2. m <= k => m * e <= k * e
  <2>1. ASSUME m <= k PROVE m * e <= k * e
    <3>1. PICK d \in Nat : k = m + d
      <4>1. k - m \in Nat /\ k = m + (k - m)
        BY <2>1
      <4> QED
        BY <4>1
    <3>2. k * e = m * e + d * e /\ d * e \in Nat
      BY <3>1
    <3> QED
      BY <3>2
  <2> QED
    BY <2>1
<1>3. k * e \in Nat /\ m * e \in Nat /\ (m + 1) * e = m * e + e
  OBVIOUS
<1> QED
  BY <1>1, <1>2, <1>3

(* What a place is does not change once the sections are loaded. *)
LEMMA PlacesStay ==
    ASSUME UNCHANGED elfVars, NEW i, NEW k
    PROVE  /\ Matches(i, k)' <=> Matches(i, k)
           /\ SymbolIn(i, k)' = SymbolIn(i, k)
           /\ get_section(i)' = get_section(i) /\ valid(i)' = valid(i) /\ stride' = stride
<1>1. UNCHANGED <<file, hdr, sections>>
  BY DEF elfVars
<1>2. /\ get_section(i)' = get_section(i) /\ valid(i)' = valid(i) /\ stride' = stride
      /\ strs(get_section(i))' = strs(get_section(i))
  BY <1>1 DEF get_section, valid, stride, SizeOf, strs
<1>3. SymbolIn(i, k)' = SymbolIn(i, k)
  BY <1>1, <1>2 DEF SymbolIn, canon_hdr, Sym, Off, begin
<1>4. Matches(i, k)' <=> Matches(i, k)
  BY <1>1, <1>2, <1>3 DEF Matches, IsTable, type, get_fails, get, Terminators, get_section
<1> QED
  BY <1>2, <1>3, <1>4

(* A step that finds nothing keeps the answer. *)
LEMMA FindsNothing ==
    ASSUME LastFound, UNCHANGED <<elfVars, offset, addr>>, Found' = Found
    PROVE  LastFound'
<1>1. CASE Found = {} /\ addr = 0
  BY <1>1 DEF LastFound
<1>2. ASSUME NEW p \in Found, \A q \in Found : q = p \/ Before(q, p),
             addr = offset + SymbolIn(p[1], p[2]).value
      PROVE  LastFound'
  <2>1. SymbolIn(p[1], p[2])' = SymbolIn(p[1], p[2])
    BY PlacesStay
  <2>2. addr' = offset' + SymbolIn(p[1], p[2])'.value
    BY <1>2, <2>1
  <2>3. \A q \in Found' : q = p \/ Before(q, p)
    BY <1>2
  <2> QED
    BY <1>2, <2>2, <2>3 DEF LastFound, Before
<1> QED
  BY <1>1, <1>2 DEF LastFound

(* Where the inner loop stands. *)
LEMMA Standing ==
    ASSUME FindInv, pc = "symbols"
    PROVE  \E m \in Nat :
              /\ pos = begin(get_section(sec)) + m * stride
              /\ ~AtEnd /\ Inside => m * stride < get_section(sec).size
              /\ \A k \in Nat : begin(get_section(sec)) + k * stride < pos <=> k < m
              /\ \A k \in Nat :
                    begin(get_section(sec)) + k * stride < pos + stride <=> (k < m \/ k = m)
<1>1. /\ InTable /\ stride \in Nat \ {0} /\ begin(get_section(sec)) \in Nat
      /\ get_section(sec).size \in Nat
      /\ end(get_section(sec)) = begin(get_section(sec)) + get_section(sec).size
  BY InTableIs
<1>2. PICK b \in Nat : b = begin(get_section(sec))
  BY <1>1
<1>3. PICK e \in Nat \ {0} : e = stride
  BY <1>1
<1>4. PICK m \in Nat : pos = b + m * e
  BY <1>1, <1>2, <1>3 DEF InTable
<1>5. m * e \in Nat
  BY Distance
<1>6. ~AtEnd /\ Inside => m * e < get_section(sec).size
  BY <1>1, <1>2, <1>3, <1>4, <1>5 DEF AtEnd, InTable
<1>7. ASSUME NEW k \in Nat PROVE b + k * e < pos <=> k < m
  BY <1>4, <1>5, Distance
<1>8. ASSUME NEW k \in Nat PROVE b + k * e < pos + e <=> (k < m \/ k = m)
  <2>1. k * e \in Nat /\ (m + 1) * e = m * e + e
    BY Distance
  <2>2. k * e < (m + 1) * e <=> k < m + 1
    BY Distance
  <2>3. k < m + 1 <=> (k < m \/ k = m)
    OBVIOUS
  <2> QED
    BY <1>4, <1>5, <2>1, <2>2, <2>3
<1> QED
  BY <1>2, <1>3, <1>4, <1>6, <1>7, <1>8

LEMMA SkipSectionFinds == ASSUME FindInv, SkipSection PROVE Found' = Found
<1>1. /\ pc = "section" /\ valid(sec) /\ ~IsTable(get_section(sec)) /\ sec' = sec + 1
      /\ UNCHANGED <<elfVars, pos, pc>> /\ sec \in Nat
  BY SecType DEF SkipSection, FindInv
<1>2. ASSUME NEW i \in Nat, NEW k \in Nat
      PROVE  (Passed(i, k) /\ Matches(i, k))' <=> (Passed(i, k) /\ Matches(i, k))
  <2>1. /\ Matches(i, k)' <=> Matches(i, k)
        /\ get_section(i)' = get_section(i) /\ valid(i)' = valid(i) /\ stride' = stride
    BY <1>1, PlacesStay
  <2>2. i < sec + 1 <=> i < sec \/ i = sec
    BY <1>1
  <2>3. i = sec => ~Matches(i, k)
    BY <1>1 DEF Matches
  <2> QED
    BY <1>1, <2>1, <2>2, <2>3 DEF Passed
<1> QED
  BY <1>2 DEF Found

LEMMA BeginTableFinds == ASSUME FindInv, BeginTable, pc' = "symbols" PROVE Found' = Found
<1>1. /\ pc = "section" /\ valid(sec) /\ sec' = sec /\ pos' = begin(get_section(sec))
      /\ UNCHANGED elfVars /\ sec \in Nat
  BY SecType DEF BeginTable, FindInv
<1>2. get_section(sec) \in Section /\ file.class \in {"elf32", "elf64"}
  BY <1>1, SectionsAre DEF FindInv
<1>3. stride \in Nat \ {0} /\ begin(get_section(sec)) \in Nat
  BY <1>2, SizeType DEF stride, begin, Section
<1>4. ASSUME NEW i \in Nat, NEW k \in Nat
      PROVE  (Passed(i, k) /\ Matches(i, k))' <=> (Passed(i, k) /\ Matches(i, k))
  <2>1. /\ Matches(i, k)' <=> Matches(i, k)
        /\ get_section(i)' = get_section(i) /\ valid(i)' = valid(i) /\ stride' = stride
    BY <1>1, PlacesStay
  <2>2. ~(i = sec /\ begin(get_section(i)) + k * stride < begin(get_section(sec)))
    <3>1. PICK e \in Nat \ {0} : e = stride
      BY <1>3
    <3>2. k * e \in Nat
      OBVIOUS
    <3> QED
      BY <1>3, <3>1, <3>2
  <2>3. begin(get_section(i))' = begin(get_section(i))
    BY <2>1 DEF begin
  <2> QED
    BY <1>1, <2>1, <2>2, <2>3 DEF Passed
<1> QED
  BY <1>4 DEF Found

LEMMA EndTableFinds == ASSUME FindInv, EndTable PROVE Found' = Found
<1>1. /\ pc = "symbols" /\ pc' = "section" /\ sec' = sec + 1 /\ pos = end(get_section(sec))
      /\ UNCHANGED elfVars
  BY DEF EndTable, AtEnd
<1>2. /\ sec \in Nat /\ stride \in Nat \ {0} /\ begin(get_section(sec)) \in Nat
      /\ get_section(sec).size \in Nat /\ pos = begin(get_section(sec)) + get_section(sec).size
  BY <1>1, InTableIs
<1>3. ASSUME NEW i \in Nat, NEW k \in Nat
      PROVE  (Passed(i, k) /\ Matches(i, k))' <=> (Passed(i, k) /\ Matches(i, k))
  <2>1. /\ Matches(i, k)' <=> Matches(i, k)
        /\ get_section(i)' = get_section(i) /\ valid(i)' = valid(i) /\ stride' = stride
    BY <1>1, PlacesStay
  <2>2. i < sec + 1 <=> i < sec \/ i = sec
    BY <1>2
  <2>3. ASSUME i = sec
        PROVE  k * stride < get_section(i).size <=> begin(get_section(i)) + k * stride < pos
    <3>1. PICK e \in Nat \ {0} : e = stride
      BY <1>2
    <3>2. k * e \in Nat
      OBVIOUS
    <3> QED
      BY <1>2, <2>3, <3>1, <3>2
  <2> QED
    BY <1>1, <2>1, <2>2, <2>3 DEF Passed
<1> QED
  BY <1>3 DEF Found

(* A step to the next symbol passes one place. *)
LEMMA NextFinds ==
    ASSUME FindInv, pc = "symbols", ~AtEnd, Inside, pos' = NextPlace,
           UNCHANGED <<elfVars, sec, pc>>
    PROVE  \E m \in Nat :
              /\ pos = begin(get_section(sec)) + m * stride
              /\ \A p \in Found : Before(p, <<sec, m>>)
              /\ Found' = Found \cup (IF Matches(sec, m) THEN {<<sec, m>>} ELSE {})
<1>1. /\ sec \in Nat /\ valid(sec)
  BY InTableIs
<1>2. PICK m \in Nat :
              /\ pos = begin(get_section(sec)) + m * stride
              /\ m * stride < get_section(sec).size
              /\ \A k \in Nat : begin(get_section(sec)) + k * stride < pos <=> k < m
              /\ \A k \in Nat :
                    begin(get_section(sec)) + k * stride < pos + stride <=> (k < m \/ k = m)
  BY Standing
<1>3. ASSUME NEW i \in Nat, NEW k \in Nat
      PROVE  /\ Passed(i, k) => i < sec \/ (i = sec /\ k < m)
             /\ Passed(i, k)' <=> Passed(i, k) \/ (i = sec /\ k = m)
             /\ Matches(i, k)' <=> Matches(i, k)
  <2>1. /\ Matches(i, k)' <=> Matches(i, k)
        /\ get_section(i)' = get_section(i) /\ valid(i)' = valid(i) /\ stride' = stride
    BY PlacesStay
  <2>2. begin(get_section(i))' = begin(get_section(i))
    BY <2>1 DEF begin
  <2>3. i = sec => (begin(get_section(i)) + k * stride < pos <=> k < m)
    BY <1>2
  <2>4. i = sec => (begin(get_section(i)) + k * stride < pos' <=> (k < m \/ k = m))
    BY <1>2 DEF NextPlace
  <2>5. Passed(i, k)' <=> /\ valid(i) /\ k * stride < get_section(i).size
                          /\ i < sec \/ (i = sec /\ begin(get_section(i)) + k * stride < pos')
    BY <2>1, <2>2 DEF Passed
  <2>6. i = sec /\ k = m => valid(i) /\ k * stride < get_section(i).size
    BY <1>1, <1>2
  <2> QED
    BY <2>1, <2>3, <2>4, <2>5, <2>6 DEF Passed
<1>4. \A p \in Found : Before(p, <<sec, m>>)
  BY <1>3 DEF Found, Before
<1>5. ASSUME NEW p \in Nat \X Nat
      PROVE  p \in Found' <=> p \in Found \cup (IF Matches(sec, m) THEN {<<sec, m>>} ELSE {})
  <2>1. PICK i \in Nat, k \in Nat : p = <<i, k>>
    OBVIOUS
  <2>2. p \in Found <=> Passed(i, k) /\ Matches(i, k)
    BY <2>1 DEF Found
  <2>3. p \in Found' <=> Passed(i, k)' /\ Matches(i, k)'
    BY <2>1 DEF Found
  <2>4. p = <<sec, m>> <=> (i = sec /\ k = m)
    BY <2>1
  <2>5. Matches(i, k)' <=> Matches(i, k)
    BY <1>3
  <2>6. Passed(i, k)' <=> Passed(i, k) \/ (i = sec /\ k = m)
    BY <1>3
  <2> QED
    BY <2>2, <2>3, <2>4, <2>5, <2>6
<1>6. Found' = Found \cup (IF Matches(sec, m) THEN {<<sec, m>>} ELSE {})
  <2>1. Found \subseteq Nat \X Nat /\ Found' \subseteq Nat \X Nat /\ <<sec, m>> \in Nat \X Nat
    BY <1>1 DEF Found
  <2> QED
    BY <1>5, <2>1
<1> QED
  BY <1>2, <1>4, <1>6

LEMMA AnswerInit == Init => AnswerInv
<1>1. Init => FindInv
  BY FindInit
<1> QED
  BY <1>1 DEF Init, AnswerInv, Loops

LEMMA callbackAnswers == ASSUME AnswerInv, callback PROVE AnswerInv'
<1>1. FindInv'
  BY OpeningInv DEF AnswerInv
<1>2. objects \in Seq(Nat) /\ visited \in Nat
  BY FindAddressAssumption DEF AnswerInv, FindInv, TypeOK
<1>3. /\ pc = "phdr" /\ pc' = "phdr" /\ visited' = visited + 1 /\ run' = 1
      /\ offset' = OffsetAfter(objects[visited + 1])
      /\ UNCHANGED <<objects, sec, addr>>
  BY DEF callback, loopVars
<1>4. run \in {0, 1} /\ offset' = objects[1]
  BY <1>3 DEF OffsetAfter, AnswerInv, FindInv, TypeOK
<1> QED
  BY <1>1, <1>2, <1>3, <1>4 DEF AnswerInv, Loops

(* A step that keeps the loops' variables. *)
LEMMA OthersAnswer ==
    ASSUME AnswerInv, FindInv', UNCHANGED <<offsetVars, sec, addr>>, pc' # "phdr",
           pc = "phdr" => visited = Len(objects),
           pc' \in Running \ Loops => pc \in Running \ Loops,
           pc' \in Loops => LastFound',
           pc' = "done" => ~valid(sec)'
    PROVE  AnswerInv'
  BY DEF AnswerInv, offsetVars

LEMMA LoadingAnswers ==
    ASSUME AnswerInv, OpenFile \/ CreateLoader \/ ReadIdent \/ ReadHeader \/ LoadSegments
    PROVE  AnswerInv'
<1>1. FindInv'
  BY OpeningInv, ReadHeaderInv, LoadSegmentsInv DEF AnswerInv
<1>2. /\ UNCHANGED <<offsetVars, sec, addr>> /\ pc \in Running \ Loops
      /\ pc' \notin Loops \cup {"phdr"}
      /\ pc = "phdr" => visited = Len(objects)
  BY DEF OpenFile, CreateLoader, ReadIdent, ReadHeader, LoadSegments, Continue, TableFails,
         offsetVars, loopVars, Running, Loops
<1> QED
  BY <1>1, <1>2, OthersAnswer DEF Loops

LEMMA LoadSectionsAnswers == ASSUME AnswerInv, LoadSections PROVE AnswerInv'
<1>1. FindInv'
  BY LoadSectionsInv DEF AnswerInv
<1>2. /\ UNCHANGED <<offsetVars, sec, addr>> /\ pc = "sections" /\ pc' \notin {"symbols", "done", "phdr"}
      /\ pc' \in Running => pc' = "section"
  BY DEF LoadSections, Continue, TableFails, offsetVars, loopVars, Running
<1>3. sec' = 0 /\ addr' = 0
  BY <1>2 DEF AnswerInv, Running, Loops
<1>4. Found' = {}
  <2>1. ASSUME NEW i \in Nat, NEW k \in Nat PROVE ~Passed(i, k)'
    BY <1>2, <1>3 DEF Passed
  <2> QED
    BY <2>1 DEF Found
<1>5. LastFound'
  BY <1>3, <1>4 DEF LastFound
<1> QED
  BY <1>1, <1>2, <1>5, OthersAnswer DEF Loops, Running

(* A step of the loops keeps the answer if it finds nothing. *)
LEMMA LoopAnswers ==
    ASSUME AnswerInv, FindInv', pc \in {"section", "symbols"}, UNCHANGED <<elfVars, offsetVars, addr>>,
           pc' \in {"section", "symbols"}, Found' = Found
    PROVE  AnswerInv'
<1>1. LastFound'
  BY FindsNothing DEF AnswerInv, Loops, offsetVars
<1> QED
  BY <1>1 DEF AnswerInv, Loops, offsetVars

LEMMA SectionAnswers ==
    ASSUME AnswerInv, SkipSection \/ BeginTable \/ EndTable
    PROVE  AnswerInv'
<1>1. FindInv' /\ FindInv
  BY SkipSectionInv, BeginTableInv, LeaveInv DEF AnswerInv
<1>2. CASE SkipSection \/ EndTable
  <2>1. /\ UNCHANGED <<elfVars, offsetVars, addr>> /\ pc \in {"section", "symbols"}
        /\ pc' \in {"section", "symbols"} /\ Found' = Found
    BY <1>1, <1>2, SkipSectionFinds, EndTableFinds DEF SkipSection, EndTable
  <2> QED
    BY <1>1, <2>1, LoopAnswers
<1>3. CASE BeginTable
  <2>1. /\ UNCHANGED <<elfVars, offsetVars, addr, sec>> /\ pc = "section"
        /\ pc' \in Failures \cup {"symbols"}
    BY <1>3 DEF BeginTable, Continue, get_name, as_strtab, as_symtab, DataLoads, Failures
  <2>2. CASE pc' = "symbols"
    BY <1>1, <1>3, <2>1, <2>2, BeginTableFinds, LoopAnswers
  <2>3. CASE pc' \in Failures
    BY <1>1, <2>1, <2>3, OthersAnswer DEF Failures, Loops, Running
  <2> QED
    BY <2>1, <2>2, <2>3
<1> QED
  BY <1>2, <1>3

LEMMA SymbolAnswers == ASSUME AnswerInv, SkipSymbol \/ MatchSymbol PROVE AnswerInv'
<1>1. FindInv' /\ FindInv
  BY SkipSymbolInv, MatchSymbolInv DEF AnswerInv
<1>2. /\ pc = "symbols" /\ ~AtEnd /\ Inside /\ pos' = NextPlace
      /\ UNCHANGED <<elfVars, offsetVars, sec, pc>>
  BY DEF SkipSymbol, MatchSymbol
<1>3. PICK m \in Nat :
              /\ pos = begin(get_section(sec)) + m * stride
              /\ \A p \in Found : Before(p, <<sec, m>>)
              /\ Found' = Found \cup (IF Matches(sec, m) THEN {<<sec, m>>} ELSE {})
  BY <1>1, <1>2, NextFinds
<1>4. sym = SymbolIn(sec, m) /\ IsTable(get_section(sec))
  BY <1>1, <1>2, <1>3, InTableIs DEF sym, SymbolIn, InTable
<1>5. CASE SkipSymbol
  <2>1. ~Matches(sec, m) /\ addr' = addr
    BY <1>4, <1>5 DEF SkipSymbol, Matches, IsFunction, NameTab
  <2>2. Found' = Found
    BY <1>3, <2>1
  <2> QED
    BY <1>1, <1>2, <2>1, <2>2, LoopAnswers
<1>6. CASE MatchSymbol
  <2>1. Matches(sec, m) /\ addr' = offset + SymbolIn(sec, m).value
    BY <1>4, <1>6 DEF MatchSymbol, Matches, IsFunction, NameTab, Address
  <2>2. Found' = Found \cup {<<sec, m>>}
    BY <1>3, <2>1
  <2>3. SymbolIn(sec, m)' = SymbolIn(sec, m) /\ offset' = offset /\ sec' = sec
    <3>1. UNCHANGED elfVars
      BY <1>2
    <3>2. \A i, k : SymbolIn(i, k)' = SymbolIn(i, k)
      BY <3>1, PlacesStay
    <3> QED
      BY <1>2, <3>2 DEF offsetVars
  <2>4. LastFound'
    <3>1. \A q \in Found' : q = <<sec, m>> \/ Before(q, <<sec, m>>)
      BY <1>3, <2>2
    <3>2. PICK p : p = <<sec, m>>
      OBVIOUS
    <3>3. p \in Found' /\ \A q \in Found' : q = p \/ Before(q, p)
      BY <2>2, <3>1, <3>2
    <3>4. addr' = offset' + SymbolIn(p[1], p[2])'.value
      BY <2>1, <2>3, <3>2
    <3> QED
      BY <3>3, <3>4 DEF LastFound, Before
  <2> QED
    BY <1>1, <1>2, <2>4 DEF AnswerInv, Loops, offsetVars
<1> QED
  BY <1>5, <1>6

LEMMA LeaveAnswers ==
    ASSUME AnswerInv, BadName \/ PastTable \/ Return
    PROVE  AnswerInv'
<1>1. FindInv'
  BY LeaveInv, PastTableInv DEF AnswerInv
<1>2. /\ UNCHANGED <<elfVars, offsetVars, loopVars>> /\ pc \in {"section", "symbols"}
      /\ \/ pc' \in Failures
         \/ pc = "section" /\ pc' = "done" /\ ~valid(sec)
  BY DEF BadName, PastTable, Return, Failures
<1>3. UNCHANGED <<offsetVars, sec, addr>>
  BY <1>2 DEF loopVars
<1>4. CASE pc' \in Failures
  BY <1>1, <1>2, <1>3, <1>4, OthersAnswer DEF Failures, Loops, Running
<1>5. CASE pc = "section" /\ pc' = "done" /\ ~valid(sec)
  <2>1. ASSUME NEW i \in Nat, NEW k \in Nat
        PROVE  (Passed(i, k) /\ Matches(i, k))' <=> (Passed(i, k) /\ Matches(i, k))
    <3>1. /\ Matches(i, k)' <=> Matches(i, k)
          /\ get_section(i)' = get_section(i) /\ valid(i)' = valid(i) /\ stride' = stride
      BY <1>2, PlacesStay
    <3> QED
      BY <1>3, <1>5, <3>1 DEF Passed
  <2>2. Found' = Found
    BY <2>1 DEF Found
  <2>3. LastFound'
    BY <1>2, <1>3, <2>2, FindsNothing DEF AnswerInv, Loops, offsetVars
  <2>4. ~valid(sec)'
    BY <1>2, <1>3, <1>5 DEF valid, elfVars
  <2> QED
    BY <1>1, <1>2, <1>3, <1>5, <2>3, <2>4, OthersAnswer DEF Loops, Running
<1> QED
  BY <1>2, <1>4, <1>5

LEMMA AnswerStep == AnswerInv /\ [Next]_vars => AnswerInv'
<1> SUFFICES ASSUME AnswerInv, [Next]_vars PROVE AnswerInv'
  OBVIOUS
<1>1. CASE UNCHANGED vars
  <2>1. FindInv'
    BY <1>1, FindStep DEF AnswerInv
  <2>2. UNCHANGED <<elfVars, offsetVars, sec, pos, addr, pc>>
    BY <1>1 DEF vars, loopVars
  <2>3. ASSUME NEW i \in Nat, NEW k \in Nat
        PROVE  (Passed(i, k) /\ Matches(i, k))' <=> (Passed(i, k) /\ Matches(i, k))
    <3>1. /\ Matches(i, k)' <=> Matches(i, k)
          /\ get_section(i)' = get_section(i) /\ valid(i)' = valid(i) /\ stride' = stride
      BY <2>2, PlacesStay
    <3> QED
      BY <2>2, <3>1 DEF Passed, begin
  <2>4. Found' = Found
    BY <2>3 DEF Found
  <2>5. LastFound => LastFound'
    BY <2>2, <2>4, FindsNothing DEF offsetVars
  <2>6. valid(sec)' = valid(sec)
    BY <2>2 DEF valid, elfVars
  <2> QED
    BY <2>1, <2>2, <2>5, <2>6 DEF AnswerInv, offsetVars
<1> QED
  BY <1>1, callbackAnswers, LoadingAnswers, LoadSectionsAnswers, SectionAnswers, SymbolAnswers,
     LeaveAnswers
     DEF Next, LookUp, Stopped

LEMMA TablesType ==
    ASSUME NEW f \in Files
    PROVE  /\ DOMAIN f.tables = 1 .. Len(f.tables) /\ Len(f.tables) \in Nat
           /\ \A i \in DOMAIN f.tables :
                 Len(f.tables[i]) \in Nat /\ DOMAIN f.tables[i] = 1 .. Len(f.tables[i])
<1>1. f.tables \in Seq(Seq([name : Seq(STRING), type : Nat, bind : Nat, value : Nat]))
  BY FindAddressAssumption
<1> QED
  BY <1>1

(* The symbols that were meant and the places found, when the tables are   *)
(* as they were meant.                                                     *)
LEMMA NamesakesFound ==
    ASSUME AnswerInv, pc = "done", TablesAsMeant
    PROVE  \E at \in [DOMAIN file.tables -> Nat] :
              /\ \A i, j \in DOMAIN file.tables : i < j => at[i] < at[j]
              /\ \A p \in Namesakes :
                    /\ <<at[p[1]], p[2] - 1>> \in Found
                    /\ SymbolIn(at[p[1]], p[2] - 1).value = Meant(p).value
              /\ \A q \in Found : \E p \in Namesakes : q = <<at[p[1]], p[2] - 1>>
<1>1. /\ TypeOK /\ file \in Files /\ ~valid(sec) /\ Len(sections) \in Nat /\ sec \in Nat
  BY SectionsAre DEF AnswerInv, FindInv, TypeOK
<1>2. /\ DOMAIN file.tables \subseteq Nat
      /\ \A i \in DOMAIN file.tables :
            Len(file.tables[i]) \in Nat /\ DOMAIN file.tables[i] = 1 .. Len(file.tables[i])
  BY <1>1, TablesType
<1>3. \A i \in DOMAIN file.tables : DOMAIN file.tables[i] \subseteq Nat /\ Len(file.tables[i]) \in Nat
  BY <1>2
<1>4. PICK at \in [DOMAIN file.tables -> 0 .. Len(sections) - 1] :
        /\ \A i, j \in DOMAIN file.tables : i < j => at[i] < at[j]
        /\ \A n \in 0 .. Len(sections) - 1 :
              IsTable(get_section(n)) <=> \E i \in DOMAIN file.tables : at[i] = n
        /\ \A i \in DOMAIN file.tables :
              get_section(at[i]).size = Len(file.tables[i]) * stride
        /\ \A p \in Places : SameSymbol(at[p[1]], SymbolIn(at[p[1]], p[2] - 1), Meant(p))
  BY DEF TablesAsMeant
<1>5. ASSUME NEW i \in Nat PROVE valid(i) => i < sec
  BY <1>1 DEF valid
<1>6. ASSUME NEW p \in Places
      PROVE  /\ p[1] \in DOMAIN file.tables /\ p[2] \in 1 .. Len(file.tables[p[1]])
             /\ p = <<p[1], p[2]>>
  BY <1>2 DEF Places
<1>7. ASSUME NEW p \in Namesakes
      PROVE  /\ <<at[p[1]], p[2] - 1>> \in Found
             /\ SymbolIn(at[p[1]], p[2] - 1).value = Meant(p).value
  <2>1. p \in Places /\ Meant(p).name = func_name /\ Meant(p).type = stt.func
    BY DEF Namesakes, IsNamesake
  <2>2. PICK i, k : i \in DOMAIN file.tables /\ k \in 1 .. Len(file.tables[i]) /\ p[1] = i /\ p[2] = k
    BY <1>6, <2>1
  <2>3. /\ at[i] \in 0 .. Len(sections) - 1 /\ IsTable(get_section(at[i]))
        /\ get_section(at[i]).size = Len(file.tables[i]) * stride
        /\ SameSymbol(at[i], SymbolIn(at[i], k - 1), Meant(p))
    BY <1>4, <2>1, <2>2
  <2>4. Matches(at[i], k - 1) /\ SymbolIn(at[i], k - 1).value = Meant(p).value
    BY <2>1, <2>3 DEF SameSymbol, Matches
  <2>5. Len(file.tables[i]) \in Nat /\ k - 1 \in Nat /\ k - 1 < Len(file.tables[i])
    BY <1>2, <2>2
  <2>6. stride \in Nat \ {0}
    BY SizeType DEF AnswerInv, FindInv, stride
  <2>7. (k - 1) * stride < get_section(at[i]).size
    BY <2>3, <2>5, <2>6, Distance
  <2>8. at[i] \in Nat /\ valid(at[i]) /\ at[i] < sec
    BY <1>1, <1>5, <2>3 DEF valid
  <2>9. Passed(at[i], k - 1)
    BY <2>7, <2>8 DEF Passed
  <2> QED
    BY <2>2, <2>4, <2>5, <2>8, <2>9 DEF Found
<1>8. ASSUME NEW q \in Found
      PROVE  \E p \in Namesakes : q = <<at[p[1]], p[2] - 1>>
  <2>1. PICK n \in Nat, k \in Nat : q = <<n, k>> /\ Passed(n, k) /\ Matches(n, k)
    BY DEF Found
  <2>2. n \in 0 .. Len(sections) - 1 /\ IsTable(get_section(n)) /\ k * stride < get_section(n).size
    BY <1>1, <2>1 DEF Passed, Matches, valid
  <2>3. PICK i \in DOMAIN file.tables : at[i] = n
    BY <1>4, <2>2
  <2>4. stride \in Nat \ {0} /\ Len(file.tables[i]) \in Nat
    BY <1>3, SizeType DEF AnswerInv, FindInv, stride
  <2>5. k * stride < Len(file.tables[i]) * stride
    BY <1>4, <2>2, <2>3
  <2>6. k < Len(file.tables[i])
    BY <2>4, <2>5, Distance
  <2>7. PICK p : p = <<i, k + 1>>
    OBVIOUS
  <2>8. p[1] = i /\ p[2] = k + 1 /\ p[2] - 1 = k /\ k + 1 \in DOMAIN file.tables[i]
    BY <1>2, <2>4, <2>6, <2>7
  <2>9. p \in Places
    BY <2>7, <2>8 DEF Places
  <2>10. SameSymbol(n, SymbolIn(n, k), Meant(p))
    BY <1>4, <2>3, <2>8, <2>9
  <2>11. p \in Namesakes
    BY <2>1, <2>9, <2>10 DEF Namesakes, IsNamesake, SameSymbol, Matches
  <2> QED
    BY <2>1, <2>3, <2>8, <2>11
<1>9. at \in [DOMAIN file.tables -> Nat]
  BY <1>1
<1> QED
  BY <1>4, <1>7, <1>8, <1>9

LEMMA LastIsAnswer ==
    ASSUME AnswerInv, TablesAsMeant
    PROVE  FoundIsLast
<1> SUFFICES ASSUME pc = "done"
             PROVE  \/ Namesakes = {} /\ addr = 0
                    \/ \E p \in Namesakes :
                          /\ \A q \in Namesakes : q = p \/ Before(q, p)
                          /\ addr = objects[1] + Meant(p).value
  BY DEF FoundIsLast
<1>1. PICK at \in [DOMAIN file.tables -> Nat] :
              /\ \A i, j \in DOMAIN file.tables : i < j => at[i] < at[j]
              /\ \A p \in Namesakes :
                    /\ <<at[p[1]], p[2] - 1>> \in Found
                    /\ SymbolIn(at[p[1]], p[2] - 1).value = Meant(p).value
              /\ \A q \in Found : \E p \in Namesakes : q = <<at[p[1]], p[2] - 1>>
  BY NamesakesFound
<1>2. LastFound /\ offset = objects[1]
  <2>1. visited = Len(objects) /\ Len(objects) # 0 /\ run \in {0, 1}
    BY FindAddressAssumption DEF AnswerInv, FindInv, TypeOK
  <2> QED
    BY <2>1 DEF AnswerInv, Loops
<1>3. /\ DOMAIN file.tables \subseteq Nat
      /\ \A i \in DOMAIN file.tables : DOMAIN file.tables[i] \subseteq Nat
  BY TablesType DEF AnswerInv, FindInv
<1>4. ASSUME NEW p \in Namesakes
      PROVE  /\ p[1] \in DOMAIN file.tables /\ p[1] \in Nat /\ p[2] \in Nat
             /\ p = <<p[1], p[2]>> /\ at[p[1]] \in Nat
  <2>1. p \in Places
    BY DEF Namesakes
  <2>2. PICK i \in DOMAIN file.tables : p \in {i} \X DOMAIN file.tables[i]
    BY <2>1 DEF Places
  <2>3. i \in Nat /\ DOMAIN file.tables[i] \subseteq Nat
    BY <1>3
  <2> QED
    BY <2>2, <2>3
<1>5. CASE Found = {} /\ addr = 0
  BY <1>1, <1>5
<1>6. ASSUME NEW r \in Found, \A q \in Found : q = r \/ Before(q, r),
             addr = offset + SymbolIn(r[1], r[2]).value
      PROVE  \E p \in Namesakes :
                          /\ \A q \in Namesakes : q = p \/ Before(q, p)
                          /\ addr = objects[1] + Meant(p).value
  <2>1. PICK p \in Namesakes : r = <<at[p[1]], p[2] - 1>>
    BY <1>1
  <2>2. addr = objects[1] + Meant(p).value
    BY <1>1, <1>2, <1>6, <2>1
  <2>3. ASSUME NEW q \in Namesakes PROVE q = p \/ Before(q, p)
    <3>1. <<at[q[1]], q[2] - 1>> = r \/ Before(<<at[q[1]], q[2] - 1>>, r)
      BY <1>1, <1>6
    <3>2. \/ at[q[1]] < at[p[1]]
          \/ at[q[1]] = at[p[1]] /\ (q[2] - 1 < p[2] - 1 \/ q[2] - 1 = p[2] - 1)
      BY <2>1, <3>1 DEF Before
    <3>3. /\ q[1] < p[1] => at[q[1]] < at[p[1]]
          /\ p[1] < q[1] => at[p[1]] < at[q[1]]
      BY <1>1, <1>4
    <3>4. q[1] < p[1] \/ (q[1] = p[1] /\ (q[2] < p[2] \/ q[2] = p[2]))
      BY <1>4, <3>2, <3>3
    <3> QED
      BY <1>4, <3>4 DEF Before
  <2> QED
    BY <2>2, <2>3
<1> QED
  BY <1>2, <1>5, <1>6 DEF LastFound

(* Whatever the file, its symbols and the objects that are loaded: when    *)
(* the tables are read as they were meant, the answer is where the         *)
(* executable lies plus the value of the last function of the name.        *)
THEOREM AnswerIsLast == Spec => [](TablesAsMeant => FoundIsLast)
<1>1. AnswerInv => (TablesAsMeant => FoundIsLast)
  BY LastIsAnswer
<1> QED
  BY AnswerInit, AnswerStep, <1>1, PTL DEF Spec

(* And if the tables are in the order in which linkers write them, the     *)
(* answer is the program's global main, although a local function, or an   *)
(* undefined one in the dynamic table, has the same name.                  *)
THEOREM AnswerIsGlobal == Spec => [](TablesAsMeant /\ LinkerOrder(file.tables) => FindsGlobal)
<1>1. ASSUME AnswerInv, TablesAsMeant, LinkerOrder(file.tables), pc = "done",
             NEW p \in Namesakes, Meant(p).bind = stb.global, Meant(p).value # 0
      PROVE  addr = objects[1] + Meant(p).value
  <2> DEFINE last == file.tables[Len(file.tables)]
  <2>1. PICK m \in Namesakes :
              /\ \A q \in Namesakes : q = m \/ Before(q, m)
              /\ addr = objects[1] + Meant(m).value
    BY <1>1, LastIsAnswer DEF FoundIsLast
  <2>2. file \in Files
    BY <1>1 DEF AnswerInv, FindInv
  <2>3. /\ DOMAIN file.tables = 1 .. Len(file.tables) /\ Len(file.tables) \in Nat
        /\ \A i \in DOMAIN file.tables : DOMAIN file.tables[i] \subseteq Nat
    BY <2>2, TablesType
  <2>4. ASSUME NEW q \in Namesakes
        PROVE  /\ q[1] \in DOMAIN file.tables /\ q[2] \in DOMAIN file.tables[q[1]]
               /\ Meant(q) = file.tables[q[1]][q[2]] /\ IsNamesake(Meant(q))
    BY DEF Namesakes, Places, Meant
  <2>5. PICK l \in DOMAIN last : last[l] = Meant(p)
    BY <1>1, <2>4 DEF LinkerOrder
  <2>6. PICK q : q = <<Len(file.tables), l>>
    OBVIOUS
  <2>7. q[1] = Len(file.tables) /\ q[2] = l /\ Len(file.tables) \in DOMAIN file.tables
    BY <2>3, <2>4, <2>6
  <2>8. q \in Namesakes /\ Meant(q) = Meant(p)
    <3>1. q \in Places
      BY <2>5, <2>6, <2>7 DEF Places
    <3>2. Meant(q) = Meant(p)
      BY <2>5, <2>7 DEF Meant
    <3> QED
      BY <2>4, <3>1, <3>2 DEF Namesakes
  <2>9. m[1] = Len(file.tables) /\ (m[2] = l \/ l < m[2])
    BY <2>1, <2>3, <2>4, <2>7, <2>8 DEF Before
  <2>10. m[2] \in DOMAIN last /\ Meant(m) = last[m[2]] /\ IsNamesake(Meant(m))
    BY <2>4, <2>9
  <2>11. Meant(m).bind = stb.global
    BY <1>1, <2>5, <2>7, <2>9, <2>10 DEF LinkerOrder
  <2>12. Meant(m).value = Meant(p).value
    BY <1>1, <2>4, <2>5, <2>7, <2>10, <2>11 DEF LinkerOrder
  <2> QED
    BY <2>1, <2>12
<1>2. AnswerInv => (TablesAsMeant /\ LinkerOrder(file.tables) => FindsGlobal)
  BY <1>1 DEF FindsGlobal
<1> QED
  BY AnswerInit, AnswerStep, <1>2, PTL DEF Spec

---------------------------------------------------------------------------
(* Numbers in files.                                                       *)

LEMMA Quotient ==
    ASSUME NEW n \in Nat, NEW m \in Nat \ {0}
    PROVE  n \div m \in Nat /\ m * (n \div m) <= n /\ n < m * (n \div m) + m
  OBVIOUS

LEMMA QuotientIs ==
    ASSUME NEW n \in Nat, NEW m \in Nat \ {0}, NEW q \in Nat, m * q <= n, n < m * q + m
    PROVE  n \div m = q
<1>1. PICK p \in Nat : p = n \div m /\ m * p <= n /\ n < m * p + m
  BY Quotient
<1>2. ~(p < q)
  <2>1. ASSUME p < q PROVE FALSE
    <3>1. m * (p + 1) <= m * q /\ m * (p + 1) = m * p + m
      BY <2>1
    <3> QED
      BY <1>1, <3>1
  <2> QED
    BY <2>1
<1>3. ~(q < p)
  <2>1. ASSUME q < p PROVE FALSE
    <3>1. m * (q + 1) <= m * p /\ m * (q + 1) = m * q + m
      BY <2>1
    <3> QED
      BY <1>1, <3>1
  <2> QED
    BY <2>1
<1> QED
  BY <1>1, <1>2, <1>3

LEMMA QuotientTwice ==
    ASSUME NEW n \in Nat, NEW a \in Nat \ {0}, NEW b \in Nat \ {0}
    PROVE  n \div (a * b) = (n \div a) \div b
<1>1. PICK p \in Nat : p = n \div a /\ a * p <= n /\ n < a * p + a
  BY Quotient
<1>2. PICK q \in Nat : q = p \div b /\ b * q <= p /\ p < b * q + b
  BY Quotient
<1>3. a * b \in Nat \ {0} /\ (a * b) * q = a * (b * q) /\ b * q \in Nat
  OBVIOUS
<1>4. a * (b * q) <= a * p
  BY <1>2, <1>3
<1>5. a * (p + 1) <= a * (b * q + b)
  <2>1. p + 1 <= b * q + b
    BY <1>2, <1>3
  <2>2. PICK r \in Nat : r = b * q + b
    BY <1>3
  <2> QED
    BY <2>1, <2>2
<1>6. a * (p + 1) = a * p + a /\ a * (b * q + b) = (a * b) * q + a * b
  BY <1>3
<1>7. (a * b) * q <= n /\ n < (a * b) * q + a * b
  BY <1>1, <1>3, <1>4, <1>5, <1>6
<1> QED
  BY <1>1, <1>2, <1>3, <1>7, QuotientIs

(* The part of a number above its k lowest bytes, and one of its bytes, at *)
(* the places they have in it.                                             *)
Above(v, k) == Power[k] * (v \div Power[k])
Digit(v, i) == Power[i - 1] * ByteOf(v, i)

LEMMA ByteSplits ==
    ASSUME NEW v \in Nat, NEW i \in 1 .. Xword
    PROVE  /\ Above(v, i - 1) = Above(v, i) + Digit(v, i)
           /\ Above(v, i) \in Nat /\ Digit(v, i) \in Nat /\ ByteOf(v, i) \in Nat
<1>1. Xword \in Nat /\ i - 1 \in 0 .. Xword /\ i \in 0 .. Xword
  BY ElfAssumption
<1>2. PICK p \in Nat \ {0} : p = Power[i - 1]
  BY <1>1, PowerType
<1>3. PICK b \in Nat \ {0} : b = Byte
  BY PowerType
<1>4. Power[i] = p * b
  BY <1>1, <1>2, <1>3, ElfAssumption
<1>5. PICK t \in Nat : t = v \div p
  BY Quotient
<1>6. v \div (p * b) = t \div b
  BY <1>5, QuotientTwice
<1>7. PICK q \in Nat : q = t \div b
  BY Quotient
<1>8. PICK d \in Nat : d = t % b
  <2>1. t % b \in Nat
    OBVIOUS
  <2> QED
    BY <2>1
<1>9. t = b * q + d
  BY <1>7, <1>8
<1>10. p * t = (p * b) * q + p * d /\ p * d \in Nat /\ (p * b) * q \in Nat
  BY <1>9
<1>11. Above(v, i - 1) = p * t
  BY <1>2, <1>5 DEF Above
<1>12. Above(v, i) = (p * b) * q
  BY <1>4, <1>6, <1>7 DEF Above
<1>13. ByteOf(v, i) = d /\ Digit(v, i) = p * d
  BY <1>2, <1>3, <1>5, <1>8 DEF Digit, ByteOf
<1> QED
  BY <1>10, <1>11, <1>12, <1>13

(* A number of w bytes is the sum of its bytes; the code writes a sum of 8 *)
(* bytes out.                                                              *)
Upto(v, w, i) == IF i \in 1 .. w THEN Digit(v, i) ELSE 0

LEMMA Bytes ==
    ASSUME NEW w \in 1 .. Xword, NEW v \in 0 .. Power[w] - 1
    PROVE  /\ v = Upto(v, w, 1) + Upto(v, w, 2) + Upto(v, w, 3) + Upto(v, w, 4)
                   + Upto(v, w, 5) + Upto(v, w, 6) + Upto(v, w, 7) + Upto(v, w, 8)
           /\ \A i \in 1 .. 8 : Upto(v, w, i) \in Nat
<1>1. Xword \in Nat /\ Xword <= 8 /\ Power[0] = 1 /\ w \in 1 .. 8
  BY ElfAssumption
<1>2. v \in Nat
  BY <1>1, PowerType
<1>3. Above(v, 0) = v
  BY <1>1, <1>2 DEF Above
<1>4. Above(v, w) = 0
  <2>1. PICK p \in Nat \ {0} : p = Power[w]
    BY <1>1, PowerType
  <2>2. v < p * 0 + p /\ p * 0 <= v
    BY <1>2, <2>1
  <2>3. v \div p = 0
    BY <1>2, <2>2, QuotientIs
  <2> QED
    BY <2>1, <2>3 DEF Above
<1>5. \A i \in 1 .. w : /\ Above(v, i - 1) = Above(v, i) + Digit(v, i)
                        /\ Above(v, i) \in Nat /\ Digit(v, i) \in Nat
  BY <1>1, <1>2, ByteSplits
<1>6. \A i \in 1 .. 8 : Upto(v, w, i) \in Nat
  BY <1>5 DEF Upto
<1> HIDE DEF Above, Digit
<1> QED
  BY <1>1, <1>2, <1>3, <1>4, <1>5, <1>6 DEF Upto

LEMMA BytesReversed ==
    ASSUME NEW w \in 1 .. Xword, NEW v \in 0 .. Power[w] - 1
    PROVE  v = Upto(v, w, w) + Upto(v, w, w - 1) + Upto(v, w, w - 2) + Upto(v, w, w - 3)
               + Upto(v, w, w - 4) + Upto(v, w, w - 5) + Upto(v, w, w - 6) + Upto(v, w, w - 7)
<1>1. w \in 1 .. 8
  BY ElfAssumption
<1>2. \A i \in Int : i \notin 1 .. w => Upto(v, w, i) = 0
  BY DEF Upto
<1>3. PICK D \in [1 .. 8 -> Nat] : \A i \in 1 .. 8 : D[i] = Upto(v, w, i)
  <2>1. [i \in 1 .. 8 |-> Upto(v, w, i)] \in [1 .. 8 -> Nat]
    BY Bytes
  <2> QED
    BY <2>1
<1> QED
  BY <1>1, <1>2, <1>3, Bytes

(* Whatever its width and the byte order of the file, the reader gets the  *)
(* number that was written.                                                *)
LEMMA ReadsNumber ==
    ASSUME NEW w \in 1 .. Xword, NEW u, NEW v, Holds(u, v, w)
    PROVE  swizzle(u, w, file.order, Native) = v
<1>1. /\ u \in 0 .. Power[w] - 1 /\ v \in 0 .. Power[w] - 1 /\ w \in Nat
      /\ \A i \in 1 .. w : ByteOf(u, i) = ByteOf(v, IF file.order = Native THEN i ELSE w + 1 - i)
  BY ElfAssumption DEF Holds
<1>2. CASE file.order = Native
  <2>1. \A i \in Int : Upto(u, w, i) = Upto(v, w, i)
    BY <1>1, <1>2 DEF Upto, Digit
  <2>2. u = v
    BY <1>1, <2>1, Bytes
  <2> QED
    BY <1>2, <2>2 DEF swizzle
<1>3. CASE file.order # Native
  <2>1. ASSUME NEW i \in 1 .. 8 PROVE Swapped(u, w, i) = Upto(v, w, w + 1 - i)
    <3>1. CASE i \in 1 .. w
      <4>1. ByteOf(u, i) = ByteOf(v, w + 1 - i) /\ w + 1 - i \in 1 .. w /\ (w + 1 - i) - 1 = w - i
        BY <1>1, <1>3, <3>1
      <4>2. Swapped(u, w, i) = Power[w - i] * ByteOf(u, i)
        BY <3>1 DEF Swapped, ByteOf
      <4> QED
        BY <4>1, <4>2 DEF Upto, Digit
    <3>2. CASE i \notin 1 .. w
      <4>1. w + 1 - i \notin 1 .. w
        BY <1>1, <3>2
      <4> QED
        BY <3>2, <4>1 DEF Swapped, Upto
    <3> QED
      BY <3>1, <3>2
  <2>2. /\ w + 1 - 1 = w /\ w + 1 - 2 = w - 1 /\ w + 1 - 3 = w - 2 /\ w + 1 - 4 = w - 3
        /\ w + 1 - 5 = w - 4 /\ w + 1 - 6 = w - 5 /\ w + 1 - 7 = w - 6 /\ w + 1 - 8 = w - 7
    BY <1>1
  <2>3. /\ Swapped(u, w, 1) = Upto(v, w, w) /\ Swapped(u, w, 2) = Upto(v, w, w - 1)
        /\ Swapped(u, w, 3) = Upto(v, w, w - 2) /\ Swapped(u, w, 4) = Upto(v, w, w - 3)
        /\ Swapped(u, w, 5) = Upto(v, w, w - 4) /\ Swapped(u, w, 6) = Upto(v, w, w - 5)
        /\ Swapped(u, w, 7) = Upto(v, w, w - 6) /\ Swapped(u, w, 8) = Upto(v, w, w - 7)
    BY <2>1, <2>2
  <2> QED
    BY <1>1, <1>3, <2>3, BytesReversed DEF swizzle
<1> QED
  BY <1>2, <1>3

---------------------------------------------------------------------------
(* Files as a linker writes them.                                          *)

LEMMA LayoutType ==
    ASSUME file \in Files
    PROVE  /\ ehdr \in Header /\ Len(file.layout.sections) \in Nat
           /\ \A n \in Numbers : shdr(n) \in SectionEntry /\ n \in Nat /\ n + 1 \in 1 .. Len(file.layout.sections)
           /\ file.layout.sections = [i \in 1 .. Len(file.layout.sections) |-> shdr(i - 1)]
           /\ DOMAIN file.layout.at = DOMAIN file.tables
<1>1. /\ file.layout.ehdr \in Header /\ file.layout.sections \in Seq(SectionEntry)
      /\ file.layout.at \in [DOMAIN file.tables -> Nat]
  BY FindAddressAssumption
<1>2. Len(file.layout.sections) \in Nat
  BY <1>1
<1>3. ASSUME NEW n \in Numbers
      PROVE  shdr(n) \in SectionEntry /\ n \in Nat /\ n + 1 \in 1 .. Len(file.layout.sections)
  <2>1. n \in Nat /\ n + 1 \in 1 .. Len(file.layout.sections)
    BY <1>2 DEF Numbers
  <2> QED
    BY <1>1, <2>1 DEF shdr
<1>4. \A i \in 1 .. Len(file.layout.sections) : file.layout.sections[i] = shdr(i - 1)
  BY <1>2 DEF shdr
<1>5. file.layout.sections = [i \in 1 .. Len(file.layout.sections) |-> file.layout.sections[i]]
  BY <1>1
<1>6. file.layout.sections = [i \in 1 .. Len(file.layout.sections) |-> shdr(i - 1)]
  BY <1>4, <1>5
<1>7. ehdr \in Header /\ DOMAIN file.layout.at = DOMAIN file.tables
  BY <1>1 DEF ehdr
<1> QED
  BY <1>2, <1>3, <1>6, <1>7

LEMMA WidthType ==
    /\ DOMAIN Ehdr = {"version", "phoff", "shoff", "phentsize", "phnum", "shentsize", "shnum", "shstrndx"}
    /\ DOMAIN Shdr = {"name", "type", "offset", "size", "link"}
    /\ DOMAIN Sym = {"name", "info", "value"}
    /\ \A f \in DOMAIN Ehdr : Ehdr[f] \in 1 .. Xword
    /\ \A f \in DOMAIN Shdr : Shdr[f] \in 1 .. Xword
    /\ \A f \in DOMAIN Sym : Sym[f] \in 1 .. Xword
  BY OffType, PowerType DEF Ehdr, Shdr, Sym

(* A header is read as it was written. *)
LEMMA ReadsHeader ==
    ASSUME file \in Files, AsLinked
    PROVE  canon_hdr(file.ehdr, Ehdr) = ehdr
<1>1. file.ehdr \in Header /\ ehdr \in Header
  BY LayoutType, FindAddressAssumption
<1>2. DOMAIN file.ehdr = DOMAIN Ehdr /\ DOMAIN ehdr = DOMAIN Ehdr /\ ehdr = [f \in DOMAIN Ehdr |-> ehdr[f]]
  BY <1>1, WidthType DEF Header
<1>3. \A f \in DOMAIN Ehdr : Holds(file.ehdr[f], ehdr[f], Ehdr[f])
  BY DEF AsLinked, HeaderWritten, Written
<1>4. \A f \in DOMAIN Ehdr : swizzle(file.ehdr[f], Ehdr[f], file.order, Native) = ehdr[f]
  BY <1>3, WidthType, ReadsNumber
<1> QED
  BY <1>2, <1>4 DEF canon_hdr

LEMMA ReadsSection ==
    ASSUME file \in Files, AsLinked, hdr = ehdr, NEW n \in Numbers
    PROVE  SectionAt(n) = shdr(n)
<1> DEFINE raw == file.shdr[ehdr.shoff + n * ehdr.shentsize]
<1>1. ehdr \in Header /\ shdr(n) \in SectionEntry /\ Len(file.layout.sections) \in Nat /\ n \in Nat
  BY LayoutType
<1>2. /\ Written(raw, shdr(n), Shdr) /\ shdr(n).link \in Numbers
      /\ ehdr.shnum = Len(file.layout.sections)
  BY DEF AsLinked, SectionsWritten
<1>3. ehdr.shoff + n * ehdr.shentsize \in 0 .. file.len - 1
  <2>1. /\ InFile(ehdr.shoff, ehdr.shentsize * ehdr.shnum)
        /\ ehdr.shnum > 0 => ehdr.shentsize >= SizeOf("Shdr")
        /\ file.class \in {"elf32", "elf64"} /\ file.len \in Nat
    BY FindAddressAssumption DEF AsLinked, HeaderWritten, HeadersAt
  <2>2. n < ehdr.shnum /\ ehdr.shnum > 0 /\ ehdr.shnum \in Nat /\ ehdr.shoff \in Nat /\ ehdr.shentsize \in Nat
    BY <1>1, <1>2 DEF Numbers, Header
  <2>3. PICK z \in Nat \ {0} : z = SizeOf("Shdr")
    BY <2>1, SizeType
  <2>4. ehdr.shentsize >= 1
    BY <2>1, <2>2, <2>3
  <2> QED
    BY <1>1, <2>1, <2>2, <2>4, EntryInFile DEF InFile
<1>4. raw \in SectionEntry
  BY <1>3, FindAddressAssumption
<1> HIDE DEF raw
<1>5. DOMAIN raw = DOMAIN Shdr /\ DOMAIN shdr(n) = DOMAIN Shdr /\ shdr(n) = [f \in DOMAIN Shdr |-> shdr(n)[f]]
  BY <1>1, <1>4, WidthType DEF SectionEntry
<1>6. \A f \in DOMAIN Shdr : swizzle(raw[f], Shdr[f], file.order, Native) = shdr(n)[f]
  BY <1>2, WidthType, ReadsNumber DEF Written
<1>7. canon_hdr(raw, Shdr) = shdr(n)
  BY <1>5, <1>6 DEF canon_hdr
<1>8. Link(shdr(n).link) = shdr(n).link
  <2>1. PICK p \in Nat \ {0} : p = Power[Half]
    BY PowerType
  <2>2. Holds(file.ehdr["shnum"], ehdr["shnum"], Ehdr["shnum"]) /\ Ehdr["shnum"] = Half
    BY WidthType DEF AsLinked, HeaderWritten, Written, Ehdr
  <2>3. ehdr.shnum < p
    BY <1>1, <2>1, <2>2 DEF Holds, Header
  <2>4. shdr(n).link \in Nat /\ shdr(n).link < p
    BY <1>1, <1>2, <2>3 DEF Numbers
  <2>5. shdr(n).link % p = shdr(n).link
    BY <2>4, Remainder
  <2> QED
    BY <2>1, <2>5 DEF Link
<1>9. [shdr(n) EXCEPT !.link = shdr(n).link] = shdr(n)
  BY <1>1 DEF SectionEntry
<1> QED
  BY <1>7, <1>8, <1>9 DEF SectionAt, SectionHeader, raw

(* What lies in the file can be loaded: the sum does not wrap around. *)
LEMMA LoadsWhatIs ==
    ASSUME AsLinked, NEW at \in Nat, NEW size \in Nat, InFile(at, size)
    PROVE  loads(at, size)
<1>1. PICK m \in Nat \ {0} : m = Power[Xword]
  BY PowerType
<1>2. file.len \in 1 .. m - 1 /\ at + size <= file.len /\ at + size \in Nat
  BY <1>1 DEF AsLinked, HeaderWritten, InFile
<1>3. PICK n \in Nat : n = at + size /\ n < m
  BY <1>2
<1>4. n % m = n
  BY <1>3, Remainder
<1> QED
  BY <1>1, <1>2, <1>3, <1>4 DEF loads, End

LEMMA TableLoads ==
    ASSUME AsLinked, NEW struct, NEW at \in Nat, NEW entsize \in Nat, NEW n \in Nat,
           HeadersAt(struct, at, entsize, n), SizeOf(struct) \in Nat
    PROVE  TableFails(struct, at, entsize, n) = "ok"
<1>1. PICK z \in Nat : z = entsize * n
  OBVIOUS
<1>2. InFile(at, z) /\ loads(at, z) /\ TableSize(entsize, n) = z
  BY <1>1, LoadsWhatIs, IntSize DEF HeadersAt
<1>3. n > 0 => ~(entsize < SizeOf(struct))
  BY DEF HeadersAt
<1> QED
  BY <1>1, <1>2, <1>3 DEF TableFails

(* The sections that were read are the ones that were written. *)
SectionsRead == sections = file.layout.sections

LEMMA ReadSections ==
    ASSUME file \in Files, SectionsRead
    PROVE  /\ Len(sections) = Len(file.layout.sections) /\ Numbers = 0 .. Len(sections) - 1
           /\ \A n \in Numbers : get_section(n) = shdr(n) /\ valid(n)
           /\ \A n \in Nat : valid(n) => n \in Numbers
<1>1. Len(file.layout.sections) \in Nat
  BY LayoutType
<1> QED
  BY <1>1 DEF SectionsRead, Numbers, get_section, shdr, valid

LEMMA StringsLoad ==
    ASSUME file \in Files, AsLinked, SectionsRead, NEW n, IsStrings(n)
    PROVE  as_strtab(n) = "ok"
<1>1. n \in Numbers /\ shdr(n).type = sht.strtab /\ InFile(shdr(n).offset, shdr(n).size)
  BY DEF IsStrings
<1>2. get_section(n) = shdr(n) /\ valid(n)
  BY <1>1, ReadSections
<1>3. shdr(n).offset \in Nat /\ shdr(n).size \in Nat
  BY <1>1, LayoutType DEF SectionEntry
<1>4. loads(shdr(n).offset, shdr(n).size)
  BY <1>1, <1>3, LoadsWhatIs
<1> QED
  BY <1>1, <1>2, <1>4 DEF as_strtab

(* A text that stands in a string table is what strtab::get returns. *)
LEMMA TextRead ==
    ASSUME file \in Files, SectionsRead, NEW n \in Numbers, NEW o \in Nat,
           NEW t \in Seq(STRING), TextAt(n, o, t)
    PROVE  ~get_fails(n, o) /\ get(n, o) = t
<1> DEFINE s == shdr(n)
           T == Terminators(n, o)
           last == CHOOSE p \in T : \A q \in T : p <= q
<1>1. get_section(n) = s /\ s.offset \in Nat /\ s.size \in Nat /\ Len(t) \in Nat /\ DOMAIN t = 1 .. Len(t)
  BY ReadSections, LayoutType DEF SectionEntry
<1>2. /\ o + Len(t) < s.size /\ file.chr[s.offset + o + Len(t)] = "NUL"
      /\ \A k \in 1 .. Len(t) : t[k] # "NUL" /\ file.chr[s.offset + o + k - 1] = t[k]
  BY <1>1 DEF TextAt
<1>3. T = {p \in o .. s.size - 1 : file.chr[s.offset + p] = "NUL"}
  BY <1>1 DEF Terminators
<1>4. o + Len(t) \in T
  <2>1. o + Len(t) \in o .. s.size - 1 /\ s.offset + (o + Len(t)) = s.offset + o + Len(t)
    BY <1>1, <1>2
  <2> QED
    BY <1>2, <1>3, <2>1
<1>5. ASSUME NEW p \in T PROVE o + Len(t) <= p
  <2>1. SUFFICES ASSUME p < o + Len(t) PROVE FALSE
    BY <1>1, <1>3
  <2>2. p \in o .. s.size - 1 /\ file.chr[s.offset + p] = "NUL"
    BY <1>3
  <2>3. p - o + 1 \in 1 .. Len(t) /\ s.offset + o + (p - o + 1) - 1 = s.offset + p
    BY <1>1, <2>1, <2>2
  <2> QED
    BY <1>2, <2>2, <2>3
<1>6. last \in T /\ \A q \in T : last <= q
  BY <1>4, <1>5
<1> HIDE DEF last
<1>7. last = o + Len(t)
  <2>1. last <= o + Len(t) /\ o + Len(t) <= last
    BY <1>4, <1>5, <1>6
  <2>2. last \in Int
    BY <1>1, <1>3, <1>6
  <2> QED
    BY <1>1, <2>1, <2>2
<1> HIDE DEF last, T
<1>8. last - o = Len(t)
  BY <1>1, <1>7
<1>9. get(n, o) = [k \in 1 .. last - o |-> file.chr[get_section(n).offset + o + k - 1]]
  BY DEF get, last, T
<1>10. get(n, o) = [k \in 1 .. Len(t) |-> t[k]]
  BY <1>1, <1>2, <1>8, <1>9
<1>11. t = [k \in 1 .. Len(t) |-> t[k]]
  OBVIOUS
<1> QED
  BY <1>4, <1>10, <1>11 DEF get_fails, T

(* A symbol is read as it was meant. *)
LEMMA ReadsSymbol ==
    ASSUME file \in Files, AsLinked, SectionsRead,
           NEW i \in DOMAIN file.tables, NEW k \in DOMAIN file.tables[i]
    PROVE  LET n == file.layout.at[i]
               y == SymbolIn(n, k - 1)
               t == file.tables[i][k]
           IN  /\ SameSymbol(n, y, t)
               /\ ~get_fails(strs(get_section(n)), y.name)
<1> DEFINE n == file.layout.at[i]
           s == shdr(n)
           t == file.tables[i][k]
           raw == file.sym[s.offset + (k - 1) * stride]
<1>1. n \in Numbers /\ TableWritten(s, file.tables[i])
  BY DEF AsLinked, TablesWritten
<1>2. get_section(n) = s /\ s.offset \in Nat /\ s.link \in Nat /\ s.size \in Nat
  BY <1>1, ReadSections, LayoutType DEF SectionEntry
<1>3. Len(file.tables[i]) \in Nat /\ k \in 1 .. Len(file.tables[i])
  BY TablesType
<1>4. t \in [name : Seq(STRING), type : Nat, bind : Nat, value : Nat]
  <2>1. PICK S : S = [name : Seq(STRING), type : Nat, bind : Nat, value : Nat]
    OBVIOUS
  <2>2. file.tables \in Seq(Seq(S))
    BY <2>1, FindAddressAssumption
  <2>3. file.tables[i] \in Seq(S)
    BY <2>2
  <2>4. file.tables[i][k] \in S
    BY <2>3
  <2> QED
    BY <2>1, <2>4
<1>5. stride \in Nat \ {0}
  BY SizeType DEF stride, AsLinked, HeaderWritten
<1>6. s.offset + (k - 1) * stride \in 0 .. file.len - 1
  <2> HIDE DEF s, t, raw
  <2>1. s.offset + stride * Len(file.tables[i]) <= file.len /\ file.len \in Nat
    <3>1. s.size = Len(file.tables[i]) * stride /\ InFile(s.offset, s.size)
      BY <1>1 DEF TableWritten
    <3>2. Len(file.tables[i]) * stride = stride * Len(file.tables[i])
      BY <1>3, <1>5
    <3> QED
      BY <3>1, <3>2, FindAddressAssumption DEF InFile
  <2>2. k - 1 \in Nat /\ k - 1 < Len(file.tables[i])
    BY <1>3
  <2> QED
    <3>1. PICK c \in Nat : c = Len(file.tables[i])
      BY <1>3
    <3>2. PICK z \in Nat : z = stride /\ z >= 1
      BY <1>5
    <3> QED
      BY <1>2, <2>1, <2>2, <3>1, <3>2, EntryInFile
<1>7. raw \in [name : Nat, info : Nat, value : Nat]
  BY <1>6, FindAddressAssumption
<1>8. PICK o \in 0 .. shdr(s.link).size - 1 :
          /\ TextAt(s.link, o, t.name)
          /\ Written(raw, [name |-> o, info |-> t.bind * Nibble + t.type, value |-> t.value], Sym)
          /\ t.type < Nibble /\ s.link \in Numbers
  BY <1>1 DEF TableWritten, SymbolWritten, IsStrings
<1> DEFINE y == SymbolIn(n, k - 1)
<1>9. y = canon_hdr(raw, Sym)
  BY <1>2 DEF SymbolIn, begin
<1> HIDE DEF raw
<1>10. /\ Holds(raw["name"], o, Sym["name"])
       /\ Holds(raw["info"], t.bind * Nibble + t.type, Sym["info"])
       /\ Holds(raw["value"], t.value, Sym["value"])
  BY <1>8, WidthType DEF Written
<1>11. DOMAIN raw = {"name", "info", "value"}
  BY <1>7
<1>12. y.name = o /\ y.info = t.bind * Nibble + t.type /\ y.value = t.value
  <2>1. /\ swizzle(raw["name"], Sym["name"], file.order, Native) = o
        /\ swizzle(raw["info"], Sym["info"], file.order, Native) = t.bind * Nibble + t.type
        /\ swizzle(raw["value"], Sym["value"], file.order, Native) = t.value
    BY <1>10, WidthType, ReadsNumber
  <2> QED
    BY <1>9, <1>11, <2>1 DEF canon_hdr
<1>13. type(y) = t.type
  <2>1. PICK m \in Nat \ {0} : m = Nibble
    BY PowerType
  <2>2. t.type \in Nat /\ t.bind \in Nat /\ t.type < m
    BY <1>4, <1>8, <2>1
  <2>3. PICK b \in Nat : b = t.bind
    BY <2>2
  <2>4. PICK r \in Nat : r = t.type /\ r < m
    BY <2>2
  <2>5. PICK info \in Nat : info = b * m + r
    BY <2>4
  <2>6. info \div m = b
    BY <2>4, <2>5, QuotientIs
  <2>7. info % m = r
    BY <2>4, <2>5, <2>6
  <2> QED
    BY <1>12, <2>1, <2>3, <2>4, <2>5, <2>7 DEF type
<1>14. o \in Nat /\ t.name \in Seq(STRING)
  BY <1>4
<1>15. ~get_fails(s.link, o) /\ get(s.link, o) = t.name
  BY <1>8, <1>14, TextRead
<1> HIDE DEF y, t
<1>16. ~get_fails(strs(get_section(n)), y.name) /\ get(strs(get_section(n)), y.name) = t.name
  BY <1>2, <1>12, <1>15 DEF strs
<1>17. SameSymbol(n, y, t)
  BY <1>12, <1>13, <1>16 DEF SameSymbol
<1> QED
  BY <1>16, <1>17 DEF y, t

(* Of a file as a linker writes it, the tables are read as they were meant. *)
LEMMA ReadsTables ==
    ASSUME file \in Files, AsLinked, SectionsRead
    PROVE  TablesAsMeant
<1> DEFINE at == file.layout.at
<1>1. /\ Numbers = 0 .. Len(sections) - 1 /\ \A n \in Numbers : get_section(n) = shdr(n)
      /\ at \in [DOMAIN file.tables -> Nat]
  BY ReadSections, FindAddressAssumption
<1>2. /\ \A i \in DOMAIN file.tables : at[i] \in Numbers /\ TableWritten(shdr(at[i]), file.tables[i])
      /\ \A i, j \in DOMAIN file.tables : i < j => at[i] < at[j]
      /\ \A n \in Numbers : shdr(n).type \in {sht.symtab, sht.dynsym} <=> \E i \in DOMAIN file.tables : at[i] = n
  BY DEF AsLinked, TablesWritten
<1>3. at \in [DOMAIN file.tables -> 0 .. Len(sections) - 1]
  BY <1>1, <1>2
<1>4. \A n \in 0 .. Len(sections) - 1 : IsTable(get_section(n)) <=> \E i \in DOMAIN file.tables : at[i] = n
  BY <1>1, <1>2 DEF IsTable
<1>5. \A i \in DOMAIN file.tables : get_section(at[i]).size = Len(file.tables[i]) * stride
  BY <1>1, <1>2 DEF TableWritten
<1>6. ASSUME NEW p \in Places
      PROVE  SameSymbol(at[p[1]], SymbolIn(at[p[1]], p[2] - 1), Meant(p))
  <2>1. PICK i \in DOMAIN file.tables : p \in {i} \X DOMAIN file.tables[i]
    BY DEF Places
  <2>2. p[1] = i /\ p[2] \in DOMAIN file.tables[i]
    BY <2>1
  <2>3. SameSymbol(at[i], SymbolIn(at[i], p[2] - 1), file.tables[i][p[2]])
    BY <2>2, ReadsSymbol
  <2> QED
    BY <2>2, <2>3 DEF Meant
<1> QED
  BY <1>2, <1>3, <1>4, <1>5, <1>6 DEF TablesAsMeant

---------------------------------------------------------------------------
(* The lookup in such a file.                                              *)

AsWritten ==
    /\ pc \notin {"aborted", "killed", "stray"}
    /\ pc \in {"segments", "sections", "section", "symbols", "done"} => hdr = ehdr
    /\ pc \in {"section", "symbols", "done"} => SectionsRead

ReadInv == FindInv /\ (AsLinked => AsWritten)

LEMMA ReadInit == Init => ReadInv
  BY FindInit DEF Init, ReadInv, AsWritten

(* Whether a file is as a linker writes it depends on nothing else. *)
LEMMA LinkedStays == UNCHANGED file => AsLinked' = AsLinked
<1> SUFFICES ASSUME UNCHANGED file PROVE AsLinked' = AsLinked
  OBVIOUS
<1> USE DEF ehdr, shdr, Numbers, InFile, SizeOf
<1>1. \A u, v, w : Holds(u, v, w)' = Holds(u, v, w)
  BY DEF Holds, ByteOf
<1>2. \A r, m, w : Written(r, m, w)' = Written(r, m, w)
  BY <1>1 DEF Written
<1>3. \A s, a, e, n : HeadersAt(s, a, e, n)' = HeadersAt(s, a, e, n)
  BY DEF HeadersAt
<1>4. \A n : IsStrings(n)' = IsStrings(n)
  BY DEF IsStrings
<1>5. \A n, o, t : TextAt(n, o, t)' = TextAt(n, o, t)
  BY DEF TextAt
<1>6. Ehdr' = Ehdr /\ Shdr' = Shdr /\ Sym' = Sym /\ stride' = stride
  BY DEF Ehdr, Shdr, Sym, Off, stride
<1>7. \A r, t, n : SymbolWritten(r, t, n)' = SymbolWritten(r, t, n)
  BY <1>2, <1>5, <1>6 DEF SymbolWritten
<1>8. \A s, t : TableWritten(s, t)' = TableWritten(s, t)
  BY <1>4, <1>6, <1>7 DEF TableWritten
<1>9. \A s : Named(s)' = Named(s)
  BY <1>4 DEF Named
<1>10. HeaderWritten' = HeaderWritten
  BY <1>2, <1>3, <1>6 DEF HeaderWritten
<1>11. SectionsWritten' = SectionsWritten
  BY <1>2, <1>6 DEF SectionsWritten
<1>12. TablesWritten' = TablesWritten
  BY <1>8, <1>9 DEF TablesWritten
<1> QED
  BY <1>10, <1>11, <1>12 DEF AsLinked

(* A step of a lookup in a linked file that leaves what was read alone. *)
LEMMA StandsWritten ==
    ASSUME AsWritten, UNCHANGED elfVars,
           pc' \notin {"aborted", "killed", "stray"},
           pc' \in {"segments", "sections"} => pc \in {"segments", "sections"},
           pc' \in {"section", "symbols", "done"} => pc \in {"section", "symbols", "done"}
    PROVE  AsWritten'
  BY DEF AsWritten, elfVars, ehdr, SectionsRead

LEMMA OpeningReads ==
    ASSUME FindInv, AsLinked, AsWritten, callback \/ OpenFile \/ CreateLoader \/ ReadIdent
    PROVE  AsWritten'
<1>1. /\ file.len > 0 /\ file.magic /\ file.version = 1
      /\ file.class \in {"elf32", "elf64"} /\ file.order \in {"lsb", "msb"} /\ InFile(0, SizeOf("Ident"))
  <2>1. file.len \in 1 .. Power[Xword] - 1 /\ Power[Xword] \in Nat
    BY PowerType DEF AsLinked, HeaderWritten
  <2> QED
    BY <2>1 DEF AsLinked, HeaderWritten
<1>2. SizeOf("Ident") \in Nat
  BY <1>1, SizeType
<1>3. loads(0, SizeOf("Ident"))
  BY <1>1, <1>2, LoadsWhatIs
<1>4. IdentOK
  BY <1>1, <1>3 DEF IdentOK
<1>5. CASE callback
  BY <1>5, StandsWritten DEF callback, AsWritten
<1>6. CASE OpenFile
  BY <1>6, StandsWritten DEF OpenFile, AsWritten
<1>7. CASE CreateLoader
  BY <1>1, <1>7, StandsWritten DEF CreateLoader, Continue, AsWritten
<1>8. CASE ReadIdent
  BY <1>4, <1>8, StandsWritten DEF ReadIdent, Continue, AsWritten
<1> QED
  BY <1>5, <1>6, <1>7, <1>8

LEMMA HeadersRead ==
    ASSUME FindInv, AsLinked, AsWritten, ReadHeader \/ LoadSegments \/ LoadSections
    PROVE  AsWritten'
<1>1. /\ file \in Files /\ file.class \in {"elf32", "elf64"} /\ InFile(0, SizeOf("Ehdr")) /\ ehdr.version = 1
      /\ HeadersAt("Phdr", ehdr.phoff, ehdr.phentsize, ehdr.phnum)
      /\ HeadersAt("Shdr", ehdr.shoff, ehdr.shentsize, ehdr.shnum)
  BY DEF AsLinked, HeaderWritten, FindInv
<1>2. /\ ehdr \in Header /\ ehdr.phoff \in Nat /\ ehdr.phentsize \in Nat /\ ehdr.phnum \in Nat
      /\ ehdr.shoff \in Nat /\ ehdr.shentsize \in Nat /\ ehdr.shnum \in Nat
  BY <1>1, LayoutType DEF Header
<1>3. SizeOf("Ehdr") \in Nat /\ SizeOf("Phdr") \in Nat /\ SizeOf("Shdr") \in Nat
  BY <1>1, SizeType
<1>4. CASE ReadHeader
  <2>1. loads(0, SizeOf("Ehdr"))
    BY <1>1, <1>3, LoadsWhatIs
  <2>2. HeaderOK(ehdr)
    <3>1. ehdr.shnum # 0 => ehdr.shstrndx \in Numbers /\ ehdr.shnum = Len(file.layout.sections)
      BY DEF AsLinked, SectionsWritten
    <3> QED
      BY <1>1, <1>2, <3>1 DEF HeaderOK, Numbers
  <2>3. hdr' = ehdr /\ pc' = "segments" /\ UNCHANGED file
    BY <1>1, <1>4, <2>1, <2>2, ReadsHeader DEF ReadHeader, Continue
  <2> QED
    BY <2>3 DEF AsWritten, ehdr
<1>5. CASE LoadSegments
  <2>1. hdr = ehdr
    BY <1>5 DEF LoadSegments, AsWritten
  <2>2. TableFails("Phdr", hdr.phoff, hdr.phentsize, hdr.phnum) = "ok"
    BY <1>1, <1>2, <1>3, <2>1, TableLoads
  <2> QED
    BY <1>5, <2>2, StandsWritten DEF LoadSegments, Continue
<1>6. CASE LoadSections
  <2>1. hdr = ehdr
    BY <1>6 DEF LoadSections, AsWritten
  <2>2. TableFails("Shdr", hdr.shoff, hdr.shentsize, hdr.shnum) = "ok"
    BY <1>1, <1>2, <1>3, <2>1, TableLoads
  <2>3. /\ pc' = "section" /\ UNCHANGED <<file, hdr>>
        /\ sections' = [i \in 1 .. hdr.shnum |-> SectionAt(i - 1)]
    BY <1>6, <2>2 DEF LoadSections, Continue
  <2>4. /\ hdr.shnum = Len(file.layout.sections) /\ Len(file.layout.sections) \in Nat
        /\ file.layout.sections = [i \in 1 .. Len(file.layout.sections) |-> shdr(i - 1)]
    BY <1>1, <2>1, LayoutType DEF AsLinked, SectionsWritten
  <2>5. ASSUME NEW i \in 1 .. hdr.shnum PROVE SectionAt(i - 1) = shdr(i - 1)
    <3>1. i - 1 \in Numbers
      BY <2>4 DEF Numbers
    <3> QED
      BY <1>1, <2>1, <3>1, ReadsSection
  <2>6. sections' = file.layout.sections
    BY <2>3, <2>4, <2>5
  <2> QED
    BY <2>1, <2>3, <2>6 DEF AsWritten, ehdr, SectionsRead
<1> QED
  BY <1>4, <1>5, <1>6

LEMMA TablesBegin == ASSUME FindInv, AsLinked, AsWritten, BeginTable PROVE AsWritten'
<1> DEFINE s == get_section(sec)
<1>1. /\ pc = "section" /\ UNCHANGED elfVars /\ valid(sec) /\ IsTable(s)
      /\ \/ get_name(s) # "ok" /\ pc' = get_name(s)
         \/ get_name(s) = "ok" /\ \E f \in as_symtab(s) : pc' = IF f = "ok" THEN "symbols" ELSE f
  BY DEF BeginTable, Continue
<1>2. SectionsRead /\ hdr = ehdr /\ file \in Files /\ sec \in Nat
  BY <1>1, SecType DEF AsWritten, FindInv
<1>3. sec \in Numbers /\ s = shdr(sec)
  BY <1>1, <1>2, ReadSections
<1>4. PICK i \in DOMAIN file.tables : file.layout.at[i] = sec
  BY <1>1, <1>3 DEF IsTable, AsLinked, TablesWritten
<1>5. Named(s) /\ TableWritten(s, file.tables[i])
  BY <1>3, <1>4 DEF AsLinked, TablesWritten
<1>6. get_name(s) = "ok"
  <2>1. IsStrings(ehdr.shstrndx) /\ ehdr.shstrndx \in Numbers
    BY <1>5 DEF Named, IsStrings
  <2>2. as_strtab(hdr.shstrndx) = "ok" /\ get_section(hdr.shstrndx) = shdr(ehdr.shstrndx)
    BY <1>2, <2>1, StringsLoad, ReadSections
  <2>3. ~get_fails(hdr.shstrndx, s.name)
    BY <1>5, <2>2 DEF Named, get_fails, Terminators
  <2> QED
    BY <2>2, <2>3 DEF get_name
<1>7. as_symtab(s) = {"ok"}
  <2>1. s.offset \in Nat /\ s.size \in Nat
    BY <1>2, <1>3, LayoutType DEF SectionEntry
  <2>2. DataLoads(s) = "ok"
    BY <1>5, <2>1, LoadsWhatIs DEF TableWritten, DataLoads
  <2>3. as_strtab(strs(s)) = "ok"
    BY <1>2, <1>5, StringsLoad DEF TableWritten, strs
  <2> QED
    BY <2>2, <2>3 DEF as_symtab
<1>8. pc' = "symbols"
  BY <1>1, <1>6, <1>7
<1> QED
  BY <1>1, <1>8, StandsWritten

(* Before the end of a table the iterator is at one of its symbols. *)
LEMMA AtSymbol ==
    ASSUME FindInv, AsLinked, AsWritten, pc = "symbols", ~AtEnd
    PROVE  Inside /\ ~get_fails(NameTab, sym.name)
<1> DEFINE s == get_section(sec)
<1>1. /\ InTable /\ sec \in Nat /\ valid(sec) /\ begin(s) = s.offset /\ s.offset \in Nat
      /\ end(s) = s.offset + s.size /\ s.size \in Nat /\ stride \in Nat \ {0} /\ pos \in Nat
  BY InTableIs DEF FindInv, TypeOK
<1>2. SectionsRead /\ file \in Files
  BY DEF AsWritten, FindInv
<1>3. sec \in Numbers /\ s = shdr(sec)
  BY <1>1, <1>2, ReadSections
<1>4. PICK i \in DOMAIN file.tables : file.layout.at[i] = sec
  BY <1>1, <1>3 DEF InTable, IsTable, AsLinked, TablesWritten
<1>5. TableWritten(s, file.tables[i])
  BY <1>3, <1>4 DEF AsLinked, TablesWritten
<1>6. PICK m \in Nat : m = Len(file.tables[i]) /\ DOMAIN file.tables[i] = 1 .. m
  BY <1>2, TablesType
<1>7. s.size = m * stride /\ InFile(s.offset, s.size)
  BY <1>5, <1>6 DEF TableWritten
<1>8. PICK k \in Nat : pos = s.offset + k * stride
  BY <1>1 DEF InTable
<1> HIDE DEF s
<1>9. k * stride < m * stride /\ k * stride \in Nat
  BY <1>1, <1>7, <1>8 DEF InTable, AtEnd, s
<1>10. k < m
  BY <1>1, <1>9, Distance
<1>11. Inside
  <2>1. (k + 1) * stride <= m * stride /\ (k + 1) * stride = k * stride + stride
    BY <1>1, <1>10
  <2>2. PICK z \in Nat : z = stride
    BY <1>1
  <2>3. PICK q \in Nat : q = k * stride
    BY <1>9
  <2>4. q + z <= s.size
    BY <1>7, <2>1, <2>2, <2>3
  <2>5. pos + z <= s.offset + s.size /\ s.offset + s.size <= file.len
    BY <1>1, <1>7, <1>8, <2>3, <2>4 DEF s, InFile
  <2>6. file.len \in Nat
    BY <1>2, FindAddressAssumption
  <2>7. pos + z <= file.len
    BY <1>1, <2>5, <2>6 DEF s
  <2> QED
    BY <1>1, <2>2, <2>5, <2>7 DEF Inside, InFile, s
<1>12. k + 1 \in DOMAIN file.tables[i] /\ (k + 1) - 1 = k
  BY <1>6, <1>10
<1>13. ~get_fails(strs(get_section(sec)), SymbolIn(sec, k).name)
  BY <1>2, <1>4, <1>12, ReadsSymbol
<1>14. SymbolIn(sec, k) = sym
  BY <1>1, <1>8 DEF SymbolIn, sym, s
<1> QED
  BY <1>11, <1>13, <1>14 DEF NameTab

LEMMA ReadStep == ReadInv /\ [Next]_vars => ReadInv'
<1> SUFFICES ASSUME ReadInv, [Next]_vars PROVE ReadInv'
  OBVIOUS
<1>1. FindInv /\ FindInv'
  BY FindStep DEF ReadInv
<1>2. UNCHANGED file
  BY DEF Next, LookUp, Stopped, vars, elfVars, callback, OpenFile, CreateLoader, ReadIdent, ReadHeader,
         LoadSegments, LoadSections, SkipSection, BeginTable, SkipSymbol, MatchSymbol, BadName, PastTable,
         EndTable, Return
<1>3. SUFFICES ASSUME AsLinked PROVE AsWritten'
  BY <1>1, <1>2, LinkedStays DEF ReadInv
<1>4. AsWritten
  BY <1>3 DEF ReadInv
<1>5. CASE Stopped \/ UNCHANGED vars
  <2>1. UNCHANGED <<file, hdr, sections, pc>>
    BY <1>5 DEF Stopped, vars, elfVars
  <2> QED
    BY <1>4, <2>1 DEF AsWritten, ehdr, SectionsRead
<1>6. CASE SkipSection \/ SkipSymbol \/ MatchSymbol
  <2>1. UNCHANGED elfVars /\ pc' = pc
    BY <1>6 DEF SkipSection, SkipSymbol, MatchSymbol
  <2> QED
    BY <1>4, <2>1 DEF AsWritten, ehdr, SectionsRead, elfVars
<1>7. CASE EndTable \/ Return
  <2>1. /\ UNCHANGED elfVars /\ pc' \in {"section", "done"} /\ pc \in {"section", "symbols", "done"}
    BY <1>7 DEF EndTable, Return
  <2> QED
    BY <1>4, <2>1, StandsWritten
<1>8. CASE BadName
  BY <1>1, <1>3, <1>4, <1>8, AtSymbol DEF BadName
<1>9. CASE PastTable
  BY <1>1, <1>3, <1>4, <1>9, AtSymbol DEF PastTable
<1> QED
  BY <1>1, <1>3, <1>4, <1>5, <1>6, <1>7, <1>8, <1>9, OpeningReads, HeadersRead, TablesBegin
     DEF Next, LookUp

(* What a linker writes the reader reads to its end, if the sizes of the   *)
(* two tables of headers fit in an int (HeadersAt).                        *)
THEOREM LinkedFilesAlwaysRead == Spec => []LinkedFilesRead
<1>1. ReadInv => LinkedFilesRead
  BY DEF ReadInv, AsWritten, LinkedFilesRead
<1> QED
  BY ReadInit, ReadStep, <1>1, PTL DEF Spec

(* In either byte order and class, and whatever the widths of the integers *)
(* and the sizes of the headers, the tables are read as they were meant.   *)
THEOREM TablesAlwaysRead == Spec => []TablesRead
<1>1. ReadInv => TablesRead
  BY ReadsTables DEF ReadInv, FindInv, AsWritten, TablesRead
<1> QED
  BY ReadInit, ReadStep, <1>1, PTL DEF Spec

(* In every file that a linker writes, the lookup gives the address of the *)
(* last function of the name, which is the program's global main if the    *)
(* symbols are in order.                                                   *)
THEOREM MainIsFound ==
    Spec => [](AsLinked => FoundIsLast /\ (LinkerOrder(file.tables) => FindsGlobal))
<1>1. /\ TablesRead /\ (TablesAsMeant => FoundIsLast)
      /\ (TablesAsMeant /\ LinkerOrder(file.tables) => FindsGlobal)
      => (AsLinked => FoundIsLast /\ (LinkerOrder(file.tables) => FindsGlobal))
  BY DEF TablesRead, FoundIsLast, FindsGlobal
<1> QED
  BY TablesAlwaysRead, AnswerIsLast, AnswerIsGlobal, <1>1, PTL
=============================================================================
