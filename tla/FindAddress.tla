---------------------------- MODULE FindAddress ----------------------------
(***************************************************************************)
(* elf/libaddr.cc, find_address: the address of the function `main' of the *)
(* running program, looked up in the symbol tables of its executable.      *)
(***************************************************************************)
EXTENDS LinkedFile

CONSTANTS
    Files,      \* the executables
    Objects,    \* the load addresses dl_iterate_phdr may go through, each a
                \* sequence that begins with that of the executable
    func_name

(* Whatever a file holds can be read as a header or as a symbol. *)
Header == [version : Nat, phoff : Nat, shoff : Nat, phentsize : Nat, phnum : Nat,
           shentsize : Nat, shnum : Nat, shstrndx : Nat]
SectionEntry == [name : Nat, type : Nat, offset : Nat, size : Nat, link : Nat]

ASSUME FindAddressAssumption ==
    /\ Objects \subseteq Seq(Nat) \ {<<>>}
    /\ \A f \in Files :
          /\ f.len \in Nat
          /\ f.ehdr \in Header
          /\ f.shdr \in [0 .. f.len - 1 -> SectionEntry]
          /\ f.sym \in [0 .. f.len - 1 -> [name : Nat, info : Nat, value : Nat]]
          /\ f.tables \in Seq(Seq([name : Seq(STRING), type : Nat, bind : Nat, value : Nat]))
          /\ f.layout.ehdr \in Header /\ f.layout.sections \in Seq(SectionEntry)
          /\ f.layout.at \in [DOMAIN f.tables -> Nat]

VARIABLES
    objects,    \* the load addresses of this process
    visited,    \* how many of them dl_iterate_phdr has reported
    run,        \* of callback
    offset,     \* the global that callback sets
    sec,        \* the section the outer loop is at
    pos,        \* the place in its symbol table the inner loop is at
    addr,
    pc

elfVars == <<file, hdr, sections>>
offsetVars == <<objects, visited, run, offset>>
loopVars == <<sec, pos, addr>>
vars == <<elfVars, offsetVars, loopVars, pc>>

Failures == {"aborted", "killed", "stray", "exited"}
Running == {"phdr", "open", "ident", "header", "segments", "sections", "section", "symbols"}

Init ==
    /\ file \in Files /\ objects \in Objects
    /\ hdr = << >> /\ sections = <<>>
    /\ visited = 0 /\ run = 0 /\ offset = 0
    /\ sec = 0 /\ pos = 0 /\ addr = 0
    /\ pc = "phdr"

Always(dlpi_addr) == dlpi_addr                         \* mutant
OffsetAfter(dlpi_addr) == IF run = 0 THEN dlpi_addr ELSE offset

(* dl_iterate_phdr reports one object after another. *)
callback ==
    /\ pc = "phdr" /\ visited < Len(objects)
    /\ offset' = OffsetAfter(objects[visited + 1])
    /\ run' = 1
    /\ visited' = visited + 1
    /\ UNCHANGED <<elfVars, objects, loopVars, pc>>

(* Goes on to the step s, or fails as f says. *)
Continue(f, s) == pc' = IF f = "ok" THEN s ELSE f

OpenFile ==
    /\ pc = "phdr" /\ visited = Len(objects)
    /\ pc' \in {"open", "exited"}
    /\ UNCHANGED <<elfVars, offsetVars, loopVars>>

(* lseek and mmap: an empty file cannot be mapped. *)
CreateLoader ==
    /\ pc = "open"
    /\ Continue(IF file.len > 0 THEN "ok" ELSE "aborted", "ident")
    /\ UNCHANGED <<elfVars, offsetVars, loopVars>>

IdentOK ==
    /\ loads(0, SizeOf("Ident"))
    /\ file.magic /\ file.version = 1
    /\ file.class \in {"elf32", "elf64"} /\ file.order \in {"lsb", "msb"}

ReadIdent ==
    /\ pc = "ident"
    /\ Continue(IF IdentOK THEN "ok" ELSE "aborted", "header")
    /\ UNCHANGED <<elfVars, offsetVars, loopVars>>

HeaderOK(h) ==
    /\ h.version = 1
    /\ h.shnum # 0 => h.shstrndx < h.shnum

ReadHeader ==
    /\ pc = "header"
    /\ IF loads(0, SizeOf("Ehdr"))
         THEN /\ hdr' = canon_hdr(file.ehdr, Ehdr)
              /\ Continue(IF HeaderOK(hdr') THEN "ok" ELSE "aborted", "segments")
         ELSE /\ hdr' = hdr
              /\ pc' = "aborted"
    /\ UNCHANGED <<file, sections, offsetVars, loopVars>>

(* The loader checks the size it is asked for, the reader then takes a     *)
(* struct from every entsize-th place of a table of n headers.             *)
TableFails(struct, at, entsize, n) ==
    IF ~loads(at, TableSize(entsize, n)) THEN "aborted"
    ELSE IF n > 0 /\ (entsize < SizeOf(struct) \/ ~InFile(at, entsize * n)) THEN "stray"
    ELSE "ok"

(* The segments are read too, but nothing here asks for them. *)
LoadSegments ==
    /\ pc = "segments"
    /\ Continue(TableFails("Phdr", hdr.phoff, hdr.phentsize, hdr.phnum), "sections")
    /\ UNCHANGED <<elfVars, offsetVars, loopVars>>

LoadSections ==
    /\ pc = "sections"
    /\ Continue(TableFails("Shdr", hdr.shoff, hdr.shentsize, hdr.shnum), "section")
    /\ sections' = IF pc' = "section"
                     THEN [i \in 1 .. hdr.shnum |-> SectionAt(i - 1)]
                     ELSE sections
    /\ UNCHANGED <<file, hdr, offsetVars, loopVars>>

---------------------------------------------------------------------------

IsTable(s) == s.type \in {sht.symtab, sht.dynsym}

SkipSection ==
    /\ pc = "section" /\ valid(sec)
    /\ ~IsTable(get_section(sec))
    /\ sec' = sec + 1
    /\ UNCHANGED <<elfVars, offsetVars, pos, addr, pc>>

(* section::get_name, which is printed. *)
get_name(s) ==
    IF as_strtab(hdr.shstrndx) # "ok" THEN as_strtab(hdr.shstrndx)
    ELSE IF get_fails(hdr.shstrndx, s.name) THEN "aborted"
    ELSE "ok"

BeginTable ==
    /\ pc = "section" /\ valid(sec)
    /\ IsTable(get_section(sec))
    /\ LET s == get_section(sec) IN
         /\ \/ get_name(s) # "ok" /\ pc' = get_name(s)
            \/ get_name(s) = "ok" /\ \E f \in as_symtab(s) : Continue(f, "symbols")
         /\ pos' = begin(s)
    /\ UNCHANGED <<elfVars, offsetVars, sec, addr>>

AtEnd == pos = end(get_section(sec))
SamePlace == pos                                       \* mutant
NextPlace == pos + stride
sym == canon_hdr(file.sym[pos], Sym)
Inside == InFile(pos, stride) /\ pos + stride <= end(get_section(sec))

(* Only the name of a function is looked at. *)
IsFunction == type(sym) = stt.func
NameTab == strs(get_section(sec))

SkipSymbol ==
    /\ pc = "symbols" /\ ~AtEnd /\ Inside
    /\ \/ ~IsFunction
       \/ ~get_fails(NameTab, sym.name) /\ get(NameTab, sym.name) # func_name
    /\ pos' = NextPlace
    /\ UNCHANGED <<elfVars, offsetVars, sec, addr, pc>>

FirstAddress == IF addr = 0 THEN offset + sym.value ELSE addr  \* mutant
Address == offset + sym.value

MatchSymbol ==
    /\ pc = "symbols" /\ ~AtEnd /\ Inside
    /\ IsFunction
    /\ ~get_fails(NameTab, sym.name) /\ get(NameTab, sym.name) = func_name
    /\ addr' = Address
    /\ pos' = NextPlace
    /\ UNCHANGED <<elfVars, offsetVars, sec, pc>>

BadName ==
    /\ pc = "symbols" /\ ~AtEnd /\ Inside
    /\ IsFunction
    /\ get_fails(NameTab, sym.name)
    /\ pc' = "aborted"
    /\ UNCHANGED <<elfVars, offsetVars, loopVars>>

(* The iterator is compared with the end by equality: it steps over the    *)
(* end of a table that is not a whole number of symbols.                   *)
PastTable ==
    /\ pc = "symbols" /\ ~AtEnd /\ ~Inside
    /\ pc' = "stray"
    /\ UNCHANGED <<elfVars, offsetVars, loopVars>>

EndTable ==
    /\ pc = "symbols" /\ AtEnd
    /\ sec' = sec + 1
    /\ pc' = "section"
    /\ UNCHANGED <<elfVars, offsetVars, pos, addr>>

Return ==
    /\ pc = "section" /\ ~valid(sec)
    /\ pc' = "done"
    /\ UNCHANGED <<elfVars, offsetVars, loopVars>>

Stopped == pc \notin Running /\ UNCHANGED vars

LookUp ==
    \/ callback
    \/ OpenFile
    \/ CreateLoader
    \/ ReadIdent
    \/ ReadHeader
    \/ LoadSegments
    \/ LoadSections
    \/ SkipSection
    \/ BeginTable
    \/ SkipSymbol
    \/ MatchSymbol
    \/ BadName
    \/ PastTable
    \/ EndTable
    \/ Return

Next == LookUp \/ Stopped

(* Sequential code that waits for nothing. *)
Spec == Init /\ [][Next]_vars /\ WF_vars(LookUp)

---------------------------------------------------------------------------

(* A symbol of the file is the k-th of the i-th table, in what the linker  *)
(* meant and, counted from 0, in the section that was read.                *)
Places == UNION {{i} \X DOMAIN file.tables[i] : i \in DOMAIN file.tables}
Meant(p) == file.tables[p[1]][p[2]]
SymbolIn(i, k) == canon_hdr(file.sym[begin(get_section(i)) + k * stride], Sym)

Before(p, q) == p[1] < q[1] \/ (p[1] = q[1] /\ p[2] < q[2])

IsNamesake(t) == t.name = func_name /\ t.type = stt.func
Namesakes == {p \in Places : IsNamesake(Meant(p))}

(* wrapped_main takes the answer for the address of main, libaddr.cc:56:   *)
(* the answer is where the executable, and no other object, was loaded,    *)
(* plus the value of the last function of that name in the last table that *)
(* has one; it is 0 when there is none, as in a stripped program.          *)
FoundIsLast ==
    pc = "done" =>
        \/ Namesakes = {} /\ addr = 0
        \/ \E p \in Namesakes :
              /\ \A q \in Namesakes : q = p \/ Before(q, p)
              /\ addr = objects[1] + Meant(p).value

(* Local symbols come before the global ones in a table, and the dynamic   *)
(* table, where a function may be undefined, before the full one.  The     *)
(* last match is therefore the global main, whatever static function of    *)
(* another source file has its name.                                       *)
FindsGlobal ==
    pc = "done" =>
        \A p \in Namesakes :
            Meant(p).bind = stb.global /\ Meant(p).value # 0
                => addr = objects[1] + Meant(p).value

SameSymbol(i, y, t) ==
    /\ type(y) = t.type
    /\ t.type = stt.func =>
          /\ y.value = t.value
          /\ ~get_fails(strs(get_section(i)), y.name)
          /\ get(strs(get_section(i)), y.name) = t.name

(* How a linker arranges tables: the local symbols of a table come first,  *)
(* its global ones have different names or are the same, and the last      *)
(* table has all global functions that are defined.                        *)
LinkerOrder(tables) ==
    \A i \in DOMAIN tables : \A k \in DOMAIN tables[i] :
        tables[i][k].bind = stb.global =>
          /\ \A l \in DOMAIN tables[i] : k < l => tables[i][l].bind = stb.global
          /\ \A l \in DOMAIN tables[i] :
                IsNamesake(tables[i][k]) /\ IsNamesake(tables[i][l]) /\ tables[i][l].bind = stb.global
                    => tables[i][l].value = tables[i][k].value
          /\ IsNamesake(tables[i][k]) /\ tables[i][k].value # 0 =>
                \E l \in DOMAIN tables[Len(tables)] : tables[Len(tables)][l] = tables[i][k]

(* The sections that are symbol tables are the tables that were meant, in  *)
(* their order, and of as many symbols; the functions among them have      *)
(* the names and values that were meant.                                   *)
TablesAsMeant ==
    \E at \in [DOMAIN file.tables -> 0 .. Len(sections) - 1] :
        /\ \A i, j \in DOMAIN file.tables : i < j => at[i] < at[j]
        /\ \A n \in 0 .. Len(sections) - 1 :
              IsTable(get_section(n)) <=> \E i \in DOMAIN file.tables : at[i] = n
        /\ \A i \in DOMAIN file.tables :
              get_section(at[i]).size = Len(file.tables[i]) * stride
        /\ \A p \in Places : SameSymbol(at[p[1]], SymbolIn(at[p[1]], p[2] - 1), Meant(p))

(* elf++.hh:79, "in canonical form (ELF64 in native byte order)": of a     *)
(* file that is as a linker writes it the reader gets every table, symbol, *)
(* name and value as they were meant, in both classes and byte orders.     *)
TablesRead ==
    AsLinked /\ pc \in {"section", "symbols", "done"} => TablesAsMeant

(* A file as a linker writes it is read to its end, in both classes and    *)
(* byte orders, if the sizes of its two tables of headers fit in an int    *)
(* (HeadersAt); with a larger table load throws, although the file is      *)
(* whole (elf.cc:97 and 105).                                              *)
LinkedFilesRead == AsLinked => pc \notin {"aborted", "killed", "stray"}

Wraps(at, size) == at + size >= Power[Xword]
Overflows(entsize, n) == ~IsInt(entsize * n)

(* The reader reads past what it was given only where a number is out of   *)
(* the ordinary: the size of a table of headers is no int, the sum of an   *)
(* offset and a size wraps around, the entries of a table of headers are   *)
(* smaller than the structs, or a symbol table is not a whole number of    *)
(* symbols.  A file without such numbers that ends too soon is noticed by  *)
(* load (elf.cc:96 and 104, mmap_loader.cc:47).                            *)
StraysAsListed ==
    pc = "stray" =>
        \/ Overflows(hdr.phentsize, hdr.phnum) \/ Wraps(hdr.phoff, hdr.phentsize * hdr.phnum)
        \/ Overflows(hdr.shentsize, hdr.shnum) \/ Wraps(hdr.shoff, hdr.shentsize * hdr.shnum)
        \/ hdr.phentsize < SizeOf("Phdr") \/ hdr.shentsize < SizeOf("Shdr")
        \/ \E i \in DOMAIN sections : Wraps(sections[i].offset, sections[i].size)
        \/ \E i \in DOMAIN sections : IsTable(sections[i]) /\ sections[i].size % stride # 0

(* elf++.hh:133-135, "If the loader cannot satisfy the full request for    *)
(* any reason (including a premature EOF), it must throw an exception": a  *)
(* load of a table of headers that does not throw has the whole table.     *)
Satisfied(at, entsize, n) == loads(at, TableSize(entsize, n)) => InFile(at, TableSize(entsize, n))
RequestsSatisfied ==
    /\ pc = "segments" => Satisfied(hdr.phoff, hdr.phentsize, hdr.phnum)
    /\ pc = "sections" => Satisfied(hdr.shoff, hdr.shentsize, hdr.shnum)

(* The lookup comes to an end, one way or the other. *)
LookupEnds == <>(pc \notin Running)

TypeOK ==
    /\ objects \in Objects
    /\ visited \in 0 .. Len(objects) /\ run \in {0, 1} /\ offset \in Nat
    /\ sections \in Seq([name : Nat, type : Nat, offset : Nat, size : Nat,
                         link : 0 .. Power[Half] - 1])
    /\ sec \in 0 .. Len(sections) /\ pos \in Nat /\ addr \in Nat
    /\ pc \in Running \cup Failures \cup {"done"}
=============================================================================
