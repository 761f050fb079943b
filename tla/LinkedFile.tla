----------------------------- MODULE LinkedFile -----------------------------
(***************************************************************************)
(* What a linker writes, for the reader of ELF files.  `file.tables' are   *)
(* the symbol tables it means: for each, in order, the names, types and    *)
(* values of its symbols.  `file.layout' is where it puts them: the header *)
(* of the file, the headers of the sections, and the section `at' of each  *)
(* table.  All numbers are plain; how they are written depends on the      *)
(* class and the byte order of the file.  No action reads these fields.    *)
(***************************************************************************)
EXTENDS ElfReader

(* The i-th lowest byte. *)
ByteOf(v, i) == (v \div Power[i - 1]) % Byte

(* Of the number v, in w bytes in the order of the file, the processor     *)
(* loads u.                                                                *)
Holds(u, v, w) ==
    /\ u \in 0 .. Power[w] - 1 /\ v \in 0 .. Power[w] - 1
    /\ \A i \in 1 .. w :
          ByteOf(u, i) = ByteOf(v, IF file.order = Native THEN i ELSE w + 1 - i)

Written(raw, meant, width) == \A f \in DOMAIN width : Holds(raw[f], meant[f], width[f])

(* Sections are numbered from 0. *)
ehdr == file.layout.ehdr
shdr(n) == file.layout.sections[n + 1]
Numbers == 0 .. Len(file.layout.sections) - 1

(* A table of headers: in the file, and of a size that is an int.          *)
HeadersAt(struct, at, entsize, n) ==
    /\ InFile(at, entsize * n) /\ IsInt(entsize * n)
    /\ n > 0 => entsize >= SizeOf(struct)

HeaderWritten ==
    /\ file.magic /\ file.version = 1
    /\ file.class \in {"elf32", "elf64"} /\ file.order \in {"lsb", "msb"}
    /\ file.len \in 1 .. Power[Xword] - 1
    /\ InFile(0, SizeOf("Ident")) /\ InFile(0, SizeOf("Ehdr"))
    /\ Written(file.ehdr, ehdr, Ehdr)
    /\ ehdr.version = 1
    /\ HeadersAt("Phdr", ehdr.phoff, ehdr.phentsize, ehdr.phnum)
    /\ HeadersAt("Shdr", ehdr.shoff, ehdr.shentsize, ehdr.shnum)

SectionsWritten ==
    /\ ehdr.shnum = Len(file.layout.sections)
    /\ ehdr.shnum # 0 => ehdr.shstrndx \in Numbers
    /\ \A n \in Numbers :
          /\ Written(file.shdr[ehdr.shoff + n * ehdr.shentsize], shdr(n), Shdr)
          /\ shdr(n).link \in Numbers

IsStrings(n) ==
    n \in Numbers /\ shdr(n).type = sht.strtab /\ InFile(shdr(n).offset, shdr(n).size)

(* The text t stands at the offset o of the strings in section n. *)
TextAt(n, o, t) ==
    LET from == shdr(n).offset + o IN
    /\ o + Len(t) < shdr(n).size
    /\ \A k \in DOMAIN t : t[k] # "NUL" /\ file.chr[from + k - 1] = t[k]
    /\ file.chr[from + Len(t)] = "NUL"

SymbolWritten(raw, t, strings) ==
    /\ t.type < Nibble
    /\ \E o \in 0 .. shdr(strings).size - 1 :
          /\ TextAt(strings, o, t.name)
          /\ Written(raw, [name |-> o, info |-> t.bind * Nibble + t.type, value |-> t.value], Sym)

TableWritten(s, table) ==
    /\ s.size = Len(table) * stride /\ InFile(s.offset, s.size)
    /\ IsStrings(s.link)
    /\ \A k \in DOMAIN table :
          SymbolWritten(file.sym[s.offset + (k - 1) * stride], table[k], s.link)

(* The name of each table's section is one of the strings of the header. *)
Named(s) ==
    /\ IsStrings(ehdr.shstrndx)
    /\ \E o \in s.name .. shdr(ehdr.shstrndx).size - 1 :
          file.chr[shdr(ehdr.shstrndx).offset + o] = "NUL"

TablesWritten ==
    LET at == file.layout.at IN
    /\ \A i \in DOMAIN file.tables :
          /\ at[i] \in Numbers /\ Named(shdr(at[i])) /\ TableWritten(shdr(at[i]), file.tables[i])
          /\ \A j \in DOMAIN file.tables : i < j => at[i] < at[j]
    /\ \A n \in Numbers :
          shdr(n).type \in {sht.symtab, sht.dynsym} <=> \E i \in DOMAIN file.tables : at[i] = n

(* The file is as a linker writes it. *)
AsLinked == HeaderWritten /\ SectionsWritten /\ TablesWritten
=============================================================================
