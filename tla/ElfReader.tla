----------------------------- MODULE ElfReader -----------------------------
(***************************************************************************)
(* elf/elf.cc, elf++.hh, data.hh, common.hh and mmap_loader.cc: how an ELF *)
(* file is read.  A file is given by what lies at its offsets: `phdr',     *)
(* `shdr', `sym' and `chr' are functions from the offset in the    *)
(* file to a program header, a section header, a symbol and a character.   *)
(* Every number of a header is as the processor loads it from the file,    *)
(* so that it is byte-swapped when the order of the file is not Native.    *)
(*                                                                         *)
(* Of each header the fields are kept that the lookup of a symbol reads.   *)
(* A failing operation throws, which nobody catches ("aborted"), goes      *)
(* through the null pointer of an invalid section ("killed"), or reads     *)
(* beside what was loaded ("stray": whatever follows is undefined).        *)
(***************************************************************************)
EXTENDS Integers, SequencesExt

CONSTANTS
    Byte,           \* the values of a byte (256)
    Nibble,         \* the values of half a byte (16)
    Half, Word, Xword,  \* the bytes of an integer of each type (2, 4, 8)
    Power,          \* how many values 0, 1, ... bytes have
    Native,         \* the byte order of the build, "lsb" or "msb"
    Sizes           \* struct -> class -> its size, in units of the offsets

ASSUME ElfAssumption ==
    /\ Nibble \in Nat \ {0, 1} /\ Byte = Nibble * Nibble
    /\ Half \in Nat \ {0} /\ Word \in Nat \ {0} /\ Xword \in Nat \ {0}
    /\ Half <= Word /\ Word <= Xword /\ Xword <= 8
    /\ Power \in [0 .. Xword -> Nat \ {0}] /\ Power[0] = 1
    /\ \A w \in 1 .. Xword : Power[w] = Byte * Power[w - 1]
    /\ Native \in {"lsb", "msb"}
    /\ \A struct \in {"Ident", "Ehdr", "Phdr", "Shdr", "Sym"} : \A class \in {"elf32", "elf64"} :
          Sizes[struct][class] \in Nat \ {0}

VARIABLES
    file,           \* the bytes of the file, never change
    hdr,            \* the header of the file, canonical
    sections        \* the section headers, canonical

sht == [null |-> 0, symtab |-> 2, strtab |-> 3, dynsym |-> 11]
stt == [object |-> 1, func |-> 2]
stb == [local |-> 0, global |-> 1]

---------------------------------------------------------------------------
(* Conversion to the canonical form. *)

(* The i-th lowest byte of v comes i-th from the top of w bytes, of which  *)
(* no integer has more than 8.                                             *)
Swapped(v, w, i) ==
    IF i \in 1 .. w THEN Power[w - i] * ((v \div Power[i - 1]) % Byte) ELSE 0

Kept(v, w, from, to) == v                              \* mutant
swizzle(v, w, from, to) ==
    IF from = to THEN v
    ELSE Swapped(v, w, 1) + Swapped(v, w, 2) + Swapped(v, w, 3) + Swapped(v, w, 4)
         + Swapped(v, w, 5) + Swapped(v, w, 6) + Swapped(v, w, 7) + Swapped(v, w, 8)

(* Elf32 and Elf64: addresses, offsets and sizes are Words or Xwords. *)
Off == IF file.class = "elf32" THEN Word ELSE Xword

Ehdr == [version |-> Word, phoff |-> Off, shoff |-> Off,
         phentsize |-> Half, phnum |-> Half,
         shentsize |-> Half, shnum |-> Half, shstrndx |-> Half]
Shdr == [name |-> Word, type |-> Word, offset |-> Off, size |-> Off, link |-> Word]
Sym == [name |-> Word, info |-> 1, value |-> Off]

canon_hdr(h, width) ==
    [f \in DOMAIN h |-> swizzle(h[f], width[f], file.order, Native)]

(* The canonical link is a half-word. *)
AnyWord(l) == l                                        \* mutant
Link(l) == l % Power[Half]
SectionHeader(h) == [canon_hdr(h, Shdr) EXCEPT !.link = Link(@)]

type(s) == s.info % Nibble

---------------------------------------------------------------------------
(* mmap_loader::load: the sum of offset and size is unsigned. *)

OffsetOnly(offset, size) == offset                     \* mutant
End(offset, size) == (offset + size) % Power[Xword]
loads(offset, size) == End(offset, size) <= file.len

InFile(offset, size) == offset + size <= file.len

(* What load is asked for a table of n headers: a product of two           *)
(* half-words, which are promoted to int.  An int holds a number below     *)
(* half of the values of a word; a product beyond is negative, and its     *)
(* sign is extended to the size_t that load takes.                         *)
IsInt(x) == 2 * x < Power[Word]
TableSize(entsize, n) ==
    LET product == (entsize * n) % Power[Word]
    IN  IF IsInt(product) THEN product ELSE product + Power[Xword] - Power[Word]

SizeOf(struct) == Sizes[struct][file.class]

PackedAt(i) == SectionHeader(file.shdr[hdr.shoff + i * SizeOf("Shdr")]) \* mutant
SectionAt(i) == SectionHeader(file.shdr[hdr.shoff + i * hdr.shentsize])

---------------------------------------------------------------------------
(* Strings and tables.  Sections are numbered from 0, as in the file.      *)

valid(i) == i < Len(sections)
get_section(i) == sections[i + 1]

(* section::as_strtab, with section::data. *)
as_strtab(i) ==
    IF ~valid(i) THEN "killed"
    ELSE IF get_section(i).type # sht.strtab THEN "aborted"
    ELSE IF ~loads(get_section(i).offset, get_section(i).size) THEN "aborted"
    ELSE IF ~InFile(get_section(i).offset, get_section(i).size) THEN "stray"
    ELSE "ok"

(* strtab::get on the string table i. *)
Terminators(i, o) ==
    {p \in o .. get_section(i).size - 1 : file.chr[get_section(i).offset + p] = "NUL"}

get_fails(i, o) == Terminators(i, o) = {}

get(i, o) ==
    LET t == CHOOSE p \in Terminators(i, o) : \A q \in Terminators(i, o) : p <= q
    IN  [k \in 1 .. t - o |-> file.chr[get_section(i).offset + o + k - 1]]

strs(s) == s.link

(* section::as_symtab: the data of the table and the strings it links to,  *)
(* in either order.                                                        *)
DataLoads(s) == IF loads(s.offset, s.size) THEN "ok" ELSE "aborted"
as_symtab(s) ==
    IF {DataLoads(s), as_strtab(strs(s))} = {"ok"} THEN {"ok"}
    ELSE {DataLoads(s), as_strtab(strs(s))} \ {"ok"}

(* symtab::iterator. *)
stride == SizeOf("Sym")
begin(s) == s.offset
end(s) == s.offset + s.size
=============================================================================
