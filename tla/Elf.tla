--------------------------------- MODULE Elf ---------------------------------
(***************************************************************************)
(* elf_open and elf_close (elf.c): an ELF file is mapped, its header, its  *)
(* section, segment and symbol tables are read in that order, and whatever *)
(* fails gives everything back.  The file is arbitrary: each record read   *)
(* from it is one of a set.  Integers are as wide as in the code: every    *)
(* field of 64 bits is below Wrap, where unsigned arithmetic starts anew.  *)
(***************************************************************************)
EXTENDS Integers, Sequences

CONSTANTS
    Wrap,                    \* UINT64_MAX + 1
    Lens,                    \* the sizes of files
    Headers,                 \* what an Elf64_Ehdr may hold
    SectionHeaders,          \* what an Elf64_Shdr may hold
    SegmentHeaders,          \* what an Elf64_Phdr may hold
    NameOffsets,             \* the st_name of a symbol
    EHDR_SIZE, SHDR_SIZE, PHDR_SIZE, SYM_SIZE

U64 == 0 .. Wrap - 1

Types == {"SYMTAB", "DYNSYM", "STRTAB", "NOBITS", "other"}

ASSUME SizeAssumption ==
    /\ Wrap \in Nat \ {0}
    /\ Lens \subseteq U64
    /\ {EHDR_SIZE, SHDR_SIZE, PHDR_SIZE, SYM_SIZE} \subseteq Nat \ {0}

ASSUME FileAssumption ==
    /\ Headers \subseteq [shoff : U64, shnum : Nat, shentsize : Nat, shstrndx : Nat,
                          phoff : U64, phnum : Nat, phentsize : Nat]
    /\ SectionHeaders \subseteq [type : Types, offset : U64, size : U64, entsize : U64,
                                 link : Nat, name : Nat]
    /\ SegmentHeaders \subseteq [offset : U64, filesz : U64]
    /\ NameOffsets \subseteq Nat

VARIABLES
    step,       \* what is read next, "close", or how elf_open ended
    mapped,     \* the file is
    len,
    hdr,
    strtab,     \* [offset, size] of the section names; size 0 and offset -1 when there is none
    sections,   \* those read so far
    nsections,
    nsegments,
    symtab,     \* [offset, size, entsize, names, nameslen], found by pick_symtab
    nsymbols,
    i,          \* the index in the table being read
    live,       \* what was allocated
    reads       \* the bytes of the file the last step looked at, each <<offset, length>>

elfvars == <<step, mapped, len, hdr, strtab, sections, nsections, nsegments, symtab, nsymbols,
             i, live, reads>>

-----------------------------------------------------------------------------
\* fault: the sum may wrap
InBoundsWraps(length, off, n) == (off + n) % Wrap <= length

\* "off + n must not leave the mapping, and must not wrap doing it"
InBounds(length, off, n) == off <= length /\ n <= length - off

\* count * each, if it fits
FitsMul(count, each) == count <= (Wrap - 1) \div each

TableBounds(off, count, entsize, min) ==
    entsize >= min /\ FitsMul(count, entsize) /\ InBounds(len, off, count * entsize)

NoStrtab == [offset |-> -1, size |-> 0]

(* copy_name at idx of the table: what it looks at, and whether a NUL      *)
(* ended the name inside the table                                         *)
CopyName(off, size, idx) ==
    IF off = -1 THEN {[ok |-> TRUE, looks |-> {}]}
    ELSE IF idx >= size THEN {[ok |-> FALSE, looks |-> {}]}
    ELSE {[ok |-> end < size, looks |-> {<<off + idx, IF end < size THEN end + 1 - idx
                                                      ELSE size - idx>>}] : end \in idx .. size}

-----------------------------------------------------------------------------
NoHeader == [shoff |-> 0, shnum |-> 0, shentsize |-> 0, shstrndx |-> 0,
             phoff |-> 0, phnum |-> 0, phentsize |-> 0]
NoSymtab == [offset |-> 0, size |-> 0, entsize |-> 1, names |-> 0, nameslen |-> 0]

ElfInit ==
    /\ step = "map" /\ mapped = FALSE /\ len = 0 /\ hdr = NoHeader /\ strtab = NoStrtab
    /\ sections = <<>> /\ nsections = 0 /\ nsegments = 0 /\ symtab = NoSymtab /\ nsymbols = 0
    /\ i = 0 /\ live = {} /\ reads = {}

Goes(s) == step' = s /\ i' = 0
Fails == Goes("close")

\* no such file, not a regular one, an empty one, or mmap fails
MapFile ==
    /\ step = "map"
    /\ \/ \E size \in Lens \ {0} : mapped' = TRUE /\ len' = size /\ Goes("ehdr")
       \/ Goes("failed") /\ UNCHANGED <<mapped, len>>
    /\ reads' = {}
    /\ UNCHANGED <<hdr, strtab, sections, nsections, nsegments, symtab, nsymbols, live>>

\* read_ehdr; the magic and the class may be wrong
ReadEhdr ==
    /\ step = "ehdr"
    /\ \/ len < EHDR_SIZE /\ reads' = {} /\ Fails /\ UNCHANGED hdr
       \/ len >= EHDR_SIZE /\ reads' = {<<0, EHDR_SIZE>>} /\ Fails /\ UNCHANGED hdr
       \/ len >= EHDR_SIZE /\ reads' = {<<0, EHDR_SIZE>>} /\ hdr' \in Headers /\ Goes("shtable")
    /\ UNCHANGED <<mapped, len, strtab, sections, nsections, nsegments, symtab, nsymbols, live>>

NoSectionTable ==
    /\ step = "shtable" /\ hdr.shnum = 0
    /\ Goes(IF hdr.shstrndx = 0 THEN "phtable" ELSE "close")
    /\ reads' = {}
    /\ UNCHANGED <<mapped, len, hdr, strtab, sections, nsections, nsegments, symtab, nsymbols, live>>

SectionTableFits ==
    hdr.shstrndx < hdr.shnum /\ TableBounds(hdr.shoff, hdr.shnum, hdr.shentsize, SHDR_SIZE)

BadSectionTable ==
    /\ step = "shtable" /\ hdr.shnum > 0
    /\ ~SectionTableFits
    /\ Fails /\ reads' = {}
    /\ UNCHANGED <<mapped, len, hdr, strtab, sections, nsections, nsegments, symtab, nsymbols, live>>

SectionAt(k) == <<hdr.shoff + k * hdr.shentsize, SHDR_SIZE>>

\* fault: the array is there and its count is not set
AllocSectionsUncounted == live' = live \cup {<<"sections", 0>>} /\ nsections' = 0

AllocSections == live' = live \cup {<<"sections", 0>>} /\ nsections' = hdr.shnum

\* find_shstrtab, and the array
FindShstrtab ==
    /\ step = "shtable" /\ hdr.shnum > 0
    /\ SectionTableFits
    /\ \/ /\ hdr.shstrndx = 0
          /\ reads' = {} /\ UNCHANGED strtab
          /\ AllocSections /\ Goes("section")
       \/ /\ hdr.shstrndx # 0
          /\ reads' = {SectionAt(hdr.shstrndx)}
          /\ \E sh \in SectionHeaders :
                IF sh.type = "NOBITS" \/ ~InBounds(len, sh.offset, sh.size)
                THEN Fails /\ UNCHANGED <<strtab, live, nsections>>
                ELSE /\ strtab' = [offset |-> sh.offset, size |-> sh.size]
                     /\ AllocSections /\ Goes("section")
    /\ UNCHANGED <<mapped, len, hdr, sections, nsegments, symtab, nsymbols>>

\* one round of the loop of read_sections
ReadSection ==
    /\ step = "section" /\ i < hdr.shnum
    /\ \E sh \in SectionHeaders :
          \/ /\ sh.type # "NOBITS" /\ ~InBounds(len, sh.offset, sh.size)
             /\ reads' = {SectionAt(i)} /\ Fails /\ UNCHANGED <<sections, live>>
          \/ /\ sh.type = "NOBITS" \/ InBounds(len, sh.offset, sh.size)
             /\ \E name \in CopyName(strtab.offset, strtab.size, sh.name) :
                   /\ reads' = {SectionAt(i)} \cup name.looks
                   /\ IF name.ok
                      THEN /\ sections' = Append(sections, sh)
                           /\ live' = live \cup {<<"section", i>>}
                           /\ i' = i + 1 /\ UNCHANGED step
                      ELSE Fails /\ UNCHANGED <<sections, live>>
    /\ UNCHANGED <<mapped, len, hdr, strtab, nsections, nsegments, symtab, nsymbols>>

SectionsRead ==
    /\ step = "section" /\ i = hdr.shnum
    /\ Goes("phtable") /\ reads' = {}
    /\ UNCHANGED <<mapped, len, hdr, strtab, sections, nsections, nsegments, symtab, nsymbols, live>>

\* read_segments, up to its loop
SegmentTable ==
    /\ step = "phtable"
    /\ CASE hdr.phnum = 0 -> Goes("pick") /\ UNCHANGED <<live, nsegments>>
         [] hdr.phnum > 0 /\ ~TableBounds(hdr.phoff, hdr.phnum, hdr.phentsize, PHDR_SIZE) ->
               Fails /\ UNCHANGED <<live, nsegments>>
         [] OTHER -> /\ live' = live \cup {<<"segments", 0>>} /\ nsegments' = hdr.phnum
                     /\ Goes("segment")
    /\ reads' = {}
    /\ UNCHANGED <<mapped, len, hdr, strtab, sections, nsections, symtab, nsymbols>>

ReadSegment ==
    /\ step = "segment"
    /\ IF i = hdr.phnum THEN Goes("pick") /\ reads' = {}
       ELSE /\ reads' = {<<hdr.phoff + i * hdr.phentsize, PHDR_SIZE>>}
            /\ \E g \in SegmentHeaders :
                  IF InBounds(len, g.offset, g.filesz) THEN i' = i + 1 /\ UNCHANGED step
                  ELSE Fails
    /\ UNCHANGED <<mapped, len, hdr, strtab, sections, nsections, nsegments, symtab, nsymbols, live>>

\* pick_symtab: the first SHT_SYMTAB, else the first SHT_DYNSYM
OfType(type) == {k \in DOMAIN sections : sections[k].type = type}
FirstOf(set) == CHOOSE k \in set : \A m \in set : k <= m
Picked ==
    IF OfType("SYMTAB") # {} THEN OfType("SYMTAB") ELSE OfType("DYNSYM")

\* the link names a string table inside the file
NamesFit(tab) ==
    /\ tab.link < nsections
    /\ sections[tab.link + 1].type = "STRTAB"
    /\ InBounds(len, sections[tab.link + 1].offset, sections[tab.link + 1].size)

\* read_symbols, up to its loop; elf_open ends well when there is nothing to read
PickSymtab ==
    /\ step = "pick"
    /\ \/ Picked = {} /\ Goes("open") /\ UNCHANGED <<symtab, nsymbols, live>>
       \/ /\ Picked # {}
          /\ LET tab == sections[FirstOf(Picked)] IN
             IF tab.entsize < SYM_SIZE \/ ~NamesFit(tab)
             THEN Fails /\ UNCHANGED <<symtab, nsymbols, live>>
             ELSE
             /\ symtab' = [offset |-> tab.offset, size |-> tab.size, entsize |-> tab.entsize,
                           names |-> sections[tab.link + 1].offset,
                           nameslen |-> sections[tab.link + 1].size]
             /\ IF tab.size \div tab.entsize = 0
                THEN Goes("open") /\ UNCHANGED <<nsymbols, live>>
                ELSE /\ nsymbols' = tab.size \div tab.entsize
                     /\ live' = live \cup {<<"symbols", 0>>}
                     /\ Goes("symbol")
    /\ reads' = {}
    /\ UNCHANGED <<mapped, len, hdr, strtab, sections, nsections, nsegments>>

\* one round of the loop of read_symbols, its own check of the entry included
ReadSymbol ==
    /\ step = "symbol" /\ i < nsymbols
    /\ LET off == i * symtab.entsize IN
       IF ~InBounds(symtab.size, off, SYM_SIZE) THEN Fails /\ reads' = {} /\ UNCHANGED live
       ELSE \E idx \in NameOffsets : \E name \in CopyName(symtab.names, symtab.nameslen, idx) :
               /\ reads' = {<<symtab.offset + off, SYM_SIZE>>} \cup name.looks
               /\ IF name.ok
                  THEN live' = live \cup {<<"symbol", i>>} /\ i' = i + 1 /\ UNCHANGED step
                  ELSE Fails /\ UNCHANGED live
    /\ UNCHANGED <<mapped, len, hdr, strtab, sections, nsections, nsegments, symtab, nsymbols>>

SymbolsRead ==
    /\ step = "symbol" /\ i = nsymbols
    /\ Goes("open") /\ reads' = {}
    /\ UNCHANGED <<mapped, len, hdr, strtab, sections, nsections, nsegments, symtab, nsymbols, live>>

\* elf_close: the names by their counts, the arrays, the mapping
Owned ==
    {<<"section", k>> : k \in 0 .. nsections - 1} \cup {<<"symbol", k>> : k \in 0 .. nsymbols - 1}
    \cup {<<array, 0>> : array \in {"sections", "segments", "symbols"}}

\* after a failure, or by the inspect builtin when it has printed the file
ElfClose ==
    /\ step \in {"close", "open"}
    /\ live' = live \ Owned
    /\ mapped' = FALSE /\ len' = 0
    /\ nsections' = 0 /\ nsegments' = 0 /\ nsymbols' = 0
    /\ Goes(IF step = "open" THEN "closed" ELSE "failed")
    /\ reads' = {}
    /\ UNCHANGED <<hdr, strtab, sections, symtab>>

ElfNext ==
    \/ MapFile \/ ReadEhdr
    \/ NoSectionTable \/ BadSectionTable \/ FindShstrtab \/ ReadSection \/ SectionsRead
    \/ SegmentTable \/ ReadSegment
    \/ PickSymtab \/ ReadSymbol \/ SymbolsRead
    \/ ElfClose

ElfSpec == ElfInit /\ [][ElfNext]_elfvars

-----------------------------------------------------------------------------
(* Whatever the file holds, every byte read from it lies in the mapping:   *)
(* a table, a record of it or a name that is only partly there is never    *)
(* looked at, and no sum or product wraps past a check.                    *)
ReadsInFile ==
    \A r \in reads : mapped /\ r[1] >= 0 /\ r[1] + r[2] <= len

(* "On error out holds no resources": the file is unmapped and everything  *)
(* allocated is freed, wherever the reading stopped; and what is allocated *)
(* for symbols is in proportion to the file, so the check of each entry    *)
(* never is what stops it.                                                 *)
GivesBack ==
    /\ step \in {"failed", "closed"} => live = {} /\ ~mapped
    /\ step = "symbol" =>
          /\ nsymbols * SYM_SIZE <= len
          /\ i < nsymbols => InBounds(symtab.size, i * symtab.entsize, SYM_SIZE)
=============================================================================
