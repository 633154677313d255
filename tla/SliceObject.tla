---------------------------- MODULE SliceObject ----------------------------
(***************************************************************************)
(* tools/slice_exe.py: the original program is cut into object files, one  *)
(* for each slice (extract_slice), which tools/coff.py writes (COFF.write) *)
(* and the linker puts together again.  An instruction is one word with a  *)
(* sequence of operand fields; a symbol, a relocation, a header and a      *)
(* string each take one word of an object file.                            *)
(***************************************************************************)
EXTENDS Integers, Sequences, FiniteSets, TLC

CONSTANTS
    Name,           \* symbols
    LongName,       \* those that do not fit in 8 bytes
    Text, Data, Bss, \* the sections, each a set of addresses
    Base, Limit,    \* operands between these may be addresses
    MaxAddend,      \* 0x8000: how far above a symbol an operand may lie
    SymbolFiles,    \* contents of the symbol file: sequences of [name, addr]
    DebugSymbols,   \* the symbols in the program's debug directory, likewise
    Images,         \* programs: [Text |-> words]
    SliceLists,     \* bound: the lists of slices that are cut and linked
    AddRelocations  \* addRelocations: sets of [location, symbol, offset]

Program == Text \cup Data \cup Bss

Line == [name : Name, addr : Program]
Word == [kind : {"call", "jump", "mem", "junk", "data", "zero"}, fields : Seq(Int)]
Slice == [filler : BOOLEAN, secs : Seq([start : Nat, end : Nat])]

Within(range) == range.start..(range.end - 1)
Parts(list) == UNION { {o} \X DOMAIN list[o].secs : o \in DOMAIN list }
RangeOf(list, part) == list[part[1]].secs[part[2]]

\* Each address is in one range of one slice, and a range in one section.
Partition(list) ==
    /\ list \in Seq(Slice)
    /\ \A part \in Parts(list) :
          /\ RangeOf(list, part).start <= RangeOf(list, part).end
          /\ \E section \in {Text, Data, Bss} : Within(RangeOf(list, part)) \subseteq section
    /\ \A a \in Program : \E part \in Parts(list) : a \in Within(RangeOf(list, part))
    /\ \A p, q \in Parts(list) :
          Within(RangeOf(list, p)) \cap Within(RangeOf(list, q)) # {} => p = q

Relative(w) == w.kind \in {"call", "jump"}

\* A relocation of the configuration says what the operand is.
RightFor(r, image) ==
    LET w == image[r.location]
    IN  r.location \in Text =>
          /\ Len(w.fields) >= 1
          /\ w.fields[1] = r.symbol + r.offset - IF Relative(w) THEN r.location + 1 ELSE 0

ASSUME SliceObjectAssumption ==
    /\ LongName \subseteq Name /\ ".section" \notin Name
    /\ Base \in Nat /\ Limit \in Nat /\ MaxAddend \in Nat
    /\ Program \subseteq Nat \ {0}
    /\ Text \cap Data = {} /\ Text \cap Bss = {} /\ Data \cap Bss = {}
    /\ SymbolFiles \cup DebugSymbols \subseteq Seq(Line)
    /\ Images \subseteq [Text -> Word]
    /\ \A image \in Images : \A a \in Text : image[a].kind = "call" => Len(image[a].fields) >= 1
    /\ \A added \in AddRelocations : \A r \in added :
          /\ r \in [location : Nat, symbol : Nat, offset : Int]
          /\ \A image \in Images : RightFor(r, image)

VARIABLES
    symfile,    \* the lines of the symbol file
    syms,       \* what format_symbols returns, a dict in its order
    dbg, image, slices, added,      \* the inputs
    cur, sec, at,   \* the slice, its section and the instruction that is next
    coff,       \* coff_file: [sections, symbols]
    objects,    \* the object files written, in the order of the slices
    memory,     \* the linked program
    stage       \* "start", "format", "extract", "written"; "linked", "unlinkable" or "failed"

inputs == <<dbg, image, slices, added>>
cutting == <<symfile, syms, inputs, cur, sec, at, coff, objects, memory, stage>>

Zero == [kind |-> "zero", fields |-> <<>>]
Original(a) == IF a \in Text THEN image[a] ELSE IF a \in Data THEN [Zero EXCEPT !.kind = "data"] ELSE Zero

Largest(S) == CHOOSE a \in S : \A b \in S : b <= a
Firsts(s) == { i \in DOMAIN s : \A j \in 1..(i - 1) : s[j] # s[i] }
LastOf(s, x) == Largest({ i \in DOMAIN s : s[i] = x })

\* What s has at the places in K, in its order.
Kept(s, K) ==
    LET upto[n \in 0..Len(s)] ==
            IF n = 0 THEN <<>>
            ELSE IF n \in K THEN Append(upto[n - 1], s[n]) ELSE upto[n - 1]
    IN  upto[Len(s)]

-----------------------------------------------------------------------------
(***************************************************************************)
(* format_symbols: the dictionary has each name once, at the place of its  *)
(* first line and with the address of its last; the file is sorted.        *)
(***************************************************************************)
Dict(lines) ==
    LET names == [i \in DOMAIN lines |-> lines[i].name]
    IN  Kept([i \in DOMAIN lines |-> lines[LastOf(names, names[i])]], Firsts(names))

\* slice_exe.py is given a program, its symbols and a configuration.
Open(list) ==
    /\ stage = "start" /\ stage' = "format"
    /\ slices' = list /\ symfile' \in SymbolFiles /\ dbg' \in DebugSymbols
    /\ image' \in Images /\ added' \in AddRelocations
    /\ UNCHANGED <<syms, cur, sec, at, coff, objects, memory>>

FormatSymbols ==
    /\ stage = "format"
    /\ syms' = Dict(symfile)
    /\ symfile' = SortSeq(symfile, LAMBDA l, m : l.addr < m.addr)
    /\ stage' = "extract"
    /\ UNCHANGED <<inputs, cur, sec, at, coff, objects, memory>>

\* The symbols of the file by address, then over them those of the debug data.
Pairs == syms \o dbg
PairAddrs == [i \in DOMAIN Pairs |-> Pairs[i].addr]
Addrs == { Pairs[i].addr : i \in DOMAIN Pairs }
AddrToSym == [a \in Addrs |-> Pairs[LastOf(PairAddrs, a)].name]

-----------------------------------------------------------------------------
CoffSection(data, size, bss) == [data |-> data, size |-> size, bss |-> bss, relocations |-> <<>>]

\* coff_file with its .drectve section, whose `size' is None.
EmptyCoff == [sections |-> <<CoffSection(<<Zero>>, 0, FALSE)>>, symbols |-> <<>>]

Symbol(name, value, number, external) ==
    [name |-> name, offset |-> 0, value |-> value, section_number |-> number,
     external |-> external]

SecRange == slices[cur].secs[sec]

SecData(range) ==
    IF range.start \in Bss THEN <<>>
    ELSE [i \in 1..(range.end - range.start) |-> Original(range.start + i - 1)]

SymbolsIn(range, number) ==
    Kept([i \in DOMAIN Pairs |->
             Symbol(AddrToSym[Pairs[i].addr], Pairs[i].addr - range.start, number, TRUE)],
         { i \in Firsts(PairAddrs) : Pairs[i].addr \in Within(range) })

\* A section of the slice: its data, a symbol for it, and those inside it.
BeginSection ==
    /\ stage = "extract" /\ cur <= Len(slices) /\ sec <= Len(slices[cur].secs) /\ at = 0
    /\ coff' = [sections |-> Append(coff.sections,
                    CoffSection(SecData(SecRange), SecRange.end - SecRange.start, SecRange.start \in Bss)),
                symbols |-> Append(coff.symbols, Symbol(".section", 0, sec + 1, FALSE))
                                \o SymbolsIn(SecRange, sec + 1)]
    /\ IF ~slices[cur].filler /\ SecRange.start \in Text /\ SecRange.start < SecRange.end
       THEN at' = SecRange.start /\ UNCHANGED sec
       ELSE at' = 0 /\ sec' = sec + 1
    /\ UNCHANGED <<symfile, syms, inputs, cur, objects, memory, stage>>

\* bisect_left(sorted_sym_addrs, val + 1) - 1 as an index: -1 is the last one.
NextAddrBelow(val) ==
    IF \E a \in Addrs : a <= val THEN Largest({a \in Addrs : a <= val}) ELSE Largest(Addrs)

Reloc(field, addend, target, absolute) ==
    [field |-> field, addend |-> addend, target |-> target, absolute |-> absolute]

IsAddress(v) == Base < v /\ v < Limit

\* A call has a relocation when its target has a name; another operand when it
\* is an address not too far above one that has.
Bug_OperandRelocs(a, w) ==
    IF w.kind = "call"
    THEN IF a + w.fields[1] \in Addrs THEN <<Reloc(1, 0, a + w.fields[1], FALSE)>> ELSE <<>>
    ELSE <<>>

OperandRelocs(a, w) ==
    IF w.kind = "call"
    THEN IF a + 1 + w.fields[1] \in Addrs
         THEN <<Reloc(1, 0, a + 1 + w.fields[1], FALSE)>> ELSE <<>>
    ELSE IF w.kind = "jump" \/ Addrs = {} THEN <<>>
    ELSE LET below(k) == NextAddrBelow(w.fields[k])
         IN  Kept([k \in DOMAIN w.fields |-> Reloc(k, w.fields[k] - below(k), below(k), TRUE)],
                  { k \in DOMAIN w.fields : IsAddress(w.fields[k]) /\ w.fields[k] - below(k) < MaxAddend })

\* A relocation of the configuration takes the place of the instruction's own.
Relocs(a, w) ==
    LET mine == { r \in added : r.location = a }
    IN  IF mine = {} THEN OperandRelocs(a, w)
        ELSE LET r == CHOOSE r \in mine : TRUE
             IN  <<Reloc(1, r.offset, r.symbol, ~Relative(w))>>

(***************************************************************************)
(* add_relocation for each of rs.  The symbol made for one is new and      *)
(* compared by identity, so it is appended every time, with the last       *)
(* index; the operand becomes the addend.                                  *)
(***************************************************************************)
Relocated(w, rs) ==
    [w EXCEPT !.fields = [k \in DOMAIN w.fields |->
        IF \E j \in DOMAIN rs : rs[j].field = k
        THEN rs[CHOOSE j \in DOMAIN rs : rs[j].field = k].addend ELSE w.fields[k]]]

AddRelocation(c, rs) ==
    LET n == Len(c.sections)
        word == at - SecRange.start + 1
    IN  [symbols |-> c.symbols \o
             [j \in DOMAIN rs |-> Symbol(AddrToSym[rs[j].target], 0, 0, TRUE)],
         sections |-> [c.sections EXCEPT
             ![n].relocations = @ \o [j \in DOMAIN rs |->
                  [address |-> word, field |-> rs[j].field,
                   sym_index |-> Len(c.symbols) + j - 1, absolute |-> rs[j].absolute]],
             ![n].data[word] = Relocated(@, rs)]]

Disassembling == stage = "extract" /\ at # 0

AfterInsn(next) ==
    IF next < SecRange.end THEN at' = next /\ UNCHANGED sec ELSE at' = 0 /\ sec' = sec + 1

\* Without any symbol there is none below an operand; a relocation of the
\* configuration may name an address that has no symbol.
Fails(a, w) ==
    \/ /\ Addrs = {} /\ ~Relative(w)
       /\ \E k \in DOMAIN w.fields : IsAddress(w.fields[k])
       /\ ~\E r \in added : r.location = a
    \/ \E r \in added : r.location = a /\ r.symbol \notin Addrs

Insn ==
    LET w == image[at]
    IN  /\ Disassembling /\ w.kind # "junk" /\ ~Fails(at, w)
        /\ coff' = AddRelocation(coff, Relocs(at, w))
        /\ AfterInsn(at + 1)
        /\ UNCHANGED <<symfile, syms, inputs, cur, objects, memory, stage>>

InsnFails ==
    /\ Disassembling /\ image[at].kind # "junk" /\ Fails(at, image[at])
    /\ stage' = "failed"
    /\ UNCHANGED <<symfile, syms, inputs, cur, sec, at, coff, objects, memory>>

\* The disassembler stops for good at bytes that are no instruction.
Junk ==
    /\ Disassembling /\ image[at].kind = "junk"
    /\ AfterInsn(SecRange.end)
    /\ UNCHANGED <<symfile, syms, inputs, cur, coff, objects, memory, stage>>

-----------------------------------------------------------------------------
\* file.seek(pos); file.write(items)
Place(pos, items) == [p \in { pos + i - 1 : i \in DOMAIN items } |-> items[p - pos + 1]]

\* The later of two writes stays.
Over(f, g) == [p \in DOMAIN f \cup DOMAIN g |-> IF p \in DOMAIN g THEN g[p] ELSE f[p]]

\* The same for one piece after another.
PlaceAll(pieces) ==
    [p \in UNION { DOMAIN pieces[i] : i \in DOMAIN pieces } |->
        pieces[Largest({ i \in DOMAIN pieces : p \in DOMAIN pieces[i] })][p]]

Bug_Room(s) == Len(s.data)

\* How much of the file a section takes.
Room(s) == Len(s.data) + Len(s.relocations)

\* Where each piece begins, and where the last one ends.
Offsets(start, rooms) ==
    LET pos[i \in 0..Len(rooms)] == IF i = 0 THEN start ELSE pos[i - 1] + rooms[i] IN pos

LongOnes(symbols) == { k \in DOMAIN symbols : symbols[k].name \in LongName }

\* A name that is too long is the offset in the strings.
Entry(symbols, k) ==
    IF k \in LongOnes(symbols)
    THEN [symbols[k] EXCEPT !.name = "", !.offset = Cardinality(LongOnes(symbols) \cap (1..k))]
    ELSE symbols[k]

(***************************************************************************)
(* COFF.write: the headers, for each section its data, then for each its   *)
(* relocations, the symbol table, and the names that are too long for it.  *)
(***************************************************************************)
CoffFile(c) ==
    LET n == Len(c.sections)
        pos == Offsets(1 + n, [i \in 1..n |-> Room(c.sections[i])])
        reloc_offset(i) == pos[i - 1] + Len(c.sections[i].data)
        header == [nscns |-> n, symptr |-> pos[n], nsyms |-> Len(c.symbols)]
        sec_header(i) ==
            LET s == c.sections[i]
            IN  [size |-> IF s.size # 0 THEN s.size ELSE Len(s.data), scnptr |-> pos[i - 1],
                 relptr |-> reloc_offset(i), nreloc |-> Len(s.relocations), bss |-> s.bss]
        symbols == [k \in DOMAIN c.symbols |-> Entry(c.symbols, k)]
        strings == <<"size">> \o Kept([k \in DOMAIN c.symbols |-> c.symbols[k].name], LongOnes(c.symbols))
        headers == Over(Place(0, <<header>>), Place(1, [i \in 1..n |-> sec_header(i)]))
        data == PlaceAll([i \in 1..n |-> Place(pos[i - 1], c.sections[i].data)])
        relocations == PlaceAll([i \in 1..n |-> Place(reloc_offset(i), c.sections[i].relocations)])
    IN  Over(Over(Over(headers, data), relocations), Place(pos[n], symbols \o strings))

WriteSlice ==
    /\ stage = "extract" /\ cur <= Len(slices) /\ sec > Len(slices[cur].secs)
    /\ objects' = Append(objects, CoffFile(coff))
    /\ coff' = EmptyCoff /\ cur' = cur + 1 /\ sec' = 1
    /\ stage' = IF cur = Len(slices) THEN "written" ELSE stage
    /\ UNCHANGED <<symfile, syms, inputs, at, memory>>

-----------------------------------------------------------------------------
(***************************************************************************)
(* The linker, which is not part of this code.  It reads each object file  *)
(* through its headers, puts every section where it was in the program,    *)
(* and takes a symbol's address from the one file that defines it.         *)
(***************************************************************************)
SymAt(f, k) ==
    LET s == f[f[0].symptr + k]
    IN  IF s.offset # 0 THEN [s EXCEPT !.name = f[f[0].symptr + f[0].nsyms + s.offset]] ELSE s

SymIndices(f) == 0..(f[0].nsyms - 1)

Defines(f, k, name) ==
    LET s == SymAt(f, k) IN s.external /\ s.section_number > 0 /\ s.name = name

Definitions(name) ==
    UNION { {o} \X { k \in SymIndices(objects[o]) : Defines(objects[o], k, name) } :
              o \in DOMAIN objects }

AddressOf(name) ==
    LET d == CHOOSE d \in Definitions(name) : TRUE
        s == SymAt(objects[d[1]], d[2])
    IN  slices[d[1]].secs[s.section_number - 1].start + s.value

Resolved == \A n \in Name :
    /\ \A d, e \in Definitions(n) : d = e
    /\ Definitions(n) = {} =>
          \A o \in DOMAIN objects : \A k \in SymIndices(objects[o]) : SymAt(objects[o], k).name # n

\* Where the section is put that was cut at `part'.
Loaded(part) ==
    LET start == RangeOf(slices, part).start
    IN  start..(start + objects[part[1]][part[2] + 1].size - 1)

LinkedWord(part, a) ==
    LET f == objects[part[1]]
        h == f[part[2] + 1]
        index == a - RangeOf(slices, part).start
        word == IF h.bss THEN Zero ELSE f[h.scnptr + index]
        relocs(k) == { p \in h.relptr..(h.relptr + h.nreloc - 1) :
                         f[p].address = index + 1 /\ f[p].field = k }
        value(p) == AddressOf(SymAt(f, f[p].sym_index).name) - IF f[p].absolute THEN 0 ELSE a + 1
    IN  [word EXCEPT !.fields = [k \in DOMAIN word.fields |->
            IF relocs(k) = {} THEN word.fields[k]
            ELSE word.fields[k] + value(CHOOSE p \in relocs(k) : TRUE)]]

Link ==
    /\ stage = "written"
    /\ IF Resolved
       THEN /\ stage' = "linked"
            /\ memory' = [a \in UNION { Loaded(part) : part \in Parts(slices) } |->
                             LinkedWord(CHOOSE part \in Parts(slices) : a \in Loaded(part), a)]
       ELSE stage' = "unlinkable" /\ UNCHANGED memory
    /\ UNCHANGED <<symfile, syms, inputs, cur, sec, at, coff, objects>>

-----------------------------------------------------------------------------
CutInit ==
    /\ symfile = <<>> /\ dbg = <<>> /\ image = <<>> /\ slices = <<>> /\ added = {}
    /\ syms = <<>> /\ cur = 1 /\ sec = 1 /\ at = 0 /\ coff = EmptyCoff
    /\ objects = <<>> /\ memory = <<>> /\ stage = "start"

CutNext == FormatSymbols \/ BeginSection \/ Insn \/ InsnFails \/ Junk \/ WriteSlice \/ Link

-----------------------------------------------------------------------------
(***************************************************************************)
(* Linking the slices gives the original program back, word for word and   *)
(* operand for operand, whichever operands were turned into relocations.   *)
(* Each symbol is defined in the object file of one slice: the link fails  *)
(* only if one name stands for two addresses.                              *)
(***************************************************************************)
LinkedIsOriginal ==
    /\ stage = "linked" => /\ DOMAIN memory = Program
                           /\ \A a \in DOMAIN memory : memory[a] = Original(a)
    /\ stage = "unlinkable" => \E a, b \in Addrs : a # b /\ AddrToSym[a] = AddrToSym[b]

\* Types; a relocation is of a word of its section and names a symbol.
CutTypeOK ==
    /\ stage \in {"start", "format", "extract", "written", "linked", "unlinkable", "failed"}
    /\ \A i \in DOMAIN coff.sections :
          LET s == coff.sections[i]
          IN  \A k \in DOMAIN s.relocations :
                 /\ s.relocations[k].address \in DOMAIN s.data
                 /\ s.relocations[k].sym_index < Len(coff.symbols)
    /\ \A k \in DOMAIN coff.symbols : coff.symbols[k].section_number <= Len(coff.sections)

\* How many words were written for an object file.
WordsOf(f) ==
    LET n == f[0].nscns
        rooms == [i \in 1..n |-> (IF f[i].bss THEN 0 ELSE f[i].size) + f[i].nreloc]
        long == { k \in 1..f[0].nsyms : f[f[0].symptr + k - 1].offset # 0 }
    IN  Offsets(n + 1, rooms)[n] + f[0].nsyms + 1 + Cardinality(long)

\* Nothing written to an object file lies on anything else in it, and what its
\* relocations refer to is there, whatever was loaded.
ObjectFilesWhole ==
    /\ CutTypeOK
    /\ \A o \in DOMAIN objects : DOMAIN objects[o] = 0..(WordsOf(objects[o]) - 1)
=============================================================================
