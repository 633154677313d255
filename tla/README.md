# Verification of mwcceppc-decomp

This directory is a TLA+ development for the decompilation of the Metrowerks
PowerPC C/C++ compiler (`mwcceppc`) and for the Python tools that slice the
original executable so that decompiled object files can replace parts of it.
The C files are two pieces of the compiler's C++ front end
(`source/CABI.c`, `source/CMangler.c`) and its operating-system layer for
Win32 (`source/OS/MsDos.c`). Everything they call (parser, scopes, expression
trees, the handle allocator, Win32) is only declared in the headers; it is
modelled from how the code here uses it.

## 1. Inventory

The program has no threads of its own. What is hard is re-entrancy (functions
that share global buffers and global compiler state and call each other),
operations of several steps one of which fails, resources that have to be
released on every path, sentinels and counters at their limits, and layouts in
which ranges must not overlap.

| Component | Source | State it keeps | Operations | Hard behaviour, and what makes it correct |
|---|---|---|---|---|
| Link names | `CMangler.c` | one shared buffer `name_mangle_list`; the `linkname` cache in each object | `GetLinkName`, `SetupLocalVarName`, `SetupLocalStringName`, `SetupGuardVarName`, `TemplateInstanceName`, `ThunkName`, `GetCovariantFunctionName`, `VTableName`, `RTTIObjectName`, `ConversionFuncName` | names are built in one buffer by mutually recursive functions: no nested call may disturb a name being built; a cached name is final; different entities get different names |
| Type and namespace mangling | `CMangler.c:296-661` | appends to the buffer | `MangleTypeAppend`, `MangleNameSpaceName`, `MangleArgs`, `MangleFunction`, `GetOperator` | different types need different codes, and codes are put in a row without separators; the namespace stack holds ten names and drops outer namespaces beyond that |
| Virtual tables | `CABI.c:119-371` | the vtable object of a class, its size, the slot of every virtual method | `AllocateVTable`, `MakeVTableLayout`, `FindOffset`, `FindZeroVirtualBaseMember` | a class shares the table of its first base or owns one; the slots of a class and the ranges of its bases never overlap; a method that overrides uses its base's slot |
| Virtual base pointers | `CABI.c:339-501` | paths through the inheritance graph | `GetVBasePath`, `FindNVBase`, `GetCtorOffsetOffset` | dominance and ambiguity of paths |
| Generated constructors and destructors | `CABI.c:503-1321` | current function, scope, statement list, template stack, `copts.filesyminfo`; the flags of a class | `TransConstructor`, `MakeDefault*`, `DestroyObject` | generation re-enters the parser: the compiler's global state must be what it was before; members are constructed once, bases first |
| Guard variables | `CABI.c:92-116` | the guard object | `NewGuardVariable` | the guarded object already has its link name |
| Open files | `MsDos.c:59-295` | a Win32 handle, the file's position and contents | `OS_Create`, `OS_Open`, `OS_Close`, `OS_Read`, `OS_Write`, `OS_Seek`, `OS_Tell`, `OS_GetSize`, `OS_SetSize` | a write past the end fills the gap in chunks and can fail or fall short between any two of them; `OS_SetSize` moves the position and puts it back |
| File names and paths | `MsDos.c:297-348, 526-904` | the result buffers | `OS_Delete`, `OS_Rename`, `OS_Mkdir`, `OS_CanonPath`, `OS_Make*Spec`, `OS_*ToString` | buffer limits, the shape of a canonical path |
| Executing programs | `MsDos.c:370-504` | the process's standard output and error handles, redirection handles | `OS_RedirectStream`, `OS_Execute` | every return path must put the standard handles back and close what it opened |
| Directories | `MsDos.c:1073-1172` | the prefetched entry, the find handle, the entry buffer | `OS_OpenDir`, `OS_ReadDir`, `OS_CloseDir` | every entry once, in order, with one entry read ahead; the end is final |
| Links | `MsDos.c:947-1071` | none | `OS_ResolveLink` and its readers | two functions decide what is a link, each for itself; handles closed on each path |
| Memory handles | `MsDos.c:1174-1255` | address and used size of a block | `OS_NewHandle`, `OS_ResizeHandle`, `OS_LockHandle`, `OS_FreeHandle` | a failed resize, a freed handle used again |
| Time, resource forks, mapping | `MsDos.c:1257-1439` | mapping handles | `OS_TimeToMac`, `OS_LoadMacResourceFork`, `OS_MapFile` | 32-bit time arithmetic; handles released on each path |
| Slices | `tools/slicelib.py`, `config/mwcceppc.json` | the list of slices of each section | `load_slice_file` | slices partition every section; gaps become filler slices |
| Slice execution, object files | `tools/slice_exe.py`, `tools/coff.py`, `tools/codeview.py`, `tools/pefile.py` | section contents, relocations, symbols, file offsets | `COFF.write`, `add_relocation` | file offsets in the header point at what is written; linking the files gives back the program |
| Build description | `configure.py`, other `tools/*.py` | the ninja file | | straight-line generation of a build file |

Two corrections to the last column, found while modelling: the functions of
`CABI.c` on virtual bases are two separate walks of the class hierarchy (the
stores of a constructor and the loads of an access) which have to agree; and
`OS_Execute` has a return between redirecting and putting back that could not
put anything back, and is never taken only because the function it tests never
fails (section 10).

How they interact. The slices that `load_slice_file` yields are what
`slice_exe.py` cuts; both are composed in `Slicing`. A link name is asked for
while another is being spelled (`LinkNames`), and takes the encodings of types
(`TypeNames`) as its pieces. A constructor stores the pointers to virtual bases
by the walk that `VBasePointers` is about, at the place `Constructors` gives
them, and the slots of `VTableLayout` are what its virtual table pointers lead
to. The functions of `MsDos.c` share the one `spec_buffer` (`OSSpec`), the
standard handles of the process (`OSExecute`), the handles and memory of the
system (`OSResources`) and the environment (`OSPath`).

## 2. Plan

The order is by how much of the program depends on the component and by how
hard its behaviour is to test.

| | Module | State |
|---|---|---|
| 1 | `LinkNames`, its theorems | done |
| 2 | `OSFile` with the abstract specification `AbstractFile`, its theorems | done |
| 3 | `VTableLayout` | done |
| 4 | `VBasePointers` | done |
| 5 | `SliceFile`, its theorems | done |
| 6 | `SliceObject`: extraction, the object files and their linking | done |
| 7 | `OSDir` with `AbstractDir`, `OSSpec`, `OSExecute` | done |
| 8 | `OSResources`: memory handles, mappings, links, references of 16 bits | done |
| 9 | `Constructors`: what is generated, and the compiler's globals around it | done |
| 10 | `TypeNames`: the encoding of types, namespaces and signatures | done |
| 11 | `OSPath`: canonical paths and the buffers they are put together in | done |
| 12 | `Slicing`: `SliceFile` and `SliceObject` composed; `OSServices` likewise | done |
| 13 | theorems about `OSResources`, `OSExecute` and the compiler's globals in `Constructors` | done |
| 14 | `Recursion`: induction for the provers; theorems about `VTableLayout`, `OSServices` (with `OSDir` implementing `AbstractDir`) and the fillers of `SliceFile` | done |
| 15 | theorems: the statements of `Constructors`, their order and what running them does | done |
| 16 | theorems: the names of `LinkNames`, links and arguments in `OSResources` | done |
| 17 | theorems: names of files and the one buffer (`OSSpec`), paths (`OSPath`) | done |
| 18 | theorems: the object files and the linked program (`Slicing`) | done |
| 19 | theorems: the stores and the paths of `VBasePointers` | done |

Every module keeps control and abstracts data: an identifier is a model value, a
machine instruction a word with operand fields. Where the question is about the
text itself (`TypeNames`, `OSPath`, `OSSpec`) strings are spelled out. Every
bound is a CONSTANT whose comment begins with *bound*. Definitions named
`Bug_...` are variants of the definition they precede with one plausible mistake
in it; no specification uses them. They exist to show that the properties
notice such a mistake.

## 3. Files

| Module | What it is | Run (cfg `<MC module>.cfg`) |
|---|---|---|
| `LinkNames`, `LinkNamesMC`, `LinkNamesProofs` | names of objects, `CMangler.c` | `link_names` |
| `TypeNames`, `TypeNamesMC` | encodings of types and signatures, `CMangler.c` | `type_names` |
| `VTableLayout`, `VTableLayoutMC`, `VTableLayoutProofs` | virtual tables, `CABI.c` | `vtable_layout` |
| `VBasePointers` | pointers to virtual bases, `CABI.c` | `vbase_pointers` (`VBasePointersMC.cfg`) |
| `Constructors`, `ConstructorsMC` | generated functions, `CABI.c` | `constructors` |
| `ConstructorsProofs` | the theorems about `Constructors` and `VBasePointers` | |
| `OSFile`, `AbstractFile`, `OSFileMC` | one open file, `MsDos.c` | `os_file` |
| `OSServices`, `OSServicesMC`, with `OSDir`, `AbstractDir`, `OSExecute`; `OSServicesProofs` | reading a directory, running a program, `MsDos.c` | `os_services` |
| `OSSpec`, `OSSpecMC` | operations by name and the shared `spec_buffer`, `MsDos.c` | `os_spec`; `os_spec_long` (`OSSpecLongMC.cfg`, finding) |
| `OSPath`, `OSPathMC` | paths as strings, `MsDos.c` | `os_path` |
| `OSFileProofs` | the theorems about `OSFile`, `OSSpec` and `OSPath` | |
| `OSResources`, `OSResourcesMC`, `OSResourcesProofs` | memory, handles, mappings, links, `MsDos.c` | `os_resources` |
| `Slicing`, `SlicingMC`, with `SliceFile`, `SliceObject`; `SliceFileProofs` | loading, cutting and linking slices, `slicelib.py`, `slice_exe.py`, `coff.py`, `format_symbols.py`, `configure.py` | `slicing` |
| `Recursion` | induction and recursive functions, for the proofs | |

`tlc -config X.cfg M` runs a configuration, `tlapm M.tla` checks proofs.

`Recursion` is what lets the provers reason about walks of the class hierarchy,
about sums over lists and about sequences that a recursive function makes. The
library's theorems on induction take the property as an operator, which no prover
here can instantiate. Here the property is a set of numbers and a recursive
function is computed by a function `step` from its values at smaller arguments, so
that both are values: `Induction`, `BoundedInduction`, `StrongInduction`,
`RecursiveFunction` (such a function exists and satisfies its equation),
`RecursiveSequence` (the same for one that each number takes from the one before)
and `RankedFunction` (the same over any set whose elements have a rank, such as
objects by their age). All of
them are proved from the well-foundedness of the order of the natural numbers.

## 4. LinkNames

**Code.** Every link name is put together in one growable buffer,
`name_mangle_list`, which each function empties by `size = 0` before it
appends. `CMangler_GetLinkName` of an object that has no name yet does that
too, and a template argument list contains the link names of other objects. To
keep a nested call from emptying the buffer in the middle of a name, the code
walks the argument list twice: `CheckTemplateArguments` has every object named
first, then the buffer is emptied and filled.

**State.** `linkname` is the cached name in each object, `buf` the buffer,
`stack` the procedure calls under way (a frame is a request, whether it is in
the pre-pass (`check`), the list (`append`) or waits for the link name a thunk
starts with (`await`), and the index of the argument), `given` the answers
handed out. **Actions.** One for each entry point (`GetLinkName`,
`SetupLocalVarName`, `SetupLocalStringName`, `SetupGuardVarName`,
`TemplateInstanceName`, `ThunkName`, `CovariantFunctionName`, `VTableName`,
`RTTIObjectName`, `ConversionFuncName`), and one for each kind of step of the
innermost call (`CheckArg`, `BeginName`, `KeepIdentifier`, `AppendArg`,
`FinishName`, `AwaitLink`). `AppendArg` may call `GetLinkName`, as the code
does: that it never has to is a result, not an assumption.

**Assumed of the caller.** An instance is younger than the objects among its
arguments (`ArgumentsAreOlder`), and a local static is named when it is
declared, before anything asks for its name.

**Run.** `link_names`: 4 functions (two template instances, one of them over an
alias to the other and a label; a pascal function), 3 data objects, a class,
two answers remembered. Nesting is three calls deep, so a nested call itself
has a nested call; two answers are what it takes for two names to collide.
`TypeOK`; `NamesRight`: each name equals one that a definition without a buffer
gives (`NamesExact`), and different entities have different names
(`NamesDistinct`); `BufferOnlyGrows` (no step shortens or changes a name
being spelled); `LinkNameStable`; `EveryCallReturns`, under weak fairness of
the steps of a call: the code is sequential, so a call that has begun goes on.

**Proved** (`LinkNamesProofs`), for every program that satisfies the two
assumptions, of any size: `TypeCorrect`, `BufferIsSafe`, `LinkNamesAreStable`,
`NamesAreExact`.
The inductive invariant `IInv` says that (1) what the pre-pass of a frame has
passed is named and stays named (`PrepassDone`), (2) what a frame is naming has
no name yet, and (3) an inner frame works on an older object than the frame
below it. (3) is why: without it a nested call could be naming the very object
the outer call is about, and set its name a second time. (1) gives that
`AppendArg` never calls, hence `BufferOnlyGrows`.

`NamesAreExact` (`Spec => []NamesExact`) needs more, `ExactInv`: only the frame on
top is spelling a list (`OnlyTopSpells`), so that emptying the buffer spoils nothing
but a name that is finished, and what the buffer then holds is exactly the beginning
of the name that has to come out (`BufferExact`). The definition the names are
compared with is recursive twice, along an argument list (`Texts`) and from an
instance to its older arguments (`RefLinkName`); that there are such functions is
proved from `Recursion` before their equations are used. Since a name that is set
stays, the name a guard was given remains the one its variable has
(`GuardedIsNamed`).

**Only checked**: `NamesDistinct`, the other half of `NamesRight`. It is no matter of
the buffer but of the names themselves, and holds only of programs whose entities
differ in what is spelled: two functions that are not mangled and have one
identifier have one name. `EveryCallReturns` is a liveness property.

## 5. TypeNames

**Code.** What `LinkNames` takes as one piece, the encoding of a type, is
spelled out here: `CMangler_MangleTypeAppend` and what it calls, the signature
of a function, the lists of template arguments, the prefixes of tables and
conversions, and the two tables of operators (the one that encodes a token and
the one that decodes a name for messages). Types are records by their kind; a
namespace is a path.

**State.** `asked` and `name`: the entity whose name was asked for last, and the
answer; `copts`, the two options that change the spelling. A step asks for any
other name, so that an action property relates any two of them.

**Run.** `type_names`: some 700 entities: every kind of type, alone and below
pointers, references, pointers to members, arrays and functions, names that begin one
another, namespaces up to and beyond the limit (a stack of four, limit three,
for the code's ten and nine: what happens depends on which side of it a name is,
so a stack that holds three besides the name is enough).
`NamesTellApart`: two names are the same exactly if the entities are the same to
C++, which `Canon` defines without regard to the code. `TypesArePrefixFree`: no
encoding of a type begins another's, so types can be put in a row.
`TablesAgree`: the stack does not overflow, and encoding an operator and
decoding it gives the operator.

**Not for every type.** `Regular` names what the first two leave out, and each is an
observation about the code (section 15): template parameters,
types without a name, `IT_23` to `IT_30`, parameters that are pointers to
members, namespaces that are cut. TypeNames is recursive over types, so it is
only checked.

## 6. VTableLayout

**Code.** `CABI_AllocateVTable` decides where the vptr goes;
`CABI_MakeVTableLayout` gives each base a range in the table, each new virtual
function a slot, each virtual base a range after them. **State.** For each
class that has been completed its bases and virtual bases with their offsets in
the table, the base whose table it shares, the slots of its functions, two
sizes and its data members. One **action**, `CompleteClass`, does both
functions for one class. The caller (which class is laid out when, which base is
primary) is not in this repository and is modelled as every choice it has.

**Run.** `vtable_layout`: all hierarchies of three classes over two functions.
Three is the least with a base of a base and with two bases, and the properties
relate a class to a base or two bases of one class. `BaseTablesDisjoint`;
`SlotsAgree` (a function that overrides has the slot of what it overrides, and
no two signatures of a chain share one); `OneVPtrPerChain`. A class without a
primary base counts its slots and assigns none (`CABI.c:260-261`), so `SlotsAgree` speaks of
the slots that are assigned. `CHECK_DEADLOCK FALSE`, here and below, where a bound on the
number of classes or calls ends a behaviour.

**Proved** (`VTableLayoutProofs`), for any number of classes, functions, bases and
data members: `TablesLieApart`, `SlotsAlwaysAgree`, `OneVPtr`, the three properties of
the run. The invariant `LayoutInv` says of each class that was completed: its bases
are older (`BasesRight`); the tables of its bases lie in its own, apart from each
other, and those of its virtual bases behind (`TablesRight`); a new function has a
slot behind the tables of all its bases that no other new one has, an inherited one
the slot of the class where `FindZeroVirtualBaseMember` finds it (`SlotsRight`);
there is a vptr exactly where a table begins (`VPtrRight`). Completing a
class disturbs nothing that is said of older ones, so the work is in the new
class. There the ranges lie apart because a base begins where the sum of the
sizes before it ends, by induction over the list of bases, and the slots of new
functions differ because they are counted. The three properties then follow from
the invariant by induction along the primary bases of a class, of which
`FindZeroVirtualBaseMember` and the chain of `OneVPtrPerChain` are recursive
walks. That two functions of a chain have different slots needs the
range of the first base to be the lowest (the last conjunct of `TablesRight`).

## 7. VBasePointers

**Code.** At the beginning of a constructor `CABI_InitVBasePtrs` stores, in
every part of the object that has a pointer to a virtual base, the address of
that base; `CABI_0056e210` walks the hierarchy to find the pointers and
`CABI_FindOffset` keeps it from storing twice. An access goes by
`CABI_GetVBasePath`, which walks it in another way and gives a list of loads.

**State.** For each class its direct bases with their offsets (`bases`), the offset
of each of its virtual bases (`vbases`), its size without them (`othersize`) and the
stores its constructor begins with (`stores`); the list of offsets that
`CABI_FindOffset` looks in (`known`, the code's `trans_vtboffsets`); and the loop of
the translation under way (`current`, `todo`). **Actions.** `CompleteClass` is the
declaration of a class, by code that is not in the repository: what lies at
which offset is the one layout in which the parts are apart and the virtual bases
come last. `InitVBasePtrs` begins a translation with an empty list, and
`NextVBase` is a turn of the loop over the virtual bases, as `CABI_TransConstructor` has it
for constructors that are written and `CABI_InitVBasePtrs` for those that are not.

**Run.** `vbase_pointers`: all hierarchies of four classes, each with any of the
earlier ones as its bases, virtual or not, one constructor after another with the global list of
offsets shared. Four is the least with a diamond under a further class.
`PathsRight`: from every part of every object the loads end at the one copy of
the base, and the dominant path has the fewest loads. `StoresRight`: every store
is to a pointer of the object and no pointer is stored to twice, although the
list of offsets is a global that a constructor has to empty first.
`CHECK_DEADLOCK FALSE`: a hierarchy of `MaxClass` classes without virtual bases has
nothing left to do.

**Proved** (`ConstructorsProofs`), for hierarchies of any size: `StoresAreRight` and
`PathsAreRight`. All walks here are recursive functions, and `Recursion` gives each of them
its equation. The invariant (`TInv`) has three parts.

- `HInv`, of the layout: the bases of a class are declared before it, its entries lie apart
  inside it, its virtual bases apart behind it, and `vbases` has exactly those that
  its bases name or have.
- `StoresInv`: a turn of the loop stores to exactly the pointers to its base, each once.
  `PointersToAre` says that the walk comes upon these and no others, and
  `PointersApart` that the pointers of one object to two bases are different: the parts of
  an object that are reached without a virtual base in between lie in one region
  (`PartsInRegions`), regions lie apart, and inside one a place holds one pointer
  (`FlatPointers`). So skipping what is known never skips another base's pointer.
- `LoopInv`: `known` is what the loop has stored to, and nothing else, which is what
  emptying the list at the beginning is for.

A path then leads to its base by induction on the class of the part it starts
from (`PathsLead`): its first load gives the base that the rest of it is a path of
(`LoadVirtual`), or its first offset is one further in (`LoadFlat`). That it is a
shortest one is an induction of the same form (`ClassShortest`).

## 8. Constructors

**Code.** `CABI_TransConstructor` adds to the statements of a constructor: the
allocation of a handle object, the pointers to virtual bases and the virtual
bases under the test of the flag for a complete object, the other bases, the
virtual table pointers, the members. The four `CABI_MakeDefault...` make a whole
function, in the middle of whatever the compiler is at: they save and set the
scope, the stack of template instances and `copts.filesyminfo`, and put them
back.

**State.** The class (`cls`) and the function (`func`), the part of the
translation that is under way (`phase`, `i`), the statements and where the next
goes (`code`, `at`), the locals `vbase` and `expr`, what the exception code was
told (`cleanup`), the compiler's globals (`compiler`), what was saved of them
(`saved`), and what the rest of the compiler has them at (`outer`). **Actions.** One
for each loop of the function and turn of it; `Generate`, which ends all; `Elsewhere`,
the rest of the compiler between two calls.

The locals `vbase` and `expr` are used where an earlier loop left them NULL or
nothing has set them. Every value that can be there is a behaviour, a failed
assertion or an access violation is `Stop`. In a handle class `expr` is the
`this = new(...)` of the prologue: a class without virtual bases inserts it again
before each of its bases (unless it is copied), behind the test of the first
allocation.

**Run.** `constructors`: all classes of up to three bases and members. Two parts
have an order, and the third is what makes a base that is virtual and one that
is not go with a member. The statements are then executed (`Run`) for each way
to call the constructor: with an object or without, complete or not,
allocation failing or not. `InsideOut` (pointers, bases, virtual tables,
members, body, in this order on each path); `EveryPathReturns` (jumps go to the one
place of their label, a handle that cannot be allocated at first is left alone, every
path returns `this`, and a handle that has its storage is allocated again as often as
`Untested` says: once for each base that is not virtual, in a handle class without virtual
bases whose constructor does not copy, and never elsewhere); `CompleteObjectMakesVBases`; `CleanupInOrder`;
`CompilerRestored`, over any sequence of generations and whatever the rest of the
compiler did between them. `CHECK_DEADLOCK FALSE`, since `Stop` ends the program.

**Proved** (`ConstructorsProofs`), for any kinds of base and member and classes
of any size: all five properties.

- `CompilerIsRestored` (`CompilerRestored`). The invariant says where the
  compiler's globals are while a function is generated: in `saved` if the function
  is the compiler's own, in `compiler` if it is the user's. Each step is first
  shown to be one that only reports an error (`Works`), so that what it does to
  the statements need not be looked at.
- `SInvHolds` is the invariant of the statements, and what the other four rest
  on. None of them is inductive: nothing in the translation looks back at
  what it has inserted, it only moves `at`. `SInv` says what the list is at each turn
  of each loop, zone by zone: the head (begin of the chain, allocation of the handle
  and its jump), the virtual bases between the jump and its label, the other bases,
  virtual tables with members or copies, and the end. It says which of these are
  still to come, that the next statement goes to the end of the last one, and
  what `vbase` and `expr` can hold there.
- `CleanupIsInOrder` (`CleanupInOrder`): what the exceptions were told follows the zones.
- `PartsFromTheInside` (`InsideOut`), `EveryPathDoesReturn` (`EveryPathReturns`),
  `CompleteObjectDoes` (`CompleteObjectMakesVBases`) are about running the list.
  Jumps go forward, so `Run` is a recursion over what is left of the list and exists (by
  `Recursion`). A run is then a sequence of statements at growing positions; the
  rank of a statement (pointer, base, virtual table, member) does not fall as the
  positions grow, and how often a part is constructed, or a handle allocated, is the
  number of its positions.
  `EveryPathReturns` also speaks of a translation that `Stop` ended, for which `SInv`
  no longer knows the zones: `WithinAtEnd` keeps the positions that were registered
  inside the list.

The functions it calls that are not in the repository (construction of one
part, the copy of the members, virtual table pointers, the destructor) are one
statement or one answer each.

## 9. OSFile and AbstractFile

**Code.** `OS_Write` looks up the position and the size, and if the position is
past the end it seeks to the end and writes zeros, at most 32 bytes a call,
until the gap is filled, and then the bytes. Every call may fail or write less
than it was asked to, and the process may die between two calls. Distances are
signed 32-bit, positions unsigned, and 0xFFFFFFFF is a position as well as the
error value of `SetFilePointer`. `OS_Tell` and `OS_GetSize` hand an error of the
system on as a position of -1 and a size of 0xFFFFFFFF; a close that fails leaves the
handle open, and so does the seek of a file opened to append, with nobody who has the
handle (`"leaked"`).

**State.** `exists`, `data`, `handle`, `pos`: the file and the handle; `reply`:
what the last operation answered; `call`: the locals of `OS_Write`. A byte
remembers where it came from: the program, the zeros of `file_buffer`, the
extension by `SetEndOfFile`, or nowhere (`"undefined"`: what lies before a
write beyond the end). **Actions.** One per operation; `OS_Write` is a start,
`FillGap` for each chunk, and `PutBytes`. `Crash` is enabled in every state.

**Specification.** `AbstractFile` has operations that take effect at once. A
write puts zeros up to the position and then a prefix of the bytes. `OSFile`
implements it (`Implements`) under the mapping by which, until a write returns,
the file is what it was when `OS_Write` was called.

**Run.** `os_file`: words of three bits, so that there are positions on both
sides of the sign (4) and the sentinel (7); chunks of two bytes and a file of
up to five, so that a gap takes up to three chunks, the last one short. Fairness:
`WF(Step)`, that is no system call blocks for ever; with it `WriteReturns`.

**Proved** (`OSFileProofs`), for every word size, chunk size, disk size and
set of buffers: `TypeCorrect`, `NoUndefinedByteHolds`, and
`OperationsImplementPromise`: `Spec => Implements`. The inductive invariant is
that while a gap is filled the position is at the end of the file, which is
where `fileSize` says, and not past the target; that what has been added so far
is zeros; and that through a handle that cannot write nothing has been added.
The last two are what makes the half-filled gap of a failure or a crash one of
the outcomes `AbstractFile` allows.

**Only checked**: `WriteReturns`.

## 10. OSServices: OSDir and OSExecute

The two services of `MsDos.c` that are a sequence of calls of the system.
Nothing passes between them, so a behaviour of `OSServices` uses one or the other.

**OSDir.** `OS_ReadDir` answers the entry that is in the buffer and has the
system put the next one in; at the end it closes the search, in the middle of
the read. Entries that are `.` or `..`, or too long, are passed over by going
round the loop. State: `dir`, `data`: the fields of the opened directory;
`rest`: what the system has not listed; `reading`, `answer`: the read under way
and its result; `failures`: how often `FindClose` has failed. `AbstractDir` says
what is promised: what remains is answered from the front, then `Nothing` for good.
If the system refuses to end the search, the code answers the last entry once
more, and so does `AbstractDir`, but only in a step that counts a failure. `failures` is
mapped to itself, so that an entry given twice without a failure is no step of it.
`remaining` is mapped to the readable entries among the buffer and the rest.

**OSExecute.** Where `OS_Execute` is, its argument vector (`argv`, and in `args` what
is left of it), the size of the command line (`room`), the index at which it is
written (`i`) and how far it has been (`top`), the process's standard handles (`std`)
and the locals they are saved in. One action per argument, one for each redirection,
the check of the path, creating the process, waiting. Every call may fail. The
loop that copies an argument with a quote and no space looks at the same character in every
round and writes on: each round is a step (`BuildQuote`), which goes on until what is
written is no memory of the process any more. How many bytes behind the
allocation that is nothing in the code says; it is the constant `Slack`.

**Run.** `os_services`: all directories of up to four entries out of a file, a
directory, one passed over for its name and one for its length, so that an
entry passed over is first, last, repeated and next to each of the others;
`FindClose` fails at most twice (`CloseFailures`). Two or three executions after
one another (`MaxFiles` handles), with none to two arguments of length 0, 1 or 3, plain,
with a space, with a quote first or further on; `Slack` is two bytes.
`HandlesKept`: the types of both, the child has the files it was to have, and the
standard handles are what they were, whatever failed. The code also returns, with the
streams redirected, when `OS_SpecToString` answers NULL; it never does with a buffer
(section 11), so that return is no step of the model. `CommandLineFits`: every byte
is written into `room`, for all vectors but two kinds, and for these it is not: with no
argument the null character is written into nothing, and an argument with a
quote and no space is written on until the process ends. Two arguments are enough,
since the room is a sum over arguments. `Implements`: `OSDir` implements
`AbstractDir`. `CallsReturn` (each call returns, or the process ends behind a
command line that was overrun) needs weak fairness of the steps of `OS_Execute` (the
program goes on, and a child it waits for ends) and of the rounds of the loop of
`OS_ReadDir` (the loop goes on; the bound on failures stands for a system that does
not refuse to close for ever). `CHECK_DEADLOCK FALSE` since that end of the process is an
end, and since the bound on files ends the run. `FindNextFile` failing before the end is
the same as its end to this code.

**Proved** (`OSServicesProofs`), for directories of any length, any argument
vectors, the empty one included, and any number of executions. `DirectoriesRead`:
reading implements `AbstractDir` (`Implements`): each entry once, in order, then the end,
and the last one again only as often as `FindClose` fails. The mapped `remaining` is a
recursive function of the buffer and what the system has not listed; what each step
needs of it is its equation, and that it only holds names and kinds. `HandlesAreKept`
(`HandlesKept`) and, for `OSExecute` alone, `RedirectionsHold` (`RedirectionsEnd`): the
invariant says how far the redirection has got at each point of the code, and that what
was saved is the console: each call ends with it, whatever failed, which is why the
next one saves it again. `CommandLineHasRoom` (`CommandLineFits`): the invariant is
that what is written so far and what the arguments left to write can take is at most
what was summed up for all of them, with a byte over if there is one, by induction over
the arguments; and that what is left of the vector is its end, so that the loop that
does not advance is at an argument of the call.

**Only checked**: `CallsReturn`, a liveness property.

## 11. OSSpec

**Code.** `OS_Create`, `OS_Delete`, `OS_Mkdir`, `OS_Rmdir`, `OS_Rename`,
`OS_Status`, `OS_IsDir` and `OS_IsFile` put a path and a name together in the
one static `spec_buffer` by `OS_SpecToString`. **State.** `fs`: what there is
under each name; `spec_buffer`; `infront`: the byte of memory in front of it; `asked`: the
last call with its names as the caller gave them. Strings are sequences of characters here, since the question
is where they are cut. `OS_CreateNamed` and `OS_DeleteNamed` are `OS_Create` and
`OS_Delete`; `OSFile` has those names for what they do to the contents. The system
takes a name with separators at its end for the name without them (`Cut`);
`OS_IsDir` and `OS_IsFile` take one off themselves (`Stripped`). They look at the
character before the final zero, which for an empty string is `infront`, and
if that is a separator by chance, they overwrite it.

**Runs.** `os_spec`: a buffer of four with names that fit, fill and exceed it,
a path that alone exceeds it, and the conversions with a buffer of the caller's.
`BuffersFilled` (no conversion writes past its buffer, and one that is asked for
more than it holds fills it), `KindsAreRight` (which the
stripping of a final separator must not disturb; of a name that ends in two
the code takes only one, and nothing is claimed), and the action property
`OnlyNamedFiles`: an operation whose names fit changes nothing but what they
name, and nothing in front of the buffer unless the name is empty. `os_spec_long` is a finding: a spec that does not fit is not refused but
cut, and the operation is done to another file. `OS_SpecToString` with a buffer
never answers NULL, so the test of its callers never succeeds.

**Proved** (`OSFileProofs`), for all paths and names of specs, sizes of buffers
and limits: `BuffersAreFilled` (`NamedSpec => []BuffersFilled`), `KindsAreAnswered`
(`KindsAreRight`) and `OnlyTheNamedChange` (`OnlyNamedFiles`). They rest on one fact
about the conversions: however a spec is split into a path and a name, what
`OS_SpecToString` leaves of it is what its first `size - 1` characters are (`Fill`).
So a name that fits arrives whole, each operation asks the system for
the file that was named, and the separators at its end change neither which
file that is nor what is answered about it. A string that is not empty has the
character that is stripped inside the buffer.

## 12. OSPath

**Code.** `OS_CanonPath` with the two variables of the environment that
translate names of Cygwin, `OS_IsFullPath`, `OS_GetDirPtr`, `OS_GetCWD`, and the
making of specs: `OS_MakeSpec`, `OS_MakePathSpec`, `OS_MakeNameSpec`.
`OS_MakeSpecEx` and `FUN_004107d0` are stubs in the repository, and are modelled
with the bodies they have: a spec that is made is empty. **State.** The
environment, `path`: the string in the caller's buffer, `extent`: how many
characters of each buffer the last call wrote (of the canonical form, of a joined
path, of a spec, of a name), `request`: the call, its answer and what it read of
memory that nothing had set. The result of `OS_CanonPath` has a buffer of its own, as it
has in `OS_MakeSpecEx`; the form that works in place, with no buffer given, nothing calls.

What no code has set is a choice. For each slash the code advances twice in the
result, so that one byte of what was there before stays in it: `Stale` is that byte, a
character or the zero that ends the string. `Memory` is what lies, up to a zero,
behind a path that is the prefix alone, where the search for a drive goes on, and in
a spec that was never made (`"unmade"`), which `OS_MakePathSpecEx` copies.

**Run.** `os_path`: all short paths over a drive letter in both cases, a digit, the two
separators and a colon, under every setting of the two variables (of the prefix: none, an
empty one, `/c`), with seven pieces of memory, of which one alone is longer than a
buffer, and paths, volumes and names that just fit and just exceed the buffers (8 characters
for 260, 10 for 324; a name in 4 for 64 bytes, of which 6 for 255 are let through;
what matters is the distance to the limit). `PathTypeOK`: how far each buffer is written,
exactly. Joining stays in its buffer. `OS_CanonPath` exceeds its own by as
many bytes as there are slashes, which its test of the length does not count, by all it
reads behind the path, and by one under an empty prefix; a copied spec is as long as
what lay in memory; and a name of 64 to 255 characters does not fit. Nothing else
exceeds a buffer. `CanonicalPaths` is about every answer of `OS_CanonPath` that is no error:

- `AbsoluteKept`: what is absolute or under the prefix becomes absolute, exactly
  unless its drive is no letter, and what is absolute is full under every environment.
- `SureUpToSlash`: whatever the buffer held, the result begins with the drive and the rest of the path up
  to its first slash, or with the root for two slashes, and is that if there is no slash or the root is taken.
- `CaseIsIgnored`: paths that differ in case have forms that do, over the same buffer.
- `FormIsKept`: a drive is in capitals, unless it is the root's, and the canonical form of a
  canonical form is the same up to case, if the buffer showed no slash and the form is not itself under the prefix.

**Proved** (`OSFileProofs`), for all paths, volumes, directories, memory and settings of the
two variables, the empty ones included, over the model's characters: `PathsStayInBuffers`
(`PathSpec => []PathTypeOK`) and `PathsAreCanonical` (`PathSpec => []CanonicalPaths`).
The one assumption about sizes is that a buffer holds more than the three characters of a
drive. The invariant (`PathsInv`) says that the variables keep
their values, the types and lengths, and that an answer of `OS_CanonPath` is the canonical form of the
path it was asked about, with some stale byte and some memory; the rest is about
the function `Canon`. Its length is that of the path and its slashes, since the
places where the characters of a path come to lie, each moved by the
slashes before it, and the places passed over are all there are; up to the first slash
nothing has moved, which gives `SureUpToSlash` and, for a path that is absolute, its
drive or server at the front. Two paths that
differ only in case have their slashes in the same places and the same drive, and
so differ in case only in every byte of the result.

## 13. OSResources

**Code.** What the program asks of the system and has to give back: the
memory behind an `OSHandle`, the files that are opened for one operation (to read
or set a time, to read a link), mappings, mutexes; references of 16 bits; and
`OS_InitProgram`, which takes the option out of the arguments that decides how
links are read. **State.** `heap` and `hand`: blocks and the structures that
name them; `open`, `held`, `map`: handles that are open and whose they are; `task`: the
operation under way that has a file open for itself; `argc`, `argv`; `reply`: the
last call, the call of the system that failed in it, and its answer. **Actions.** One
per function; an operation that opens a file for itself is three, to open it (`Opens`), to
use it (`GetTime`, `SetTime`, `ReadCygwinSoftlinkSpec`) and to close it (`Finish`). Each call
of the system may fail, also those that give something back: `GlobalFree`,
`CloseHandle`, the unmapping of a view. Of a file that is asked about as a
link, the model has what the tests look at.

**Run.** `os_resources`: two blocks and two structures (so that a block can
move, or find no room), four handles at both ends of a range of 16-bit numbers
that is eight wide, of which three are open at once (a file that is held, a mapping of it,
and one that an operation opens), files on both sides of each test on links, six argument
vectors. Memory and handles of files share nothing in the code, and one of the two is at
rest in each state of the run (`AtRest`). `ResourcesOwned`: what is allocated or open
is somebody's. A valid structure names a block of its size that no other names, and a
block gets lost only if it cannot be resized (`BlocksLostOnlyByResize`). Nobody
has a handle that is closed and no two have the same, and a handle gets lost only by one of
two failures: that of the seek of a file opened to append, whose caller gets an error and no
handle, and that of `CloseHandle` at the end of an operation that opened a file for itself
(`HandlesLostOnlyByTwo`). `RefsDistinct`. `LinksResolve`: what
`OS_IsLink` takes for a link `OS_ResolveLink` resolves. The converse does not hold, see
section 15. `ArgumentsKept`: the option is noticed exactly if it is the first argument, and
it is taken away and nothing else. `CHECK_DEADLOCK FALSE`: a failed assertion
stops the program.

**Proved** (`OSResourcesProofs`), for any number of structures, blocks and
handles of the system and every even width of a reference, without the run's `AtRest`:
`EverythingIsOwned` (`Spec => ResourcesOwned`), `ReferencesAreDistinct`,
`ArgumentsAreKept` and `LinksDoResolve`. Ownership of memory and
of handles are inductive each for itself, since no operation touches both; what
makes them so is that a structure that is not valid holds NULL, that the handle 0 is
none, that a mapping is not among the files a caller holds, and that an operation has a
file of its own, which nothing else closes before it does. The references
rest on two facts about remainders: that of a small number, and that of a
negative one. For links the invariant is that an answer to `OS_IsLink` remembers
what the tests said of that file, which no later step changes: the option that
decides how links are read is set before the first of them. For the arguments it is
that a vector not yet read is as `main` was given it: taking the option out then
moves what is behind it, NULL included, down by one.

## 14. Slicing: SliceFile and SliceObject

**SliceFile.** `load_slice_file` keeps the position reached in each section and
puts a filler slice before a configured one when there is a gap. One action
loads one slice; `Fail` is the `KeyError` for an unknown or empty section.

**SliceObject.** From a symbol file, the symbols of the debug directory, a
program and a list of slices: `FormatSymbols`, then for each section of each
slice `BeginSection` and `Insn` for each instruction, then `WriteSlice`
(`COFF.write`, with each header pointing at what was written), and at last
`Link`, the linker, which is external and reads the object files through their
headers.

**Slicing** composes them: the list that is cut is the one that was loaded
(`LoadedSlices`, the ranges of each slice in the order of the sections).
`slice_exe.py` tells a filler by its name, the composition by the source that
stands for it. What is cut is a configuration in order (`CanLink`) of which no
slice is compiled instead. `SlicingAssumption` ties the two modules together: the
sections of the meta data are the program's, and do not overlap.

**Run.** `slicing` takes every configuration of up to two slices over a section of
three bytes, two of one byte and an empty one, with every range, in order or not:
the least in which a filler has ranges in two sections and comes before, between
and after. `Chained` holds in whatever order the slices come; `SlicesPartition`
from a configuration in order; `FillersFillGaps`. Six of the lists that come out of a configuration in order (`SliceLists`: one slice,
one filler, two slices, a slice with an empty range, which is not disassembled, a
slice and fillers at both of its sides) go on, with 12
symbol tables, 169 programs (each pair of instructions out of calls and jumps
forward and backward, operands below, at, above and far above a symbol, two
operands, bytes that are no instruction) and three choices of added
relocations. `LinkedIsOriginal`: what is linked is the original program, and it
links if all symbols have different names. `ObjectFilesWhole`: nothing in a file
is overwritten and the counts are right. Every way to end is an explicit step
(`Done`), so deadlock is checked. The slices are linked at the addresses they
were cut from; a compiled slice that matches is taken to be the slice cut out.

**Proved** (`SliceFileProofs`), for any sections and any number of slices, of the
specification of `SliceFile`: `TypeCorrect`, `ChainedHolds`, `SlicesPartitionHolds`,
`FillersFillGapsHolds`. They hold of the whole, since each of its steps is one of
`SliceFile` or leaves the list alone (`SlicingLoads`). The invariant is the
chain up to the position reached, for each section; partition follows from it
because a slice that comes in order begins at or after the position reached, so
the addresses below it stay covered as they were. Chain and cover are stated
about any sequence of slices, so that the lemmas about appending a slice serve for
the configured ones and for the fillers. That fillers are numbered without a gap and
never stand together is about the order of the list, and has an invariant of its own
(`FillersInv`).

Of the whole, for any program, symbols, added relocations and addresses:

- `LoadedListsPartition`: from a configuration in order, `LoadedSlices` partitions
  the program. The ranges lie in their sections (`InsideInv`), those of one section
  cover it (`SlicesPartition`), and `Kept` has each section once. Cutting takes
  this from loading, it is no assumption.
- `ObjectFilesAreWhole`: the positions that `COFF.write` sums up are disjoint and
  leave no word out. `FileWhole` and `FileReads` say for any `coff_file` what is
  found where a header points.
- `LinkGivesBackTheProgram`: the invariant, `CutInv`, says what the object file in
  the making stands for: each word is the program's, but for operands that one
  relocation each replaces, whose symbol and addend have the operand's value; each
  address with a name inside a range has one defining symbol, and no other symbol
  defines anything. It is kept through `BeginSection`, `Insn` and `Junk`, goes
  into `objects` with `WriteSlice`, and survives the way through the file
  (`IsWritten`, `AllWritten`). At `Link`, if the names are resolved, a name has the
  address that its relocation meant (`AddressFound`), so `LinkedWord` is the
  original (`LinkedWordRight`); if they are not, two addresses share a name
  (`NotResolved`).

What is assumed (`SliceObjectAssumption`): the sections do not overlap and no
program lies at address 0; a symbol lies in a section; a call has an operand;
the name of a section is no symbol's; and an added relocation says what the
operand is, since the code puts it in place of the operand without looking.

## 15. Observations

Behaviour that a model follows and no property forbids.

Files and directories:

- `OS_Write`, `OS_SetSize` and `OS_Seek` at position 0xFFFFFFFF answer success
  and do nothing; `OS_Tell` above 2 GB answers a negative number, and a size or
  a target above 2 GB is a negative distance, so such seeks fail.
- `OS_Open` for appending leaves its handle open when the seek to the end fails; so do
  the operations that open a file for themselves (times, links) when `CloseHandle` fails.
- `OS_UnMapFile` gives up the view before the mapping; if the mapping cannot be closed, a
  second try fails for want of the view.
- `OS_ReadDir` answers the last entry again for as long as `FindClose` fails.
- `OS_OpenDir` leaves its buffer allocated when nothing is found.
- `OS_Execute`: the loop that copies an argument with a quote and no space does not
  advance in the argument, and writes behind the command line until the process ends. With no
  arguments the null character is written into an allocation of no bytes. The space after an
  argument is overwritten by the next argument, and the handles opened for
  redirection are never closed.
- `OS_IsDir` and `OS_IsFile` of an empty name look at the byte in front of `spec_buffer`, and
  overwrite it if it is a separator.

Paths and links:

- `OS_IsFullPath` compares with the prefix over a length of 0, by a misplaced
  parenthesis: without a prefix in the environment every path is full, and with an empty
  one every path but the empty one.
- `OS_CanonPath` advances twice in its result when it replaces a slash by a
  separator: the byte between is what the buffer held before, and the result is longer
  than the length that was tested. A zero there ends the path at its first slash.
- `OS_CanonPath` copies the zero that ends the Cygwin root, so the result is the
  root alone; `&&` binds before `||` in its test for a drive, so any
  character before a separator is taken for one; it looks behind the end of a
  path that is the prefix alone, and if a separator follows there, copies what is behind
  that until there is a zero. Under an empty prefix a drive's three characters can take the
  place of two, and the result one more than the buffer.
- `OS_MakeNameSpec` allows 255 characters where an `OSNameSpec` has 64 bytes.
- `OS_MakePathSpecEx` counts links in a variable that nothing sets; if that is at its limit
  already, it copies a spec that was never made, and its lenient form answers success.
- `OS_ResolveLink` copies 0x204 bytes from a spec, which has 324.
- A `.lnk` file that is no shortcut is read as a link of Cygwin by
  `OS_ResolveLink` and not by `OS_IsLink`.

Resources:

- A resize that fails forgets the block. A view that fails leaves a mapping open
  that `OS_UnMapFile` cannot close.
- `OS_GetFileTime` hands on a time that was not delivered.
- `OS_CreateMutex` initialises the mutex before it tests for NULL.
- `OS_MacToRef(OS_RefToMac(h))` is `h` only modulo 2^16.
- `OS_TimeToMac` adds a variable that nothing sets; a date in 2000 is a day short,
  since the century is counted as skipped a year before it is counted as leap.
- `OS_GetErrText` answers the text of an earlier error when there is none for
  this one.

Names:

- `->` is called `operator*` in messages, and `<?` and `>?` have no entry in the
  table by which they are decoded.
- The codes of `IT_23` to `IT_30` are single digits, which may also begin the length
  of a name. Types without a name share one. Beyond the limit the outermost
  namespaces are dropped.
- A parameter that points to a member keeps its own qualifiers and loses those of
  what it points to.

Classes:

- A class without a primary base counts slots for its functions and assigns none.
- The loop over the bases that are not virtual uses `vbase` and `expr` of
  earlier loops: in a class with both kinds a base that is not virtual inserts the
  last virtual base's construction again, outside the test of the flag; in a copy constructor it
  follows a NULL pointer. Initialisers of members are looked up by the same variable and
  never found.
- In a handle class without virtual bases that variable `expr` holds the allocation
  of the prologue: each base that is not virtual is not constructed, but the handle is
  allocated again. The storage it had is lost, and nothing tests what it gets: if that is
  null, the virtual table and the members are stored through it.
- `CABI_MakeDefaultAssignmentOperator` has the two kinds of base the wrong way
  round, and a base that is not virtual fails its assertion.
- An array member with a destructor and no constructor is not registered for cleanup.

Slices:

- `load_slice_file` does not compare a slice with the one before it. Slices out
  of order are loaded and yield a filler whose end is before its beginning, though
  `configure.py` (line 216) describes the call as ensuring the slice order.
- `add_relocation` compares symbols by identity, so each relocation appends a
  symbol of its own to the table.
- `COFFSymbol.from_coff_file` reads the offset of a long name as absolute, while
  `COFF.write` counts it from the string table; nothing here reads what is written.
- `format_symbols` looks for a name that is defined twice among pairs of an
  address and a name, so it never warns; it re-sorts the file it reads, so the next run may
  take the other address.

## 16. Not modelled

Each component left out, or in part, is in `PROJECT.json` with the reason. In
short: guard variables, bit fields and the search for the offset of a
constructor's table are straight-line construction of expressions, or serve
functions that the repository only declares. `OS_MakeSpecEx` and
`FUN_004107d0` are stubs, so no spec is ever filled; `OS_TimeToMac` has no
defined answer. The readers of executables and of debug information decode a
fixed format once. `configure.py` writes its files in one pass, but for the
object files that it makes of the slices, which `SliceFile` has. The headers
are declarations; the modules take what they need from them.

What cannot be proved here and is checked on small instances: liveness
(`WriteReturns`, `CallsReturn`, `EveryCallReturns` and the others). `TypeNames`
(`TablesAgree`, `NamesTellApart`, `TypesArePrefixFree`) spells types with operators that are
RECURSIVE over trees and puts strings together, and the provers take neither. What is only
checked for want of a proof is that different objects have different names
(`NamesDistinct`, half of `NamesRight`), as section 4 explains.
