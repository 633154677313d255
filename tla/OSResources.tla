---------------------------- MODULE OSResources ----------------------------
(***************************************************************************)
(* What source/OS/MsDos.c asks of the system and has to give back: memory  *)
(* behind an OSHandle, the files opened to read or set a time or to read a *)
(* link, mappings of files, mutexes; and the start of the program, which   *)
(* decides how links are read.  Any call of the system may fail.  To open  *)
(* a file, to use it and to close it are steps of their own.               *)
(***************************************************************************)
EXTENDS Integers, Sequences, FiniteSets

CONSTANTS
    Hand,       \* the OSHandle variables of the program
    Block,      \* blocks of memory the system can give
    Sizes,      \* bound: sizes that are asked for
    Handle,     \* handles the system can give, numbers
    MaxOpen,    \* bound: how many handles are open at once
    Word16,     \* how many values a SInt16 has (2^16)
    LinkFile,   \* bound: the files that are asked about as links
    Argv,       \* bound: the argument vectors, NULL not included
    MaxPath     \* MAX_PATH

NULL == "NULL"
Null == 0       \* no block, no handle
Option == "--old-cygwin-softlinks"

ASSUME ResourcesAssumption ==
    /\ Block \subseteq Nat \ {0} /\ Sizes \subseteq Nat \ {0}
    /\ Handle \subseteq Nat \ {0} /\ MaxOpen \in Nat
    /\ Word16 \in Nat \ {0} /\ Word16 % 2 = 0 /\ MaxPath \in Nat
    /\ \A argv \in Argv : argv \in Seq(STRING)

VARIABLES
    phase,      \* "new", "started", "running", or "stopped" by a failed assertion
    argc, argv, \* what main was given; argv[argc + 1] is NULL
    given,      \* not in the program: argv as it was at first
    old_cygwin_softlinks,
    heap,       \* the size of each block, 0 if it is not allocated
    hand,       \* the program's OSHandles
    open,       \* handles of the system that are open
    held,       \* those of files that callers have open
    map,        \* the handle of a mapping, and whether there is a view of it
    task,       \* the operation under way that has a file open for itself
    reply       \* the last call: its argument, what failed in it, its answer

start == <<argc, argv, given, old_cygwin_softlinks>>
memory == <<heap, hand>>
objects == <<open, held, map, task>>
vars == <<phase, start, memory, objects, reply>>

OSHandle == [addr : Block \cup {Null}, used : Sizes \cup {0}]
NoHandle == [addr |-> Null, used |-> 0]

NoView == [ref |-> Null, view |-> FALSE]
Task(op, arg, ref, used, failed, value) ==
    [op |-> op, arg |-> arg, ref |-> ref, used |-> used, failed |-> failed, value |-> value]
NoTask == Task("none", Null, Null, FALSE, "none", 0)

\* failed: the call of the system that failed, or "none".
Reply(op, arg, failed, value) ==
    reply' = [op |-> op, arg |-> arg, failed |-> failed, value |-> value]
Returned == phase = "running" /\ task = NoTask
Running == Returned /\ UNCHANGED <<phase, start>>

-----------------------------------------------------------------------------
(***************************************************************************)
(* OS_InitProgram takes its option out of the vector, which moves down by  *)
(* one, with the NULL at its end.                                          *)
(***************************************************************************)
Bug_MovedDown(v, n) == [k \in DOMAIN v |-> IF k \in 2..n - 1 THEN v[k + 1] ELSE v[k]]

MovedDown(v, n) == [k \in DOMAIN v |-> IF k \in 2..n THEN v[k + 1] ELSE v[k]]

OS_InitProgram ==
    /\ phase = "new" /\ phase' = "started"
    /\ old_cygwin_softlinks' = (argc > 1 /\ argv[2] = Option)
    /\ IF old_cygwin_softlinks'
       THEN argv' = MovedDown(argv, argc) /\ argc' = argc - 1
       ELSE UNCHANGED <<argv, argc>>
    /\ UNCHANGED <<given, memory, objects, reply>>

\* What main does with the rest is not in the repository.
MainReads ==
    /\ phase = "started" /\ phase' = "running"
    /\ argc' = 0 /\ argv' = <<NULL>> /\ given' = <<>>
    /\ UNCHANGED <<old_cygwin_softlinks, memory, objects, reply>>

-----------------------------------------------------------------------------
(***************************************************************************)
(* Memory.  A block that GlobalReAlloc cannot resize stays allocated.      *)
(***************************************************************************)
OS_ValidHandle(h) == hand[h].addr # Null

OS_NewHandle(h, size) ==
    /\ ~OS_ValidHandle(h)
    /\ \/ /\ hand' = [hand EXCEPT ![h] = [addr |-> Null, used |-> size]]
          /\ Reply("new", h, "GlobalAlloc", 0) /\ UNCHANGED heap
       \/ \E b \in Block :
            /\ heap[b] = 0
            /\ hand' = [hand EXCEPT ![h] = [addr |-> b, used |-> size]]
            /\ heap' = [heap EXCEPT ![b] = size]
            /\ Reply("new", h, "none", 0)
    /\ UNCHANGED objects

\* GlobalReAlloc moves the block or leaves it where it is.
Bug_OS_ResizeHandle(h, size) ==
    /\ \/ /\ hand' = [hand EXCEPT ![h] = NoHandle]
          /\ Reply("resize", h, "GlobalReAlloc", 0) /\ UNCHANGED heap
       \/ \E b \in Block :
            /\ OS_ValidHandle(h) /\ (heap[b] = 0 \/ b = hand[h].addr)
            /\ hand' = [hand EXCEPT ![h].used = size]
            /\ heap' = [heap EXCEPT ![hand[h].addr] = 0, ![b] = size]
            /\ Reply("resize", h, "none", 0)
    /\ UNCHANGED objects

OS_ResizeHandle(h, size) ==
    /\ \/ /\ hand' = [hand EXCEPT ![h] = NoHandle]
          /\ Reply("resize", h, "GlobalReAlloc", 0) /\ UNCHANGED heap
       \/ \E b \in Block :
            /\ OS_ValidHandle(h) /\ (heap[b] = 0 \/ b = hand[h].addr)
            /\ hand' = [hand EXCEPT ![h] = [addr |-> b, used |-> size]]
            /\ heap' = [heap EXCEPT ![hand[h].addr] = 0, ![b] = size]
            /\ Reply("resize", h, "none", 0)
    /\ UNCHANGED objects

\* GlobalFlags knows the blocks that are allocated, and no other.
Allocated(b) == b # Null /\ heap[b] # 0

OS_LockHandle(h) ==
    /\ Reply("lock", h, "none", IF Allocated(hand[h].addr) THEN hand[h].addr ELSE Null)
    /\ UNCHANGED <<memory, objects>>

OS_GetHandleSize(h) ==
    /\ IF Allocated(hand[h].addr) THEN Reply("size", h, "none", hand[h].used)
       ELSE Reply("size", h, "GlobalFlags", 0)
    /\ UNCHANGED <<memory, objects>>

\* Freeing NULL does nothing and succeeds.
OS_FreeHandle(h) ==
    /\ \/ /\ OS_ValidHandle(h)
          /\ Reply("free", h, "GlobalFree", 0) /\ UNCHANGED memory
       \/ /\ heap' = [b \in Block |-> IF b = hand[h].addr THEN 0 ELSE heap[b]]
          /\ hand' = [hand EXCEPT ![h] = NoHandle]
          /\ Reply("free", h, "none", 0)
    /\ UNCHANGED objects

\* The caller has a copy of the structure when it makes this one invalid.
OS_InvalidateHandle(h, copy) ==
    /\ ~OS_ValidHandle(copy) /\ copy # h
    /\ hand' = [hand EXCEPT ![h] = NoHandle, ![copy] = hand[h]]
    /\ Reply("invalidate", h, "none", 0) /\ UNCHANGED <<heap, objects>>

-----------------------------------------------------------------------------
(***************************************************************************)
(* Handles of files, and operations that open one for themselves.          *)
(***************************************************************************)
Spare == IF Cardinality(open) < MaxOpen THEN Handle \ open ELSE {}

\* OS_Open and OS_Close by the program; what they do to the file is in OSFile.
\* If the seek of an append fails, the caller has an error and the handle is open.
OS_Open(append) ==
    /\ \/ Reply("open", append, "CreateFile", 0) /\ UNCHANGED <<open, held>>
       \/ \E f \in Spare :
             /\ open' = open \cup {f}
             /\ \/ held' = held \cup {f} /\ Reply("open", append, "none", 0)
                \/ append /\ UNCHANGED held /\ Reply("open", append, "SetFilePointer", 0)
    /\ UNCHANGED <<memory, map, task>>

\* Also the way to be rid of a mapping of which there is no view.
OS_Close(f) ==
    /\ f \in held \/ (f = map.ref /\ ~map.view)
    /\ \/ /\ open' = open \ {f} /\ held' = held \ {f}
          /\ map' = (IF f = map.ref THEN NoView ELSE map)
          /\ Reply("close", f, "none", 0)
       \/ Reply("close", f, "CloseHandle", 0) /\ UNCHANGED <<open, held, map>>
    /\ UNCHANGED <<memory, task>>

\* A file is opened for one operation, not to append; `no' is answered if it cannot be.
Opens(op, arg, no) ==
    \/ Reply(op, arg, "CreateFile", no) /\ UNCHANGED <<open, task>>
    \/ /\ \E f \in Spare :
             open' = open \cup {f} /\ task' = Task(op, arg, f, FALSE, "none", no)
       /\ UNCHANGED reply

\* What is done with it, and which call of the system fails.
Uses(op, failed, value) ==
    /\ task.op = op /\ ~task.used
    /\ task' = Task(op, task.arg, task.ref, TRUE, failed, value)
    /\ UNCHANGED <<memory, open, held, map, reply>>

\* It is closed at the end of the operation, whatever failed before.
Finish ==
    /\ task.used /\ task' = NoTask
    /\ \/ open' = open \ {task.ref} /\ Reply(task.op, task.arg, task.failed, task.value)
       \/ UNCHANGED open /\ Reply(task.op, task.arg, "CloseHandle", task.value)
    /\ UNCHANGED <<memory, held, map>>

OS_GetFileTime == Opens("gettime", Null, 0) /\ UNCHANGED <<memory, held, map>>

Bug_GetTime ==
    \/ Uses("gettime", "none", 1)
    \/ /\ task.op = "gettime" /\ ~task.used /\ task' = NoTask
       /\ Reply("gettime", Null, "GetFileTime", 0) /\ UNCHANGED <<memory, open, held, map>>

\* What GetFileTime has not delivered is handed on nevertheless: value 2.
GetTime == Uses("gettime", "none", 1) \/ Uses("gettime", "GetFileTime", 2)

\* With a time that is not given the file keeps its own.
OS_SetFileTime == Opens("settime", Null, 0) /\ UNCHANGED <<memory, held, map>>

SetTime == \E failed \in {"none", "SetFileTime"} : Uses("settime", failed, 0)

\* Without a view the mapping stays open, and its handle with the caller.
OS_MapFile(readonly) ==
    /\ map.ref = Null /\ held # {}
    /\ \/ Reply("map", readonly, "CreateFileMapping", 0) /\ UNCHANGED <<open, map>>
       \/ \E f \in Spare, view \in BOOLEAN :
             /\ open' = open \cup {f} /\ map' = [ref |-> f, view |-> view]
             /\ Reply("map", readonly, IF view THEN "none" ELSE "MapViewOfFile", 0)
    /\ UNCHANGED <<memory, held, task>>

\* Without a view, UnmapViewOfFile fails.  If only CloseHandle does, the view is
\* gone and the handle is still open.
OS_UnMapFile ==
    /\ map.ref # Null
    /\ \/ Reply("unmap", Null, "UnmapViewOfFile", 0) /\ UNCHANGED <<open, map>>
       \/ /\ map.view
          /\ \/ map' = NoView /\ open' = open \ {map.ref} /\ Reply("unmap", Null, "none", 0)
             \/ /\ map' = [map EXCEPT !.view = FALSE] /\ UNCHANGED open
                /\ Reply("unmap", Null, "CloseHandle", 0)
    /\ UNCHANGED <<memory, held, task>>

Signed16(n) == IF n % Word16 < Word16 \div 2 THEN n % Word16 ELSE (n % Word16) - Word16

RefToMac(f) == Signed16(Signed16(f) + 1)

Bug_MacToRef(refnum) == IF refnum = 0 THEN -1 ELSE refnum

MacToRef(refnum) == IF refnum = 0 THEN -1 ELSE refnum - 1

\* The assertion on the size of a handle ends the program.
OS_RefToMac(f) ==
    /\ Returned /\ f \in held
    /\ IF f < Word16 - 1
       THEN Reply("reftomac", f, "none", RefToMac(f)) /\ UNCHANGED phase
       ELSE Reply("reftomac", f, "assert", 0) /\ phase' = "stopped"
    /\ UNCHANGED <<start, memory, objects>>

\* So does a mutex without memory, which is initialized before it is tested.
OS_CreateMutex ==
    /\ Returned
    /\ \/ phase' = "stopped" /\ Reply("mutex", Null, "malloc", 0)
       \/ UNCHANGED phase /\ Reply("mutex", Null, "none", 0)
    /\ UNCHANGED <<start, memory, objects>>

\* Each of the calls for the module and its resource may be the last.
OS_LoadMacResourceFork ==
    /\ \/ Reply("fork", Null, "none", 1)
       \/ \E call \in {"GetModuleHandle", "FindResource", "LoadResource", "LockResource"} :
             Reply("fork", Null, call, 0)
    /\ UNCHANGED <<memory, objects>>

-----------------------------------------------------------------------------
(***************************************************************************)
(* Links.  Of a file it matters whether its name ends in .lnk, how long    *)
(* the string of its spec is, whether LookupShortcut finds a link under    *)
(* that string and under the string with .lnk behind it, and whether the   *)
(* file itself begins with the magic of Cygwin and how long it is.         *)
(***************************************************************************)
Links == [lnk : BOOLEAN, len : Nat, shortcut : BOOLEAN, appended : BOOLEAN,
          magic : BOOLEAN, size : Nat]

ASSUME LinksAssumption == LinkFile \subseteq Links

\* A string that was cut to fit the buffer has lost its .lnk.
ReadShortcut(f) ==
    IF f.lnk /\ f.len \in 5..MaxPath - 1 THEN f.shortcut
    ELSE f.len + 4 < MaxPath /\ f.appended

MagicSize == 10  \* of "!<symlink>"

CygwinSoftlinkSpec(f) ==
    f.size >= MagicSize /\ f.magic /\ f.size - MagicSize < MaxPath - 1

\* The two that read a link of Cygwin, and what they answer for it.
Softlink(op) == IF op = "islink" THEN TRUE ELSE "target"
NoSoftlink(op) == IF op = "islink" THEN FALSE ELSE "unset"

OpenSoftlink(op, f) == Opens(op, f, NoSoftlink(op))

\* Where the file could not be opened, there is nothing that the call of OS_Close closes.
ReadCygwinSoftlinkSpec ==
    \E op \in {"islink", "resolve"} :
        \/ Uses(op, "none", IF CygwinSoftlinkSpec(task.arg) THEN Softlink(op) ELSE NoSoftlink(op))
        \/ \E call \in {"ReadFile", "GetFileSize"} : Uses(op, call, NoSoftlink(op))

IsShortcut(f) == f.lnk /\ ReadShortcut(f)

OS_IsLink(f) ==
    /\ IF ~f.lnk /\ old_cygwin_softlinks THEN OpenSoftlink("islink", f)
       ELSE Reply("islink", f, "none", IsShortcut(f)) /\ UNCHANGED <<open, task>>
    /\ UNCHANGED <<memory, held, map>>

Bug_OS_ResolveLink(f) ==
    /\ IF old_cygwin_softlinks THEN OpenSoftlink("resolve", f)
       ELSE /\ Reply("resolve", f, "none", IF IsShortcut(f) THEN "target" ELSE "itself")
            /\ UNCHANGED <<open, task>>
    /\ UNCHANGED <<memory, held, map>>

\* The answer is what becomes of *target; OS_MakeSpec makes a spec of what
\* the link holds.  A file that is no link is an error, and its own target.
OS_ResolveLink(f) ==
    /\ IF ~IsShortcut(f) /\ old_cygwin_softlinks THEN OpenSoftlink("resolve", f)
       ELSE /\ Reply("resolve", f, "none", IF IsShortcut(f) THEN "target" ELSE "itself")
            /\ UNCHANGED <<open, task>>
    /\ UNCHANGED <<memory, held, map>>

-----------------------------------------------------------------------------
Init ==
    /\ phase = "new" /\ old_cygwin_softlinks = FALSE
    /\ \E v \in Argv : argc = Len(v) /\ argv = Append(v, NULL) /\ given = v
    /\ heap = [b \in Block |-> 0] /\ hand = [h \in Hand |-> NoHandle]
    /\ open = {} /\ held = {} /\ map = NoView /\ task = NoTask
    /\ reply = [op |-> "none", arg |-> Null, failed |-> "none", value |-> 0]

Memory(h) ==
    \/ \E size \in Sizes : OS_NewHandle(h, size) \/ OS_ResizeHandle(h, size)
    \/ OS_LockHandle(h) \/ OS_GetHandleSize(h) \/ OS_FreeHandle(h)
    \/ \E copy \in Hand : OS_InvalidateHandle(h, copy)

Files ==
    \/ \E append \in BOOLEAN : OS_Open(append)
    \/ OS_GetFileTime \/ OS_SetFileTime \/ OS_UnMapFile \/ OS_LoadMacResourceFork
    \/ \E f \in Handle : OS_Close(f)
    \/ \E readonly \in BOOLEAN : OS_MapFile(readonly)

\* The rest of an operation that has opened a file for itself.
Continue == GetTime \/ SetTime \/ ReadCygwinSoftlinkSpec \/ Finish

Next ==
    \/ OS_InitProgram \/ MainReads
    \/ Running /\ \E h \in Hand : Memory(h)
    \/ Running /\ Files
    \/ Running /\ \E f \in LinkFile : OS_IsLink(f) \/ OS_ResolveLink(f)
    \/ Continue /\ UNCHANGED <<phase, start>>
    \/ \E f \in held : OS_RefToMac(f)
    \/ OS_CreateMutex

Spec == Init /\ [][Next]_vars

-----------------------------------------------------------------------------
\* Types; a reference given to the Macintosh side is 16 bits wide.
TypeOK ==
    /\ phase \in {"new", "started", "running", "stopped"}
    /\ argv \in Seq(STRING \cup {NULL}) /\ argc \in 0..Len(argv) - 1
    /\ heap \in [Block -> Sizes \cup {0}] /\ hand \in [Hand -> OSHandle]
    /\ open \subseteq Handle /\ held \subseteq open
    /\ map \in [ref : Handle \cup {Null}, view : BOOLEAN]
    /\ task.op \in {"none", "gettime", "settime", "islink", "resolve"}
    /\ task.ref \in Handle \cup {Null} /\ (task = NoTask <=> task.ref = Null)
    /\ reply.op = "reftomac" => reply.value \in -(Word16 \div 2)..Word16 \div 2 - 1

\* OS_InitProgram notices its option exactly if that is the first argument, takes
\* it away and nothing else, and the vector still ends with NULL.
ArgumentsKept ==
    phase = "started" =>
        /\ old_cygwin_softlinks <=> Len(given) > 1 /\ given[2] = Option
        /\ Append(SubSeq(argv, 1, argc), NULL) = SubSeq(argv, 1, argc + 1)
        /\ SubSeq(argv, 1, argc) =
               IF old_cygwin_softlinks THEN SubSeq(given, 1, 1) \o SubSeq(given, 3, Len(given))
               ELSE given

(***************************************************************************)
(* Across allocation, moving, failure and freeing, a valid OSHandle names  *)
(* a block that is allocated, with its size, and no other names the same;  *)
(* the size that is answered is that of the block.                         *)
(***************************************************************************)
HandsOwnTheirBlocks ==
    /\ \A h \in Hand : OS_ValidHandle(h) =>
          /\ hand[h].used > 0 /\ heap[hand[h].addr] = hand[h].used
          /\ \A g \in Hand \ {h} : hand[g].addr # hand[h].addr
    /\ reply.op = "size" =>
          reply.value = IF OS_ValidHandle(reply.arg) THEN heap[hand[reply.arg].addr] ELSE 0

\* A block that is allocated is named by an OSHandle until it is freed, but
\* for the one whose resizing fails: nobody can free it any more.
Named(b) == \E h \in Hand : hand[h].addr = b

BlocksLostOnlyByResize ==
    [][\A b \in Block :
          heap'[b] # 0 /\ ~Named(b)' /\ (heap[b] = 0 \/ Named(b)) =>
              reply'.op = "resize" /\ reply'.failed # "none"]_vars

\* The handles that somebody has and can close: the program, a mapping, the
\* operation under way.  Nobody has a handle that is closed, and no two the same.
Owned == held \cup ({map.ref, task.ref} \ {Null})

OwnersApart ==
    /\ Owned \subseteq open
    /\ {map.ref, task.ref} \cap held = {} /\ (map.ref = task.ref => map.ref = Null)

\* Whatever fails, what is open can still be closed, but for two failures: that of
\* the seek of an open, and that of CloseHandle at the end of an operation that has
\* opened a file for itself.
HandlesLostOnlyByTwo ==
    [][\A f \in open' \ Owned' :
          \/ f \in open \ Owned
          \/ f \notin open /\ reply'.op = "open" /\ reply'.failed = "SetFilePointer"
          \/ f = task.ref /\ reply'.op = task.op /\ reply'.failed = "CloseHandle"]_vars

(***************************************************************************)
(* A file that OS_IsLink takes for a link is one that OS_ResolveLink       *)
(* resolves next, if no call of the system fails.  The converse does not   *)
(* hold: only OS_ResolveLink reads a .lnk that is no shortcut as a link of *)
(* Cygwin.                                                                 *)
(***************************************************************************)
LinksResolve ==
    [][/\ reply.op = "islink" /\ reply.value = TRUE
       /\ reply'.op = "resolve" /\ reply'.arg = reply.arg /\ reply'.failed = "none"
       => reply'.value = "target"]_vars

(***************************************************************************)
(* The references of handles that are open are not 0, which means none,    *)
(* and no two are the same.  Back again they give the handle where it is   *)
(* small enough, and otherwise a number that differs by 2^16.              *)
(***************************************************************************)
RefsDistinct ==
    \A f \in held : f < Word16 - 1 =>
        /\ RefToMac(f) # 0
        /\ \A g \in held \ {f} : g < Word16 - 1 => RefToMac(f) # RefToMac(g)
        /\ MacToRef(RefToMac(f)) \in {f, f - Word16}
        /\ f < Word16 \div 2 - 1 => MacToRef(RefToMac(f)) = f

\* Everything that is allocated or open is somebody's: types, blocks, handles.
ResourcesOwned ==
    /\ [](TypeOK /\ HandsOwnTheirBlocks /\ OwnersApart)
    /\ BlocksLostOnlyByResize /\ HandlesLostOnlyByTwo
=============================================================================
