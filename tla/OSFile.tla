------------------------------- MODULE OSFile -------------------------------
(***************************************************************************)
(* The open-file operations of source/OS/MsDos.c: OS_Create ... OS_SetSize *)
(* on one file.  A handle is opened with FILE_SHARE_READ alone, so while   *)
(* one can write nobody else has the file open.  OS_Write is several Win32 *)
(* calls, each a step of its own: the process may be killed between two of *)
(* them.  Win32 (SetFilePointer, WriteFile, ...) is modelled from its use. *)
(***************************************************************************)
EXTENDS Integers, Sequences

CONSTANTS
    User,      \* the byte values the program writes
    Buffer,    \* the byte sequences it passes to OS_Write
    Word,      \* how many values a UInt32 has (2^32)
    Chunk,     \* the size of file_buffer (0x20)
    Capacity   \* bound: the longest file the disk holds

VARIABLES
    exists, data, handle, pos, \* the file, its bytes, the handle, its position
    reply,                     \* what the last operation answered
    call                       \* the locals of OS_Write, while it runs

file == <<exists, data, handle, pos>>
vars == <<exists, data, handle, pos, reply, call>>

Sentinel == Word - 1           \* INVALID_SET_FILE_POINTER
Half == Word \div 2

\* "zero" comes from file_buffer, "extended" from SetEndOfFile, and
\* "undefined" is what a write beyond the end leaves before it.
Byte == User \cup {"zero", "extended", "undefined"}

ASSUME FileAssumption ==
    /\ Word \in Nat /\ Chunk \in Nat \ {0} /\ Capacity \in Nat
    /\ Word = 2 * Half /\ Capacity < Sentinel
    /\ {"zero", "extended", "undefined"} \cap User = {}
    /\ Buffer \subseteq Seq(User)

OSOpenMode == {"OSReadOnly", "OSWrite", "OSReadWrite", "OSAppend"}
Readable == {"OSReadOnly", "OSReadWrite"}
Writable == {"OSWrite", "OSReadWrite", "OSAppend"}

NoCall == [active |-> FALSE, b |-> <<>>, target |-> 0, fileSize |-> 0, before |-> 0]

Reply(op, ok, n, bytes) == [op |-> op, ok |-> ok, n |-> n, bytes |-> bytes]
Failure(op) == Reply(op, FALSE, 0, <<>>)
Success(op) == Reply(op, TRUE, 0, <<>>)

-----------------------------------------------------------------------------
(***************************************************************************)
(* Win32.                                                                  *)
(***************************************************************************)
\* A distance of SetFilePointer is signed: a UInt32 is reinterpreted.
Signed(n) == IF n < Half THEN n ELSE n - Word

CanMoveTo(p) == p \in 0..Sentinel

Copies(value, n) == [i \in 1..n |-> value]

\* Where nothing was written before position p, the bytes are undefined.
Written(d, p, b) ==
    IF b = <<>> THEN d
    ELSE IF p > Len(d) THEN d \o Copies("undefined", p - Len(d)) \o b
    ELSE SubSeq(d, 1, p) \o b \o SubSeq(d, p + Len(b) + 1, Len(d))

\* n bytes of b arrive, and the call succeeds or fails.
WriteFile(b, n, ok) ==
    /\ n \in 0..Len(b) /\ (n > 0 => pos + n <= Capacity)
    /\ handle \notin Writable => n = 0 /\ ~ok
    /\ data' = Written(data, pos, SubSeq(b, 1, n))
    /\ pos' = pos + n

Slice(d, p, n) == SubSeq(d, p + 1, IF p + n < Len(d) THEN p + n ELSE Len(d))

Resized(d, n) ==
    IF n <= Len(d) THEN SubSeq(d, 1, n) ELSE d \o Copies("extended", n - Len(d))

-----------------------------------------------------------------------------
Ready == ~call.active
Open == handle \in OSOpenMode

\* An error returned before anything is changed: access denied, a sharing
\* violation, a device error.
Refuse(op) == Ready /\ reply' = Failure(op) /\ UNCHANGED <<file, call>>

OS_Create ==
    \/ Refuse("create")
    \/ /\ Ready /\ handle = "closed"
       /\ exists' = TRUE /\ data' = <<>> /\ reply' = Success("create")
       /\ UNCHANGED <<handle, pos, call>>

OS_Delete ==
    \/ Refuse("delete")
    \/ /\ Ready /\ handle = "closed" /\ exists
       /\ exists' = FALSE /\ data' = <<>> /\ reply' = Success("delete")
       /\ UNCHANGED <<handle, pos, call>>

\* If the seek of an append fails, OS_Open returns its error with the handle open.
OS_Open(mode) ==
    \/ Refuse("open")
    \/ /\ Ready /\ handle = "closed" /\ exists
       /\ \/ /\ handle' = mode
             /\ pos' = IF mode = "OSAppend" THEN Len(data) ELSE 0
             /\ reply' = Success("open")
          \/ /\ mode = "OSAppend"
             /\ handle' = "leaked" /\ pos' = 0 /\ reply' = Failure("open")
       /\ UNCHANGED <<exists, data, call>>

OS_Close ==
    \/ Open /\ Refuse("close")
    \/ /\ Ready /\ Open
       /\ handle' = "closed" /\ pos' = 0 /\ reply' = Success("close")
       /\ UNCHANGED <<exists, data, call>>

OS_Read(n) ==
    \/ Open /\ Refuse("read")
    \/ /\ Ready /\ handle \in Readable
       /\ reply' = Reply("read", TRUE, Len(Slice(data, pos, n)), Slice(data, pos, n))
       /\ pos' = pos + Len(Slice(data, pos, n))
       /\ UNCHANGED <<exists, data, handle, call>>

\* SetFilePointer at the Sentinel returns what OS_Seek takes for an error, but
\* GetLastError is then NO_ERROR, so the answer is success all the same.
OS_Seek(how, offset) ==
    LET base == CASE how = "OSSeekRel" -> pos
                  [] how = "OSSeekAbs" -> 0
                  [] how = "OSSeekEnd" -> Len(data)
    IN  \/ Open /\ Refuse("seek")
        \/ /\ Ready /\ Open /\ CanMoveTo(base + offset)
           /\ pos' = base + offset /\ reply' = Success("seek")
           /\ UNCHANGED <<exists, data, handle, call>>

\* What the system answers is handed on also where it is an error.
OS_Tell ==
    /\ Ready /\ Open
    /\ \/ reply' = Reply("tell", TRUE, Signed(pos), <<>>)
       \/ reply' = Reply("tell", FALSE, -1, <<>>)
    /\ UNCHANGED <<file, call>>

OS_GetSize ==
    /\ Ready /\ Open
    /\ \/ reply' = Reply("size", TRUE, Len(data), <<>>)
       \/ reply' = Reply("size", FALSE, Sentinel, <<>>)
    /\ UNCHANGED <<file, call>>

\* Seek to the new size, SetEndOfFile, seek back: each of the three can fail.
OS_SetSize(size) ==
    /\ Ready /\ Open
    /\ UNCHANGED <<exists, handle, call>>
    /\ IF pos = Sentinel THEN reply' = Success("setsize") /\ UNCHANGED <<data, pos>>
       ELSE \/ /\ ~CanMoveTo(Signed(size))
               /\ reply' = Failure("setsize") /\ UNCHANGED <<data, pos>>
            \/ /\ CanMoveTo(Signed(size))
               /\ pos' = size /\ reply' = Failure("setsize") /\ UNCHANGED data
            \/ /\ CanMoveTo(Signed(size)) /\ handle \in Writable /\ size <= Capacity
               /\ data' = Resized(data, size)
               /\ IF CanMoveTo(Signed(pos))
                  THEN UNCHANGED pos /\ reply' = Success("setsize")
                  ELSE pos' = size /\ reply' = Failure("setsize")

-----------------------------------------------------------------------------
(***************************************************************************)
(* OS_Write: find the position and the size, go back to the end if the     *)
(* position is past it, fill the gap from file_buffer, write the bytes.    *)
(***************************************************************************)
StartCall(b) ==
    call' = [active |-> TRUE, b |-> b, target |-> pos, fileSize |-> Len(data),
             before |-> Len(data)]

Bug_OS_Write(b) ==
    /\ Ready /\ Open
    /\ StartCall(b)
    /\ UNCHANGED <<file, reply>>

OS_Write(b) ==
    /\ Ready /\ Open
    /\ UNCHANGED <<exists, data, handle>>
    /\ \/ /\ pos = Sentinel
          /\ reply' = Reply("write", TRUE, Len(b), <<>>) /\ UNCHANGED <<pos, call>>
       \/ /\ pos # Sentinel /\ pos <= Len(data)
          /\ StartCall(b) /\ UNCHANGED <<pos, reply>>
       \/ /\ pos # Sentinel /\ pos > Len(data) /\ CanMoveTo(Signed(Len(data)))
          /\ StartCall(b) /\ pos' = Len(data) /\ UNCHANGED reply
       \/ /\ pos # Sentinel /\ pos > Len(data) /\ ~CanMoveTo(Signed(Len(data)))
          /\ reply' = Failure("write") /\ UNCHANGED <<pos, call>>

Answer(r) == reply' = r /\ call' = NoCall

Bug_BytesToWrite(gap) == Chunk

BytesToWrite(gap) == IF gap > Chunk THEN Chunk ELSE gap

Bug_FillGap ==
    LET n == BytesToWrite(call.target - call.fileSize)
    IN  /\ call.active /\ call.target > call.fileSize
        /\ \E k \in 0..n, ok \in BOOLEAN :
              /\ WriteFile(Copies("zero", n), k, ok)
              /\ \/ ~ok /\ Answer(Failure("write"))
                 \/ ok /\ k < n /\ Answer(Reply("write", TRUE, Len(call.b), <<>>))
                 \/ ok /\ k = n /\ call' = [call EXCEPT !.fileSize = @ + n] /\ UNCHANGED reply
        /\ UNCHANGED <<exists, handle>>

FillGap ==
    LET n == BytesToWrite(call.target - call.fileSize)
    IN  /\ call.active /\ call.target > call.fileSize
        /\ \E k \in 0..n, ok \in BOOLEAN :
              /\ WriteFile(Copies("zero", n), k, ok)
              /\ \/ ~ok /\ Answer(Failure("write"))
                 \/ ok /\ k < n /\ Answer(Reply("write", TRUE, 0, <<>>))
                 \/ ok /\ k = n /\ call' = [call EXCEPT !.fileSize = @ + n] /\ UNCHANGED reply
        /\ UNCHANGED <<exists, handle>>

Bug_PutBytes ==
    /\ call.active /\ call.target < call.fileSize
    /\ \E k \in 0..Len(call.b), ok \in BOOLEAN :
          /\ WriteFile(call.b, k, ok)
          /\ Answer(IF ok THEN Reply("write", TRUE, k, <<>>) ELSE Failure("write"))
    /\ UNCHANGED <<exists, handle>>

PutBytes ==
    /\ call.active /\ call.target <= call.fileSize
    /\ \E k \in 0..Len(call.b), ok \in BOOLEAN :
          /\ WriteFile(call.b, k, ok)
          /\ Answer(IF ok THEN Reply("write", TRUE, k, <<>>) ELSE Failure("write"))
    /\ UNCHANGED <<exists, handle>>

\* The process is killed; the system closes its handles.
Crash ==
    /\ handle' = "closed" /\ pos' = 0 /\ reply' = Failure("none") /\ call' = NoCall
    /\ UNCHANGED <<exists, data>>

-----------------------------------------------------------------------------
Init ==
    /\ exists = FALSE /\ data = <<>> /\ handle = "closed" /\ pos = 0
    /\ reply = Failure("none") /\ call = NoCall

Step == FillGap \/ PutBytes

Next ==
    \/ OS_Create \/ OS_Delete \/ OS_Close \/ OS_Tell \/ OS_GetSize
    \/ \E mode \in OSOpenMode : OS_Open(mode)
    \/ \E n \in 0..Sentinel : OS_Read(n) \/ OS_SetSize(n)
    \/ \E how \in {"OSSeekRel", "OSSeekAbs", "OSSeekEnd"}, n \in 0..Sentinel :
          OS_Seek(how, Signed(n))
    \/ \E b \in Buffer : OS_Write(b)
    \/ Step
    \/ Crash

\* A write under way goes on until it returns: no system call blocks for ever.
Spec == Init /\ [][Next]_vars /\ WF_vars(Step)

-----------------------------------------------------------------------------
\* State types.  While a gap is filled the position is at the end of the
\* file, where fileSize says it is, and not past the target.
TypeOK ==
    /\ exists \in BOOLEAN /\ data \in Seq(Byte) /\ Len(data) <= Capacity
    /\ handle \in OSOpenMode \cup {"closed", "leaked"} /\ pos \in 0..Sentinel
    /\ reply.ok \in BOOLEAN /\ reply.n \in Int /\ reply.bytes \in Seq(Byte)
    /\ call \in [active : BOOLEAN, b : Buffer \cup {<<>>}, target : 0..Sentinel,
                 fileSize : 0..Sentinel, before : 0..Capacity]
    /\ call.active =>
          /\ Open /\ call.b \in Buffer
          /\ call.fileSize = Len(data) /\ call.before <= call.fileSize
          /\ call.before < call.target =>
                pos = call.fileSize /\ call.fileSize <= call.target
          /\ call.target <= call.before =>
                pos = call.target /\ call.fileSize = call.before

\* Every byte of the file was written by the program, filled with zero, or made
\* by OS_SetSize: no seek and write leaves a byte of whatever the disk held.
NoUndefinedByte == \A i \in 1..Len(data) : data[i] # "undefined"

\* What has been added to the file by the write under way is zeros.
GapIsZero ==
    call.active => \A i \in (call.before + 1)..Len(data) : data[i] = "zero"

\* Through a handle that cannot write nothing has been added.
ReadOnlyKept ==
    call.active /\ handle \notin Writable => call.fileSize = call.before

IInv == TypeOK /\ NoUndefinedByte /\ GapIsZero /\ ReadOnlyKept

\* The promise, with a write taking effect when it returns: until then the
\* file is what it was when OS_Write was called.
DataBefore == IF call.active THEN SubSeq(data, 1, call.before) ELSE data
PosBefore == IF call.active THEN call.target ELSE pos

Promise == INSTANCE AbstractFile WITH data <- DataBefore, pos <- PosBefore

\* Whatever fails and whenever the process dies, each operation leaves the
\* file, the position and the answer in one of the promised combinations.
Implements == Promise!AbsSpec

\* Every OS_Write returns: the gap does get filled.
WriteReturns == call.active ~> ~call.active
=============================================================================
