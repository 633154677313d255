---------------------------- MODULE AbstractFile ----------------------------
(***************************************************************************)
(* What the file operations of the compiler's operating-system layer       *)
(* promise: one file, one position, and operations that take effect at     *)
(* once.  A write past the end leaves zeros in between; a write that fails *)
(* or falls short leaves a prefix of the zeros and the bytes.              *)
(***************************************************************************)
EXTENDS Integers, Sequences

CONSTANTS
    Byte,     \* the values of a byte, "zero" among them
    Buffer,   \* the byte sequences the program writes
    Word,     \* how many values a UInt32 has
    Capacity  \* the longest file the disk holds

VARIABLES
    exists,   \* the file is in its directory
    data,     \* its bytes
    handle,   \* how the program has it open, or "closed"
    pos,      \* the position of the handle
    reply     \* what the last operation answered

fileVars == <<exists, data, handle, pos>>
absVars == <<exists, data, handle, pos, reply>>

Blind == Word - 1     \* the position no UInt32 can tell from an error

Reply(op, ok, n, bytes) == [op |-> op, ok |-> ok, n |-> n, bytes |-> bytes]
Failure(op) == Reply(op, FALSE, 0, <<>>)

Zeros(n) == [i \in 1..n |-> "zero"]

\* d with the bytes b from position p on, where p is not past its end.
Overwrite(d, p, b) ==
    SubSeq(d, 1, p) \o b \o SubSeq(d, p + Len(b) + 1, Len(d))

\* The n bytes of d from position p on, as far as there are that many.
Slice(d, p, n) == SubSeq(d, p + 1, IF p + n < Len(d) THEN p + n ELSE Len(d))

\* d made at least n bytes long.
Padded(d, n) == IF n > Len(d) THEN d \o Zeros(n - Len(d)) ELSE d

AbsInit ==
    /\ exists = FALSE /\ data = <<>> /\ handle = "closed" /\ pos = 0
    /\ reply = Failure("none")

AbsRefuse(op) == reply' = Failure(op) /\ UNCHANGED fileVars

AbsCreate ==
    /\ handle = "closed"
    /\ exists' = TRUE /\ data' = <<>> /\ reply' = Reply("create", TRUE, 0, <<>>)
    /\ UNCHANGED <<handle, pos>>

AbsDelete ==
    /\ handle = "closed" /\ exists
    /\ exists' = FALSE /\ data' = <<>> /\ reply' = Reply("delete", TRUE, 0, <<>>)
    /\ UNCHANGED <<handle, pos>>

\* An open to append that fails may still keep the file from everyone ("leaked").
AbsOpen(mode) ==
    /\ handle = "closed" /\ exists
    /\ \/ /\ handle' = mode
          /\ pos' = IF mode = "OSAppend" THEN Len(data) ELSE 0
          /\ reply' = Reply("open", TRUE, 0, <<>>)
       \/ /\ mode = "OSAppend"
          /\ handle' = "leaked" /\ pos' = 0 /\ reply' = Failure("open")
    /\ UNCHANGED <<exists, data>>

AbsClose ==
    /\ handle \notin {"closed", "leaked"}
    /\ handle' = "closed" /\ pos' = 0 /\ reply' = Reply("close", TRUE, 0, <<>>)
    /\ UNCHANGED <<exists, data>>

AbsCrash ==
    /\ handle' = "closed" /\ pos' = 0 /\ reply' = Failure("none")
    /\ \E n \in 0..Capacity : n <= pos /\ data' = Padded(data, n)
    /\ UNCHANGED exists

\* The bytes answered are the file's own, and the position follows them.
AbsRead(n) ==
    LET Got == Slice(data, pos, n)
    IN  /\ handle \in {"OSReadOnly", "OSReadWrite"}
        /\ reply' = Reply("read", TRUE, Len(Got), Got)
        /\ pos' = pos + Len(Got)
        /\ UNCHANGED <<exists, data, handle>>

\* An answer n after success says that exactly n bytes of b were written, at
\* the position the write began; at the Blind position it says nothing.
\* A handle without write access may lose its position, never the bytes.
AbsWrite(b) ==
    /\ handle \notin {"closed", "leaked"}
    /\ \/ \E n \in 0..Len(b), ok \in BOOLEAN :
            /\ handle # "OSReadOnly"
            /\ data' = Overwrite(Padded(data, pos), pos, SubSeq(b, 1, n))
            /\ pos' = pos + n
            /\ reply' = IF ok THEN Reply("write", TRUE, n, <<>>) ELSE Failure("write")
       \/ \E n \in 0..Capacity, ok \in BOOLEAN :
            /\ Len(data) <= n /\ n < pos
            /\ handle = "OSReadOnly" => n = Len(data) /\ ~ok
            /\ data' = Padded(data, n) /\ pos' = n
            /\ reply' = Reply("write", ok, 0, <<>>)
       \/ /\ pos = Blind
          /\ reply' = Reply("write", TRUE, Len(b), <<>>) /\ UNCHANGED <<data, pos>>
    /\ UNCHANGED <<exists, handle>>

AbsSeek ==
    /\ handle \notin {"closed", "leaked"}
    /\ pos' \in 0..Blind /\ reply' = Reply("seek", TRUE, 0, <<>>)
    /\ UNCHANGED <<exists, data, handle>>

\* Tell and GetSize; a position above the SInt32 range comes out negative.  With
\* an error comes the number that stands for one.
AbsTell ==
    /\ handle \notin {"closed", "leaked"}
    /\ \/ \E n \in {pos, pos - Word} : reply' = Reply("tell", TRUE, n, <<>>)
       \/ reply' = Reply("tell", FALSE, -1, <<>>)
    /\ UNCHANGED fileVars

AbsGetSize ==
    /\ handle \notin {"closed", "leaked"}
    /\ \/ reply' = Reply("size", TRUE, Len(data), <<>>)
       \/ reply' = Reply("size", FALSE, Blind, <<>>)
    /\ UNCHANGED fileVars

\* Success keeps the position and sets the size; failure may have set the
\* size, and may leave the position there.
AbsSetSize(n) ==
    /\ handle \notin {"closed", "leaked"}
    /\ \/ /\ data' = data /\ pos' \in {pos, n} /\ reply' = Failure("setsize")
       \/ /\ Len(data') = n
          /\ \A i \in 1..n : i <= Len(data) => data'[i] = data[i]
          /\ \/ pos' = pos /\ reply' = Reply("setsize", TRUE, 0, <<>>)
             \/ pos' = n /\ reply' = Failure("setsize")
       \/ /\ pos = Blind
          /\ reply' = Reply("setsize", TRUE, 0, <<>>) /\ UNCHANGED <<data, pos>>
    /\ UNCHANGED <<exists, handle>>

AbsNext ==
    \/ \E op \in {"create", "delete", "open", "close", "read", "write", "seek", "setsize"} :
          AbsRefuse(op)
    \/ AbsCreate \/ AbsDelete \/ AbsClose \/ AbsCrash \/ AbsSeek \/ AbsTell \/ AbsGetSize
    \/ \E mode \in {"OSReadOnly", "OSWrite", "OSReadWrite", "OSAppend"} : AbsOpen(mode)
    \/ \E n \in 0..Blind : AbsRead(n) \/ AbsSetSize(n)
    \/ \E b \in Buffer : AbsWrite(b)

AbsSpec == AbsInit /\ [][AbsNext]_absVars
=============================================================================
