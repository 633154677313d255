------------------------------- MODULE OSDir -------------------------------
(***************************************************************************)
(* OS_OpenDir, OS_ReadDir and OS_CloseDir of source/OS/MsDos.c.  The       *)
(* buffer ref->data always holds the entry after the one last answered:    *)
(* a read takes that entry out, has the system put the next one in, and    *)
(* closes the search when there is none.  Entries that cannot be given to  *)
(* the caller are passed over, each in a round of the loop, which is a     *)
(* step here.  FindFirstFile, FindNextFile and FindClose are modelled from *)
(* their use; the name is the one answered, long or short.                 *)
(***************************************************************************)
EXTENDS Integers, Sequences

CONSTANTS
    Name,           \* the names of entries
    Directory,      \* bound: the directories, as sequences of Entry
    NULL,           \* no buffer
    Blank,          \* a buffer that FindFirstFile did not fill
    Nothing,        \* the answer ERROR_FILE_NOT_FOUND
    CloseFailures   \* bound: how often FindClose fails

\* `dot' is `.' or `..'; an entry is short if it fits a path together with
\* that of the directory and, for a directory, the separator after it.
Entry == [name : Name, kind : {"file", "dir"}, dot : BOOLEAN, short : BOOLEAN]

DirAssumption ==
    /\ Directory \subseteq Seq(Entry) \ {<<>>} /\ CloseFailures \in Nat
    /\ {NULL, Blank, Nothing} \cap Entry = {}

VARIABLES
    dir,       \* ref->dir: "open", or "INVALID_HANDLE_VALUE"
    data,      \* ref->data: NULL, Blank or the entry in the buffer
    rest,      \* what the system has still to list
    reading,   \* OS_ReadDir is running
    answer,    \* name and kind that the last read answered, or Nothing
    failures   \* how often FindClose has failed

vars == <<dir, data, rest, reading, answer, failures>>

INVALID == "INVALID_HANDLE_VALUE"

\* No memory: nothing but ref->data is assigned.  No match: the buffer stays.
OS_OpenDir ==
    /\ ~reading /\ dir = INVALID
    /\ \/ data' = NULL /\ UNCHANGED <<dir, rest>>
       \/ data' = Blank /\ UNCHANGED <<dir, rest>>
       \/ \E entries \in Directory :
             dir' = "open" /\ data' = Head(entries) /\ rest' = Tail(entries)
    /\ UNCHANGED <<reading, answer, failures>>

FindClose ==
    \/ dir' = INVALID /\ data' = NULL /\ rest' = <<>> /\ UNCHANGED failures
    \/ /\ failures < CloseFailures
       /\ failures' = failures + 1 /\ UNCHANGED <<dir, data, rest>>

OS_CloseDir ==
    /\ ~reading
    /\ IF dir = INVALID THEN UNCHANGED <<dir, data, rest, failures>> ELSE FindClose
    /\ UNCHANGED <<reading, answer>>

OS_ReadDir ==
    /\ ~reading /\ reading' = TRUE
    /\ UNCHANGED <<dir, data, rest, answer, failures>>

Bug_FindNextFile ==
    IF rest = <<>> THEN UNCHANGED <<dir, data, rest, failures>>
    ELSE data' = Head(rest) /\ rest' = Tail(rest) /\ UNCHANGED <<dir, failures>>

\* The next entry into the buffer, or the end of the search.
FindNextFile ==
    IF rest = <<>> THEN FindClose
    ELSE data' = Head(rest) /\ rest' = Tail(rest) /\ UNCHANGED <<dir, failures>>

Readable(e) == ~e.dot /\ e.short

\* What is answered is a copy made before the buffer is filled again.
Answer(e) == [name |-> e.name, kind |-> e.kind]

Bug_ReadRound ==
    /\ reading /\ dir = "open"
    /\ FindNextFile
    /\ IF Readable(data) /\ dir' = "open" THEN answer' = Answer(data') /\ reading' = FALSE
       ELSE UNCHANGED <<answer, reading>>

ReadRound ==
    /\ reading /\ dir = "open"
    /\ FindNextFile
    /\ IF Readable(data) THEN answer' = Answer(data) /\ reading' = FALSE
       ELSE UNCHANGED <<answer, reading>>

ReadEnd ==
    /\ reading /\ dir = INVALID
    /\ answer' = Nothing /\ reading' = FALSE
    /\ UNCHANGED <<dir, data, rest, failures>>

Init ==
    /\ dir = INVALID /\ data = NULL /\ rest = <<>>
    /\ reading = FALSE /\ answer = Nothing /\ failures = 0

Round == ReadRound \/ ReadEnd

Next == OS_OpenDir \/ OS_CloseDir \/ OS_ReadDir \/ Round

\* A read under way goes on until it returns.
Spec == Init /\ [][Next]_vars /\ WF_vars(Round)

-----------------------------------------------------------------------------
\* Types; the buffer is there exactly as long as the search is open, apart
\* from the one that a failed open has left behind.
TypeOK ==
    /\ dir \in {"open", INVALID} /\ reading \in BOOLEAN
    /\ answer \in [name : Name, kind : {"file", "dir"}] \cup {Nothing}
    /\ rest \in Seq(Entry) /\ failures \in 0..CloseFailures
    /\ dir = "open" => data \in Entry
    /\ dir = INVALID => data \in {NULL, Blank} /\ rest = <<>>

\* What is answered of an entry and of those behind it, of which others is answered.
WithEntry(e, others) == IF Readable(e) THEN <<Answer(e)>> \o others ELSE others

\* Every readable entry is answered once and in order, with its own kind, and
\* after the last the directory is at its end for good; the last is answered again
\* only as often as FindClose has failed.
Listed(entries) ==
    LET n == Len(entries)
        last[k \in 0..n] ==
            IF k = 0 THEN <<>> ELSE WithEntry(entries[n - k + 1], last[k - 1])
    IN  last[n]

\* What is still to be answered.
Remaining == IF dir = "open" THEN Listed(<<data>> \o rest) ELSE <<>>

Promise == INSTANCE AbstractDir WITH
    Listing <- { Listed(entries) : entries \in Directory },
    remaining <- Remaining

Implements == Promise!Spec

\* Every OS_ReadDir returns, whatever there is to pass over, even if the last
\* entry has to be passed over and closing the search fails.
ReadReturns == reading ~> ~reading
=============================================================================
