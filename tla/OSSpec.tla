------------------------------- MODULE OSSpec -------------------------------
(***************************************************************************)
(* Operations on files by name in source/OS/MsDos.c.  A file is named by a *)
(* spec, a path and a name in buffers of their own; every operation puts   *)
(* the two together in the one static spec_buffer (OS_SpecToString) and    *)
(* hands that to the system.  Strings are sequences of characters, since   *)
(* what matters is where they are cut.                                     *)
(***************************************************************************)
EXTENDS Integers, Sequences, SequencesExt

CONSTANTS
    Backslash,  \* the separator
    PathString, \* bound: the paths of specs
    NameString, \* bound: the names of specs
    MaxPath,    \* MAX_PATH: the size of spec_buffer, with the final zero
    NameMax,    \* 0x100: the size of a name's buffer, if the caller gives none
    Sizes       \* bound: the sizes of buffers that callers pass

ASSUME SpecAssumption ==
    /\ MaxPath \in Nat \ {0} /\ NameMax \in Nat \ {0} /\ Sizes \subseteq Nat
    /\ \A s \in PathString \cup NameString : s \in Seq(Range(s))

VARIABLES
    fs,             \* what there is under each name: "file", "dir" or "none"
    spec_buffer,
    infront,        \* the byte in front of it: Backslash or "other"
    asked           \* the last call: [op, names, size, result], names not cut

specVars == <<fs, spec_buffer, infront, asked>>

FileSpec == [path : PathString, name : NameString]
Full(spec) == spec.path \o spec.name

-----------------------------------------------------------------------------
(***************************************************************************)
(* OS_SpecToString into a buffer of `size' characters: what does not fit   *)
(* before the final zero is left out, of the name first.                   *)
(***************************************************************************)
Size(size, default) == IF size = 0 THEN default ELSE size

NameRoom(spec, size) == size - Len(spec.path) - 1

SpecToString(spec, size) ==
    IF Len(spec.path) + Len(spec.name) < size THEN Full(spec)
    ELSE IF Len(spec.path) >= size THEN SubSeq(spec.path, 1, size - 1)
    ELSE spec.path \o SubSeq(spec.name, 1, NameRoom(spec, size))

\* OS_PathSpecToString and OS_NameSpecToString, of one string.
Bug_PartToString(s, size) == IF Len(s) > size THEN SubSeq(s, 1, size - 1) ELSE s

PartToString(s, size) == IF Len(s) >= size THEN SubSeq(s, 1, size - 1) ELSE s

-----------------------------------------------------------------------------
(***************************************************************************)
(* The system, which is not part of this code.  A directory may be named   *)
(* with separators at the end.  Any call may fail and then does nothing.   *)
(***************************************************************************)
EndsWithSep(s) == s # <<>> /\ Last(s) = Backslash

Cut(s) ==
    LET length == CHOOSE n \in 0..Len(s) :
                      /\ n # 0 => s[n] # Backslash
                      /\ \A i \in (n + 1)..Len(s) : s[i] = Backslash
    IN  SubSeq(s, 1, length)

Files ==
    { Cut(SubSeq(s, 1, IF Len(s) < MaxPath THEN Len(s) ELSE MaxPath - 1)) :
        s \in PathString \cup {Full(spec) : spec \in FileSpec} } \ {<<>>}

\* What is at s, if s may stand for a thing of that kind.
Attributes(s) ==
    IF Cut(s) \notin Files \/ (EndsWithSep(s) /\ fs[Cut(s)] = "file") THEN "none"
    ELSE fs[Cut(s)]

AnswerSized(op, names, size, result) ==
    asked' = [op |-> op, names |-> names, size |-> size, result |-> result]

NamedAnswer(op, names, result) == AnswerSized(op, names, MaxPath, result)

\* The kind of `s' becomes `to' if it is one of `from', or the call fails.
Changes(op, names, s, from, to) ==
    \/ NamedAnswer(op, names, "error") /\ UNCHANGED fs
    \/ /\ Cut(s) \in Files /\ fs[Cut(s)] \in from
       /\ EndsWithSep(s) => to # "file" /\ fs[Cut(s)] # "file"
       /\ fs' = [fs EXCEPT ![Cut(s)] = to]
       /\ NamedAnswer(op, names, "ok")

-----------------------------------------------------------------------------
\* OS_Create and OS_Delete, and what they do to the one file is in OSFile.
OS_CreateNamed(spec) ==
    /\ spec_buffer' = SpecToString(spec, MaxPath)
    /\ UNCHANGED infront
    /\ Changes("create", {Full(spec)}, spec_buffer', {"none", "file"}, "file")

OS_DeleteNamed(spec) ==
    /\ spec_buffer' = SpecToString(spec, MaxPath)
    /\ UNCHANGED infront
    /\ Changes("delete", {Full(spec)}, spec_buffer', {"file"}, "none")

OS_Mkdir(spec) ==
    /\ spec_buffer' = SpecToString(spec, MaxPath)
    /\ UNCHANGED infront
    /\ Changes("mkdir", {Full(spec)}, spec_buffer', {"none"}, "dir")

OS_Rmdir(path) ==
    /\ spec_buffer' = PartToString(path, MaxPath)
    /\ UNCHANGED infront
    /\ Changes("rmdir", {path}, spec_buffer', {"dir"}, "none")

Moved(from, to) ==
    \/ UNCHANGED fs
    \/ /\ Attributes(from) # "none" /\ Cut(to) \in Files /\ fs[Cut(to)] = "none"
       /\ EndsWithSep(to) => Attributes(from) = "dir"
       /\ fs' = [fs EXCEPT ![Cut(to)] = Attributes(from), ![Cut(from)] = "none"]

Bug_OS_Rename(oldspec, newspec) ==
    /\ spec_buffer' = SpecToString(newspec, MaxPath)
    /\ Moved(spec_buffer, spec_buffer')
    /\ NamedAnswer("rename", {Full(oldspec), Full(newspec)}, IF fs' = fs THEN "error" ELSE "ok")
    /\ UNCHANGED infront

\* The second name has a buffer of its own, spec_buffer2.
OS_Rename(oldspec, newspec) ==
    /\ spec_buffer' = SpecToString(oldspec, MaxPath)
    /\ Moved(spec_buffer', SpecToString(newspec, MaxPath))
    /\ NamedAnswer("rename", {Full(oldspec), Full(newspec)}, IF fs' = fs THEN "error" ELSE "ok")
    /\ UNCHANGED infront

OS_Status(spec) ==
    /\ spec_buffer' = SpecToString(spec, MaxPath)
    /\ NamedAnswer("status", {Full(spec)}, IF Attributes(spec_buffer') = "none" THEN "error" ELSE "ok")
    /\ UNCHANGED <<fs, infront>>

Bug_Stripped(s) == s

\* OS_IsDir and OS_IsFile take one separator at the end off spec_buffer.
Stripped(s) == IF EndsWithSep(s) THEN Front(s) ELSE s

\* The end of an empty string is the byte in front of the buffer.
StrippedInFront(s) ==
    infront' = IF s = <<>> /\ infront = Backslash THEN "other" ELSE infront

\* What both do before they ask for the attributes.
StripsName(spec) ==
    LET s == SpecToString(spec, MaxPath)
    IN  spec_buffer' = Stripped(s) /\ StrippedInFront(s)

OS_IsDir(spec) ==
    /\ StripsName(spec)
    /\ NamedAnswer("isdir", {Full(spec)}, Attributes(spec_buffer') = "dir")
    /\ UNCHANGED fs

OS_IsFile(spec) ==
    /\ StripsName(spec)
    /\ NamedAnswer("isfile", {Full(spec)}, Attributes(spec_buffer') = "file")
    /\ UNCHANGED fs

\* A caller's own conversion, into its buffer or one that is allocated for it.
CallerConverts(spec, size) ==
    /\ \/ LET n == Size(size, MaxPath)
          IN  \/ AnswerSized("string", {Full(spec)}, n, SpecToString(spec, n))
              \/ AnswerSized("string", {spec.path}, n, PartToString(spec.path, n))
       \/ LET n == Size(size, NameMax)
          IN  AnswerSized("string", {spec.name}, n, PartToString(spec.name, n))
       \/ NamedAnswer("nomemory", {Full(spec)}, "NULL")
    /\ UNCHANGED <<fs, spec_buffer, infront>>

NamedInit ==
    /\ fs = [s \in Files |-> "none"] /\ spec_buffer = <<>>
    /\ infront \in {Backslash, "other"}
    /\ asked = [op |-> "none", names |-> {}, size |-> MaxPath, result |-> "ok"]

NamedNext ==
    \/ \E spec \in FileSpec :
          \/ OS_CreateNamed(spec) \/ OS_DeleteNamed(spec) \/ OS_Mkdir(spec)
          \/ OS_Status(spec) \/ OS_IsDir(spec) \/ OS_IsFile(spec)
          \/ \E size \in Sizes : CallerConverts(spec, size)
          \/ \E newspec \in FileSpec : OS_Rename(spec, newspec)
    \/ \E path \in PathString : OS_Rmdir(path)

NamedSpec == NamedInit /\ [][NamedNext]_specVars

-----------------------------------------------------------------------------
\* Types; spec_buffer has room for its string and the final zero.
SpecTypeOK ==
    /\ fs \in [Files -> {"file", "dir", "none"}]
    /\ Len(spec_buffer) < MaxPath
    /\ infront \in {Backslash, "other"}

\* What a conversion gives is as much of the name as its buffer can hold.
StringFillsBuffer ==
    asked.op = "string" => \A s \in asked.names :
        asked.result = IF Len(s) < asked.size THEN s ELSE SubSeq(s, 1, asked.size - 1)

\* No conversion writes past its buffer or leaves out what would have fitted.
BuffersFilled == SpecTypeOK /\ StringFillsBuffer

Fits(names) == \A s \in names : Len(s) < MaxPath

\* An operation whose names fit changes nothing but what they name, and the
\* two names of a rename are never taken for one another; the byte in front of
\* spec_buffer, which is not its own, it changes only if the name is empty.
OnlyNamedFiles ==
    [][ Fits(asked'.names) =>
        /\ infront' # infront => asked'.names = {<<>>}
        /\ \A s \in Files : fs'[s] # fs[s] =>
                /\ s \in {Cut(n) : n \in asked'.names}
                /\ fs'[s] = "none" => asked'.op \in {"delete", "rmdir", "rename"}
                /\ asked'.op = "rename" => {fs'[Cut(n)] : n \in asked'.names}
                                             = {fs[Cut(n)] : n \in asked'.names} ]_specVars

EndsTwice(s) == EndsWithSep(s) /\ EndsWithSep(Front(s))

\* The answers about a name that fits agree with what is there, also if there is
\* a separator at its end, and no name is both a file and a directory.
KindsAreRight ==
    Fits(asked.names) =>
        \A n \in asked.names : Cut(n) \in Files /\ ~EndsTwice(n) =>
            /\ asked.op = "isdir" => asked.result = (fs[Cut(n)] = "dir")
            /\ asked.op = "isfile" => asked.result = (fs[Cut(n)] = "file")

\* MsDos.c:63: a spec that does not fit is answered ERROR_BUFFER_OVERFLOW.
LongSpecsRefused ==
    asked.op \in {"create", "delete", "mkdir", "rename"} /\ ~Fits(asked.names)
        => asked.result = "error"
=============================================================================
