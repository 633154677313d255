------------------------------- MODULE OSPath -------------------------------
(***************************************************************************)
(* Paths as strings in source/OS/MsDos.c: the canonical form of a path,    *)
(* with the two variables of the environment that translate names of       *)
(* Cygwin (OS_CanonPath), full paths, and the specs made from paths.       *)
(* OS_MakeSpecEx and FUN_004107d0 are stubs in the repository and are      *)
(* modelled as such: a spec that is made is empty.                         *)
(* Strings are sequences of characters; they end where the sequence does.  *)
(***************************************************************************)
EXTENDS Integers, Sequences, FiniteSets, SequencesExt

CONSTANTS
    Strings,    \* bound: the paths that callers pass
    Parts,      \* bound: the volumes and directories of OS_MakePathSpec
    DrivePrefixes, \* values of MW_CYGDRIVE_PREFIX, Unset for none
    CygwinRoots, \* values of MW_CYGWIN_ROOT, Unset for none
    Stale,      \* bound: the byte that a buffer is full of before a call
    Memory,     \* bound: what lies in memory that nothing has set, up to a zero
    MAX_PATH,   \* the size of a path's buffer
    MaxJoined,  \* 0x144: the size of the buffer of OS_MakePathSpecEx
    MaxName,    \* 0xff: the longest name that OS_MakeNameSpec lets through
    NameSize    \* 64: the size of the buffer in an OSNameSpec

Unset == <<"unset">>
Zero == ""
Sep == "\\"
Character == {"c", "C", "1", "/", Sep, ":", ".", "?"}

ASSUME PathAssumption ==
    /\ {MAX_PATH, MaxJoined, MaxName, NameSize} \subseteq Nat
    /\ MAX_PATH > 3 /\ MaxJoined > 3 /\ NameSize > 0
    /\ Strings \cup Memory \subseteq Seq(Character)
    /\ (Parts \cup DrivePrefixes \cup CygwinRoots) \ {Unset} \subseteq Seq(Character)
    /\ Stale \subseteq Character \cup {Zero}

VARIABLES
    MW_CYGDRIVE_PREFIX, MW_CYGWIN_ROOT,
    path,      \* the string in the caller's buffer
    extent,    \* how many characters of each buffer the last call wrote
    request    \* the last call: [op, from, err, memory], with what it read of memory

environment == <<MW_CYGDRIVE_PREFIX, MW_CYGWIN_ROOT>>
pathVars == <<MW_CYGDRIVE_PREFIX, MW_CYGWIN_ROOT, path, extent, request>>

Letters == {"c", "C"}
toupper(ch) == IF ch = "c" THEN "C" ELSE ch
Fold(s) == [k \in DOMAIN s |-> toupper(s[k])]

\* The k-th character from the front, 0 the first.
At(s, k) == IF k < Len(s) THEN s[k + 1] ELSE Zero
From(s, k) == SubSeq(s, k + 1, Len(s))

\* ustrncmp, over the length of the first string: case makes no difference.
Begins(prefix, s) == IsPrefix(Fold(prefix), Fold(s))

OS_EqualPath(a, b) == Fold(a) = Fold(b)

-----------------------------------------------------------------------------
(***************************************************************************)
(* OS_CanonPath.  A name under the prefix stands for a drive: what is      *)
(* written, and how much of the path is used up.  The character behind the *)
(* drive is tested also where the path has ended with the prefix: then it  *)
(* is the first of the memory m behind the path's zero, and if that is a   *)
(* separator, the rest of m is taken for the rest of the path.             *)
(***************************************************************************)
Bug_Matches(s) == MW_CYGDRIVE_PREFIX # Unset /\ IsPrefix(MW_CYGDRIVE_PREFIX, s)

Matches(s) == MW_CYGDRIVE_PREFIX # Unset /\ Begins(MW_CYGDRIVE_PREFIX, s)

DriveAt(s) ==
    LET end == Len(MW_CYGDRIVE_PREFIX)
    IN  IF At(s, end) \in {"/", Sep} THEN end + 1 ELSE end

Overread(s) == Matches(s) /\ DriveAt(s) >= Len(s)

\* What may be read behind the end of s; nothing, if its end is not passed.
Beyond(s) == IF Overread(s) THEN Memory ELSE {<<>>}

Following(s, m) == IF DriveAt(s) < Len(s) THEN At(s, DriveAt(s) + 1) ELSE At(m, 0)

IsDrive(s, m) ==
    /\ Matches(s)
    /\ \/ At(s, DriveAt(s)) \in Letters /\ Following(s, m) = "/"
       \/ Following(s, m) = Sep

Drive(s, m) == IF IsDrive(s, m) THEN <<toupper(At(s, DriveAt(s))), ":", Sep>> ELSE <<>>

Behind(s, m) ==
    IF ~IsDrive(s, m) THEN s
    ELSE IF DriveAt(s) < Len(s) THEN From(s, DriveAt(s) + 2) ELSE From(m, 1)

\* Two slashes stand for the root.
UnderRoot(s) == MW_CYGWIN_ROOT # Unset /\ At(s, 0) = "/" /\ At(s, 1) = "/"

TooLong(s, m) ==
    \/ MAX_PATH - 1 < Len(s)
    \/ /\ UnderRoot(Behind(s, m))
       /\ \/ MAX_PATH - 1 < Len(MW_CYGWIN_ROOT) + 2
          \/ MAX_PATH - 1 < Len(MW_CYGWIN_ROOT) + Len(s) + 3

Slashes(s, n) == Cardinality({ i \in 1..n : s[i] = "/" })

\* The letter of a drive in capitals.
Capital(s) ==
    IF At(s, 0) \in Letters /\ At(s, 1) = ":" THEN [s EXCEPT ![1] = toupper(@)] ELSE s

(***************************************************************************)
(* What is left of the path: a slash becomes a separator and one more byte *)
(* is passed over, so that what the buffer held before shows through.      *)
(***************************************************************************)
Rest(s, stale) ==
    [p \in 1..(Len(s) + Slashes(s, Len(s))) |->
        IF \E k \in DOMAIN s : p = k + Slashes(s, k - 1)
        THEN LET ch == s[CHOOSE k \in DOMAIN s : p = k + Slashes(s, k - 1)]
             IN  IF ch = "/" THEN Sep ELSE ch
        ELSE stale]

\* All that is written before the final zero.  The test for a separator at the
\* end of the root looks at its zero, which is copied and ends what is seen.
Bytes(s, stale, m) ==
    Drive(s, m) \o (IF UnderRoot(Behind(s, m))
                    THEN MW_CYGWIN_ROOT \o <<Zero, Sep>> \o Rest(Tail(Behind(s, m)), stale)
                    ELSE Rest(Capital(Behind(s, m)), stale))

Seen(bytes) ==
    LET zero == { k \in DOMAIN bytes : bytes[k] = Zero }
    IN  IF zero = {} THEN bytes
        ELSE SubSeq(bytes, 1, (CHOOSE k \in zero : \A j \in zero : k <= j) - 1)

Canon(s, stale, m) == Seen(Bytes(s, stale, m))

CanonErr(s, m) == IF TooLong(s, m) THEN "ERROR_BUFFER_OVERFLOW" ELSE "none"

\* How much is written, the same whatever the buffer held: the drive, if it is
\* the root that is too long.
CanonWrites(s, m) ==
    IF MAX_PATH - 1 < Len(s) THEN 0
    ELSE IF TooLong(s, m) THEN Len(Drive(s, m)) ELSE Len(Bytes(s, Zero, m)) + 1

PathAnswer(op, from, err, memory) ==
    request' = [op |-> op, from |-> from, err |-> err, memory |-> memory]

Writes(canon, joined, spec, name) ==
    [canon |-> canon, joined |-> joined, spec |-> spec, name |-> name]

\* Bound: the result has a buffer of its own, as it has in OS_MakeSpecEx.
OS_CanonPath ==
    /\ \E m \in Beyond(path) :
          /\ PathAnswer("canon", path, CanonErr(path, m), m)
          /\ IF TooLong(path, m) THEN UNCHANGED path
             ELSE \E stale \in Stale : path' = Canon(path, stale, m)
          /\ extent' = Writes(CanonWrites(path, m), 0, 0, 0)
    /\ UNCHANGED environment

(***************************************************************************)
(* OS_IsFullPath.  By a misplaced parenthesis nothing is compared with the *)
(* prefix, and of an empty prefix its zero: with a prefix every path that  *)
(* is not absolute counts as one under it, with an empty one only the      *)
(* empty path, and without a prefix every path is full.                    *)
(***************************************************************************)
Absolute(s) ==
    \/ At(s, 0) = Sep /\ At(s, 1) = Sep
    \/ At(s, 0) \in Letters /\ At(s, 1) = ":" /\ At(s, 2) = Sep

OS_IsFullPath(s) ==
    \/ Absolute(s)
    \/ MW_CYGDRIVE_PREFIX = Unset
    \/ MW_CYGDRIVE_PREFIX = <<>> /\ s # <<>>
    \/ MW_CYGWIN_ROOT # Unset /\ At(s, 0) = "/" /\ At(s, 1) # "/"

\* Where the directory begins: behind the name of a server, or a drive.
OS_GetDirPtr(s) ==
    IF At(s, 0) = Sep /\ At(s, 1) = Sep
    THEN LET next == SelectInSeq(From(s, 2), LAMBDA ch : ch = Sep)
         IN  IF next = 0 THEN Len(s) ELSE next + 1
    ELSE IF At(s, 0) \in Letters /\ At(s, 1) = ":" THEN 2 ELSE 0

-----------------------------------------------------------------------------
\* OS_MakeSpecEx, with the body it has: the spec stays empty, and is no file.
OS_MakeSpec ==
    /\ \E m \in Beyond(path) :
          /\ PathAnswer("spec", path, CanonErr(path, m), m)
          /\ extent' = Writes(CanonWrites(path, m), 0, 1, 0)
    /\ path' = <<>>
    /\ UNCHANGED environment

\* A volume and a directory, either of them NULL (Unset), put together.
Joined(vol, dir) ==
    LET from == IF dir = Unset THEN <<"/">> ELSE dir
    IN  IF vol = Unset THEN IF dir = Unset THEN <<".">> ELSE dir
        ELSE IF vol = <<>> THEN from
        ELSE IF Len(vol) = 1 THEN vol \o <<":">> \o from
        ELSE IF dir = Unset THEN vol
        ELSE vol \o (IF At(dir, 0) = Sep THEN <<Sep>> ELSE <<>>) \o dir

LengthOf(part) == IF part = Unset THEN 0 ELSE Len(part)

Bug_JoinedTooLong(vol, dir) == MaxJoined < LengthOf(vol) + LengthOf(dir)

JoinedTooLong(vol, dir) == MaxJoined < LengthOf(vol) + LengthOf(dir) + 2

(***************************************************************************)
(* OS_MakePathSpecEx.  No spec that is made is a directory, so that the    *)
(* answer is an error unless `lenient' hides one.  With `follow' it counts *)
(* links in a variable that nothing has set: it may be at its limit at     *)
(* once, and then the spec was never made, and what is copied from it is   *)
(* what memory held.                                                       *)
(***************************************************************************)
OS_MakePathSpec(vol, dir, follow, lenient) ==
    LET buf == Joined(vol, dir)
    IN  /\ \/ /\ JoinedTooLong(vol, dir)
              /\ PathAnswer("pathspec", <<>>, "ERROR_BUFFER_OVERFLOW", <<>>)
              /\ extent' = Writes(0, 0, 0, 0) /\ UNCHANGED path
           \/ /\ ~JoinedTooLong(vol, dir)
              /\ \E m \in Beyond(buf) :
                    /\ PathAnswer("pathspec", buf,
                           IF ~TooLong(buf, m) THEN "ERROR_PATH_NOT_FOUND"
                           ELSE IF lenient THEN "none" ELSE CanonErr(buf, m), m)
                    /\ extent' = Writes(CanonWrites(buf, m), Len(buf) + 1, 1, 0)
              /\ path' = <<>>
           \/ /\ ~JoinedTooLong(vol, dir) /\ follow
              /\ path' \in Memory
              /\ PathAnswer("unmade", buf, IF lenient THEN "none" ELSE "ERROR_PATH_NOT_FOUND", path')
              /\ extent' = Writes(0, Len(buf) + 1, Len(path') + 1, 0)
        /\ UNCHANGED environment

\* OS_MakeNameSpec: a name has no separator and no character that is special.
\* What is refused as too long has nothing to do with the size of the buffer.
OS_MakeNameSpec ==
    /\ PathAnswer("namespec", path,
              IF MaxName < Len(path) THEN "ERROR_BUFFER_OVERFLOW"
              ELSE IF Sep \in Range(path) THEN "ERROR_ACCESS_DENIED"
              ELSE IF {":", "/"} \cap Range(path) # {} THEN "ERROR_INVALID_NAME" ELSE "none",
              <<>>)
    /\ path' = (IF request'.err = "none" THEN path ELSE <<>>)
    /\ extent' = Writes(0, 0, 0, Len(path') + 1)
    /\ UNCHANGED environment

\* OS_GetCWD: the system's answer leaves room for the separator, or it fails.
WithSep(s) == IF Last(s) = Sep THEN s ELSE Append(s, Sep)

OS_GetCWD(cwd) ==
    /\ \/ /\ path' = WithSep(cwd) /\ extent' = Writes(0, 0, Len(path') + 1, 0)
          /\ PathAnswer("cwd", <<>>, "none", <<>>)
       \/ /\ PathAnswer("cwd", <<>>, "error", <<>>)
          /\ extent' = Writes(0, 0, 0, 0) /\ UNCHANGED path
    /\ UNCHANGED environment

CWDs == { s \in Strings : Absolute(s) /\ Len(s) <= MAX_PATH - 2 }

PathInit ==
    /\ MW_CYGDRIVE_PREFIX \in DrivePrefixes /\ MW_CYGWIN_ROOT \in CygwinRoots
    /\ path \in Strings /\ extent = Writes(0, 0, 0, 0)
    /\ request = [op |-> "none", from |-> <<>>, err |-> "none", memory |-> <<>>]

\* Bound: what does not use the path is called at the beginning, on an empty one.
Beginning == request.op = "none" /\ path = <<>>

PathNext ==
    \/ OS_CanonPath \/ OS_MakeSpec \/ OS_MakeNameSpec
    \/ \E vol, dir \in Parts, follow, lenient \in BOOLEAN :
          Beginning /\ OS_MakePathSpec(vol, dir, follow, lenient)
    \/ \E cwd \in CWDs : Beginning /\ OS_GetCWD(cwd)

PathSpec == PathInit /\ [][PathNext]_pathVars

-----------------------------------------------------------------------------
(***************************************************************************)
(* Types, and how far each buffer is written, exactly as the code bounds   *)
(* it.  The volume and the directory fit where they are joined.  The       *)
(* others can be written past their ends: the buffer of OS_CanonPath by    *)
(* one byte for each slash, by one under an empty prefix, and by all that  *)
(* is read behind the path; a spec by what lay where none was made; a name *)
(* that is not short, up to the limit of OS_MakeNameSpec.                  *)
(***************************************************************************)
Excess(s, m) ==
    Slashes(s, Len(s)) + Len(m) + Slashes(m, Len(m))
      + IF MW_CYGDRIVE_PREFIX = <<>> /\ IsDrive(s, m) THEN 1 ELSE 0

PathTypeOK ==
    /\ path \in Seq(Character)
    /\ extent.joined \in 0..MaxJoined
    /\ extent.canon \in 0..(MAX_PATH + Excess(request.from, request.memory))
    /\ extent.spec \in 0..(IF request.op = "unmade" THEN Len(request.memory) + 1 ELSE MAX_PATH)
    /\ extent.name \in 0..(IF Len(request.from) < NameSize THEN NameSize ELSE MaxName + 1)

Canonised == request.op = "canon" /\ request.err = "none"

\* A name under the prefix that a separator follows: any character is taken for
\* a drive (&& binds before ||), also the zero that ends the path.
OddDrive(s, m) == IsDrive(s, m) /\ At(s, DriveAt(s)) \notin Letters

\* What is absolute or under the prefix becomes absolute, and so is full in any
\* environment, with its directory at a separator or a server's end; just not if
\* the drive is odd.
AbsoluteKept ==
    Canonised /\ (Absolute(request.from) \/ IsDrive(request.from, request.memory)) =>
        /\ Absolute(path) <=> ~OddDrive(request.from, request.memory)
        /\ Absolute(path) => /\ OS_IsFullPath(path)
                             /\ At(path, OS_GetDirPtr(path)) \in {Sep, Zero}

(***************************************************************************)
(* What the canonical form is, whatever the buffer held: the drive with    *)
(* the root, or with the rest of the path, up to the first slash.  Behind  *)
(* the separator that replaces it the old contents show.                   *)
(***************************************************************************)
Sure(s, m) ==
    LET rest == Capital(Behind(s, m))
        slash == SelectInSeq(rest, LAMBDA ch : ch = "/")
    IN  Seen(Drive(s, m) \o (IF UnderRoot(rest) THEN MW_CYGWIN_ROOT
                             ELSE IF slash = 0 THEN rest
                             ELSE SubSeq(rest, 1, slash - 1) \o <<Sep>>))

SureUpToSlash ==
    Canonised =>
        LET rest == Behind(request.from, request.memory)
        IN  /\ IsPrefix(Sure(request.from, request.memory), path)
            /\ UnderRoot(rest) \/ "/" \notin Range(rest) =>
                  path = Sure(request.from, request.memory)

\* Two ways to write a path that differ in case have equal canonical forms.
CaseIsIgnored ==
    Canonised => \A stale \in Stale :
        path = Canon(request.from, stale, request.memory) =>
            /\ ~TooLong(Fold(request.from), request.memory)
            /\ OS_EqualPath(Canon(Fold(request.from), stale, request.memory), path)

(***************************************************************************)
(* A drive is a capital, unless it is the root's, which is copied as it is *)
(* set.  Taking the canonical form again changes nothing but the case of   *)
(* that, if the buffer showed no slash and the form is not itself under    *)
(* the prefix.                                                             *)
(***************************************************************************)
FormIsKept ==
    Canonised =>
        /\ ~UnderRoot(Behind(request.from, request.memory)) /\ At(path, 1) = ":" => At(path, 0) # "c"
        /\ "/" \notin Range(path) => \A m \in Beyond(path) : ~IsDrive(path, m) =>
              \A stale \in Stale :
                  /\ OS_EqualPath(Canon(path, stale, m), path)
                  /\ At(path, 0) # "c" => Canon(path, stale, m) = path

\* What OS_CanonPath makes of every path, under every environment.
CanonicalPaths == AbsoluteKept /\ SureUpToSlash /\ CaseIsIgnored /\ FormIsKept
=============================================================================
