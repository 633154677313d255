---------------------------- MODULE OSFileProofs ----------------------------
(***************************************************************************)
(* The theorems about files: those of OSFile, for every word size, chunk   *)
(* size and capacity and whatever the program writes, those of OSSpec, for *)
(* all names of files and sizes of buffers, and those of OSPath, for all   *)
(* paths and all values of the environment.                                *)
(***************************************************************************)
EXTENDS OSFile, OSSpec, OSPath, Recursion, FiniteSetTheorems, TLAPS

Clean(d) == \A i \in 1..Len(d) : d[i] # "undefined"

LEMMA WordFacts ==
    /\ Half \in Nat /\ Word \in Nat /\ Sentinel \in Nat /\ Half <= Sentinel
    /\ Capacity < Sentinel /\ Sentinel = Word - 1
BY FileAssumption DEF Half, Sentinel

LEMMA CopiesType ==
    ASSUME NEW value \in Byte, NEW n \in Nat
    PROVE  /\ Copies(value, n) \in Seq(Byte) /\ Len(Copies(value, n)) = n
           /\ \A i \in 1..n : Copies(value, n)[i] = value
BY DEF Copies

LEMMA PrefixType ==
    ASSUME NEW d \in Seq(Byte), NEW n \in 0..Len(d)
    PROVE  /\ SubSeq(d, 1, n) \in Seq(Byte) /\ Len(SubSeq(d, 1, n)) = n
           /\ \A i \in 1..n : SubSeq(d, 1, n)[i] = d[i]
           /\ Clean(d) => Clean(SubSeq(d, 1, n))
BY DEF Clean

LEMMA SuffixType ==
    ASSUME NEW d \in Seq(Byte), NEW m \in Nat
    PROVE  /\ SubSeq(d, m + 1, Len(d)) \in Seq(Byte)
           /\ m <= Len(d) => Len(SubSeq(d, m + 1, Len(d))) = Len(d) - m
           /\ m > Len(d) => Len(SubSeq(d, m + 1, Len(d))) = 0
           /\ \A i \in 1..Len(SubSeq(d, m + 1, Len(d))) :
                 SubSeq(d, m + 1, Len(d))[i] = d[m + i]
           /\ Clean(d) => Clean(SubSeq(d, m + 1, Len(d)))
BY DEF Clean

LEMMA ConcatType ==
    ASSUME NEW d \in Seq(Byte), NEW e \in Seq(Byte)
    PROVE  /\ d \o e \in Seq(Byte) /\ Len(d \o e) = Len(d) + Len(e)
           /\ \A i \in 1..Len(d) : (d \o e)[i] = d[i]
           /\ \A i \in (Len(d) + 1)..(Len(d) + Len(e)) : (d \o e)[i] = e[i - Len(d)]
           /\ Clean(d) /\ Clean(e) => Clean(d \o e)
BY DEF Clean

LEMMA BufferType ==
    ASSUME NEW b \in Buffer \cup {<<>>}
    PROVE  b \in Seq(Byte) /\ Clean(b)
<1>1. b \in Seq(User)
  <2>1. <<>> \in Seq(User)
    OBVIOUS
  <2> QED BY <2>1, FileAssumption
<1> QED BY <1>1, FileAssumption DEF Byte, Clean

\* A write that does not begin past the end leaves no undefined byte.
LEMMA WrittenType ==
    ASSUME NEW d \in Seq(Byte), NEW b \in Seq(Byte), NEW p \in 0..Len(d)
    PROVE  /\ Written(d, p, b) \in Seq(Byte)
           /\ Len(Written(d, p, b)) = IF p + Len(b) > Len(d) THEN p + Len(b) ELSE Len(d)
           /\ Clean(d) /\ Clean(b) => Clean(Written(d, p, b))
           /\ \A i \in 1..Len(Written(d, p, b)) :
                 Written(d, p, b)[i] = IF p < i /\ i <= p + Len(b) THEN b[i - p] ELSE d[i]
<1>1. CASE b = <<>>
  BY <1>1 DEF Written
<1>2. CASE b # <<>>
  <2> DEFINE head == SubSeq(d, 1, p)
             tail == SubSeq(d, p + Len(b) + 1, Len(d))
  <2>1. Written(d, p, b) = head \o b \o tail
    <3>1. ~(p > Len(d))
      OBVIOUS
    <3> QED BY <1>2, <3>1, Zenon DEF Written
  <2>2. /\ head \in Seq(Byte) /\ Len(head) = p /\ (Clean(d) => Clean(head))
        /\ \A i \in 1..p : head[i] = d[i]
    BY PrefixType
  <2>8. p + Len(b) \in Nat
    OBVIOUS
  <2>3. /\ tail \in Seq(Byte) /\ (Clean(d) => Clean(tail))
        /\ p + Len(b) <= Len(d) => Len(tail) = Len(d) - (p + Len(b))
        /\ p + Len(b) > Len(d) => Len(tail) = 0
    BY <2>8, SuffixType
  <2>9. \A i \in 1..Len(tail) : tail[i] = d[(p + Len(b)) + i]
    BY <2>8, SuffixType
  <2> HIDE DEF head, tail
  <2>4. /\ head \o b \in Seq(Byte) /\ Len(head \o b) = p + Len(b)
        /\ Clean(d) /\ Clean(b) => Clean(head \o b)
    BY <2>2, ConcatType
  <2>5. /\ head \o b \o tail \in Seq(Byte)
        /\ Len(head \o b \o tail) = p + Len(b) + Len(tail)
        /\ Clean(d) /\ Clean(b) => Clean(head \o b \o tail)
    BY <2>3, <2>4, ConcatType
  <2>6. Len(head \o b \o tail) = IF p + Len(b) > Len(d) THEN p + Len(b) ELSE Len(d)
    BY <2>3, <2>5
  <2>7. ASSUME NEW i \in 1..Len(head \o b \o tail)
        PROVE  (head \o b \o tail)[i] =
                  IF p < i /\ i <= p + Len(b) THEN b[i - p] ELSE d[i]
    <3>1. CASE i <= p
      BY <3>1, <2>2, <2>3, <2>4, <2>5, ConcatType
    <3>2. CASE p < i /\ i <= p + Len(b)
      BY <3>2, <2>2, <2>3, <2>4, <2>5, ConcatType
    <3>3. CASE p + Len(b) < i
      <4> DEFINE j == i - (p + Len(b))
      <4>1. j \in 1..Len(tail) /\ (p + Len(b)) + j = i
        BY <3>3, <2>3, <2>5, <2>8
      <4>2. i \in (Len(head \o b) + 1)..(Len(head \o b) + Len(tail)) /\ i - Len(head \o b) = j
        BY <3>3, <2>3, <2>4, <2>5, <2>8
      <4>3. (head \o b \o tail)[i] = tail[i - Len(head \o b)]
        BY <4>2, <2>3, <2>4, ConcatType, Zenon
      <4>4. tail[j] = d[i]
        BY <4>1, <2>9
      <4>5. ~(i <= p + Len(b))
        BY <3>3, <2>8
      <4> HIDE DEF j
      <4> QED BY <4>2, <4>3, <4>4, <4>5
    <3> QED BY <3>1, <3>2, <3>3
  <2> QED BY <2>1, <2>5, <2>6, <2>7, Zenon
<1> QED BY <1>1, <1>2

\* One WriteFile at a position that is not past the end.
LEMMA WriteFileKeeps ==
    ASSUME NEW b \in Seq(Byte), Clean(b), NEW n \in 0..Len(b), NEW ok \in BOOLEAN,
           data \in Seq(Byte), Len(data) <= Capacity, NoUndefinedByte,
           pos \in 0..Len(data), WriteFile(b, n, ok)
    PROVE  /\ data' \in Seq(Byte) /\ Len(data') <= Capacity /\ NoUndefinedByte'
           /\ pos' = pos + n
           /\ Len(data') = IF pos + n > Len(data) THEN pos + n ELSE Len(data)
           /\ \A i \in 1..Len(data') :
                 data'[i] = IF pos < i /\ i <= pos + n THEN b[i - pos] ELSE data[i]
<1> DEFINE part == SubSeq(b, 1, n)
<1>1. /\ part \in Seq(Byte) /\ Len(part) = n /\ Clean(part)
      /\ \A i \in 1..n : part[i] = b[i]
  BY PrefixType
<1>2. data' = Written(data, pos, part) /\ pos' = pos + n /\ (n > 0 => pos + n <= Capacity)
  BY DEF WriteFile
<1> HIDE DEF part
<1>3. /\ Written(data, pos, part) \in Seq(Byte)
      /\ Len(Written(data, pos, part)) = IF pos + n > Len(data) THEN pos + n ELSE Len(data)
      /\ Clean(Written(data, pos, part))
  BY <1>1, WrittenType DEF NoUndefinedByte, Clean
<1>4. NoUndefinedByte'
  BY <1>2, <1>3 DEF NoUndefinedByte, Clean
<1>5. ASSUME NEW i \in 1..Len(data')
      PROVE  data'[i] = IF pos < i /\ i <= pos + n THEN b[i - pos] ELSE data[i]
  <2>1. data'[i] = IF pos < i /\ i <= pos + n THEN part[i - pos] ELSE data[i]
    BY <1>1, <1>2, WrittenType
  <2> QED BY <1>1, <2>1
<1> QED BY <1>2, <1>3, <1>4, <1>5, FileAssumption

-----------------------------------------------------------------------------
(***************************************************************************)
(* While a write is under way TypeOK puts the position inside the file, so *)
(* NoUndefinedByte is kept; GapIsZero is what the refinement needs.        *)
(***************************************************************************)
ReplyOK(r) == r.ok \in BOOLEAN /\ r.n \in Int /\ r.bytes \in Seq(Byte)

LEMMA ReplyType ==
    ASSUME NEW op, NEW ok \in BOOLEAN, NEW n \in Int, NEW bytes \in Seq(Byte)
    PROVE  ReplyOK(Reply(op, ok, n, bytes))
BY DEF ReplyOK, Reply

CallOK(c, p, d, h) ==
    /\ c \in [active : BOOLEAN, b : Buffer \cup {<<>>}, target : 0..Sentinel,
              fileSize : 0..Sentinel, before : 0..Capacity]
    /\ c.active =>
          /\ h \in OSOpenMode /\ c.b \in Buffer
          /\ c.fileSize = Len(d) /\ c.before <= c.fileSize
          /\ c.before < c.target => p = c.fileSize /\ c.fileSize <= c.target
          /\ c.target <= c.before => p = c.target /\ c.fileSize = c.before
          /\ \A i \in (c.before + 1)..Len(d) : d[i] = "zero"
          /\ h \notin Writable => c.fileSize = c.before

FileOK(e, d, h, p) ==
    /\ e \in BOOLEAN /\ d \in Seq(Byte) /\ Len(d) <= Capacity /\ Clean(d)
    /\ h \in OSOpenMode \cup {"closed", "leaked"} /\ p \in 0..Sentinel

LEMMA IInvParts ==
    /\ IInv <=> FileOK(exists, data, handle, pos) /\ ReplyOK(reply) /\ CallOK(call, pos, data, handle)
    /\ IInv' <=> FileOK(exists', data', handle', pos') /\ ReplyOK(reply')
                    /\ CallOK(call', pos', data', handle')
BY DEF IInv, TypeOK, NoUndefinedByte, GapIsZero, ReadOnlyKept, Open, FileOK, ReplyOK,
       CallOK, Clean

LEMMA EmptyReply ==
    ASSUME NEW op
    PROVE  /\ ReplyOK(Failure(op)) /\ ReplyOK(Success(op))
           /\ \A n \in Int : /\ ReplyOK(Reply(op, TRUE, n, <<>>))
                             /\ ReplyOK(Reply(op, FALSE, n, <<>>))
<1>1. <<>> \in Seq(Byte)
  OBVIOUS
<1> QED BY <1>1 DEF ReplyOK, Reply, Failure, Success

LEMMA EmptyFile ==
    ASSUME FileOK(exists, data, handle, pos), NEW e \in BOOLEAN
    PROVE  FileOK(e, <<>>, handle, pos)
<1>1. <<>> \in Seq(Byte) /\ Len(<<>>) = 0
  OBVIOUS
<1> QED BY <1>1, FileAssumption DEF FileOK, Clean

LEMMA NoCallOK ==
    ASSUME NEW p, NEW d, NEW h
    PROVE  CallOK(NoCall, p, d, h)
BY WordFacts, FileAssumption DEF CallOK, NoCall

LEMMA ReadyCallOK ==
    ASSUME NEW p, NEW d, NEW h, NEW c, NEW q, NEW e, NEW g, CallOK(c, p, d, h), ~c.active
    PROVE  CallOK(c, q, e, g)
BY DEF CallOK

LEMMA InitOK == Init => IInv
<1> SUFFICES ASSUME Init PROVE IInv
  OBVIOUS
<1>1. FileOK(exists, data, handle, pos)
  <2>1. <<>> \in Seq(Byte) /\ Len(<<>>) = 0
    OBVIOUS
  <2>2. 0 \in 0..Sentinel /\ 0 <= Capacity
    BY WordFacts, FileAssumption
  <2>3. Clean(<<>>)
    BY DEF Clean
  <2> QED BY <2>1, <2>2, <2>3 DEF Init, FileOK
<1>2. ReplyOK(reply)
  BY DEF Init, Failure, Reply, ReplyOK
<1>3. CallOK(call, pos, data, handle)
  BY NoCallOK DEF Init
<1> QED BY <1>1, <1>2, <1>3, IInvParts

-----------------------------------------------------------------------------
(***************************************************************************)
(* The operations other than OS_Write: the call stays inactive.            *)
(***************************************************************************)
LEMMA ReadyKeeps ==
    ASSUME IInv, Ready, UNCHANGED call, FileOK(exists', data', handle', pos'),
           ReplyOK(reply')
    PROVE  IInv'
<1>1. CallOK(call, pos, data, handle) /\ ~call.active
  BY IInvParts DEF Ready
<1>2. CallOK(call, pos', data', handle')
  BY <1>1, ReadyCallOK
<1> QED BY <1>2, IInvParts

LEMMA StillKeeps ==
    ASSUME IInv, Ready, UNCHANGED <<file, call>>, ReplyOK(reply')
    PROVE  IInv'
BY ReadyKeeps, IInvParts DEF file

LEMMA RefuseKeeps == ASSUME IInv, NEW op, Refuse(op) PROVE IInv'
<1>1. ReplyOK(Failure(op))
  BY EmptyReply
<1> QED BY <1>1, StillKeeps DEF Refuse

LEMMA CreateKeeps == ASSUME IInv, OS_Create PROVE IInv'
<1>1. CASE Refuse("create")
  BY <1>1, RefuseKeeps
<1>2. CASE ~Refuse("create")
  BY <1>2, EmptyFile, EmptyReply, ReadyKeeps, IInvParts DEF OS_Create
<1> QED BY <1>1, <1>2

LEMMA DeleteKeeps == ASSUME IInv, OS_Delete PROVE IInv'
<1>1. CASE Refuse("delete")
  BY <1>1, RefuseKeeps
<1>2. CASE ~Refuse("delete")
  BY <1>2, EmptyFile, EmptyReply, ReadyKeeps, IInvParts DEF OS_Delete
<1> QED BY <1>1, <1>2

LEMMA OpenKeeps == ASSUME IInv, NEW mode \in OSOpenMode, OS_Open(mode) PROVE IInv'
<1>1. CASE Refuse("open")
  BY <1>1, RefuseKeeps
<1>2. CASE ~Refuse("open")
  <2>1. FileOK(exists, data, handle, pos)
    BY IInvParts
  <2>2. Len(data) \in 0..Sentinel /\ 0 \in 0..Sentinel
    BY <2>1, WordFacts, FileAssumption DEF FileOK
  <2>3. /\ Ready /\ UNCHANGED <<exists, data, call>>
        /\ handle' \in OSOpenMode \cup {"leaked"} /\ pos' \in {0, Len(data)}
        /\ reply' \in {Success("open"), Failure("open")}
    BY <1>2 DEF OS_Open
  <2>4. FileOK(exists', data', handle', pos')
    BY <2>1, <2>2, <2>3 DEF FileOK
  <2> QED BY <2>3, <2>4, EmptyReply, ReadyKeeps
<1> QED BY <1>1, <1>2

LEMMA CloseKeeps == ASSUME IInv, OS_Close PROVE IInv'
<1>1. FileOK(exists, data, "closed", 0)
  BY IInvParts, WordFacts DEF FileOK
<1>2. CASE Refuse("close")
  BY <1>2, RefuseKeeps
<1>3. CASE ~Refuse("close")
  BY <1>1, <1>3, EmptyReply, ReadyKeeps DEF OS_Close
<1> QED BY <1>2, <1>3

LEMMA SliceType ==
    ASSUME NEW d \in Seq(Byte), NEW p \in Nat, NEW n \in Nat
    PROVE  /\ Slice(d, p, n) \in Seq(Byte) /\ Len(Slice(d, p, n)) \in Nat
           /\ Len(Slice(d, p, n)) > 0 => p + Len(Slice(d, p, n)) <= Len(d)
<1>1. CASE p + n < Len(d)
  <2>1. Slice(d, p, n) = SubSeq(d, p + 1, p + n)
    BY <1>1, Zenon DEF Slice
  <2>2. SubSeq(d, p + 1, p + n) \in Seq(Byte) /\ Len(SubSeq(d, p + 1, p + n)) = n
    BY <1>1
  <2> QED BY <1>1, <2>1, <2>2
<1>2. CASE ~(p + n < Len(d))
  <2> DEFINE rest == SubSeq(d, p + 1, Len(d))
  <2>1. Slice(d, p, n) = rest
    BY <1>2, Zenon DEF Slice
  <2>2. /\ rest \in Seq(Byte)
        /\ p <= Len(d) => Len(rest) = Len(d) - p
        /\ p > Len(d) => Len(rest) = 0
    BY SuffixType
  <2> HIDE DEF rest
  <2> QED BY <2>1, <2>2
<1> QED BY <1>1, <1>2

LEMMA ReadKeeps == ASSUME IInv, NEW n \in 0..Sentinel, OS_Read(n) PROVE IInv'
<1>1. CASE Refuse("read")
  BY <1>1, RefuseKeeps
<1>2. CASE ~Refuse("read")
  <2> DEFINE got == Slice(data, pos, n)
  <2>1. FileOK(exists, data, handle, pos) /\ n \in Nat /\ pos \in Nat
    BY IInvParts, WordFacts DEF FileOK
  <2>2. /\ got \in Seq(Byte) /\ Len(got) \in Nat
        /\ Len(got) > 0 => pos + Len(got) <= Len(data)
    BY <2>1, SliceType DEF FileOK
  <2>3. /\ Ready /\ UNCHANGED <<exists, data, handle, call>>
        /\ reply' = Reply("read", TRUE, Len(got), got) /\ pos' = pos + Len(got)
    BY <1>2 DEF OS_Read
  <2> HIDE DEF got
  <2>4. pos' \in 0..Sentinel
    BY <2>1, <2>2, <2>3, WordFacts, FileAssumption DEF FileOK
  <2>5. FileOK(exists', data', handle', pos')
    BY <2>1, <2>3, <2>4 DEF FileOK
  <2>6. ReplyOK(reply')
    <3>1. Len(got) \in Int /\ TRUE \in BOOLEAN
      BY <2>2
    <3> QED BY <2>2, <2>3, <3>1, ReplyType, Zenon
  <2> QED BY <2>3, <2>5, <2>6, ReadyKeeps
<1> QED BY <1>1, <1>2

LEMMA SeekKeeps ==
    ASSUME IInv, NEW how, NEW offset, OS_Seek(how, offset)
    PROVE  IInv'
<1>1. CASE Refuse("seek")
  BY <1>1, RefuseKeeps
<1>2. CASE ~Refuse("seek")
  <2>1. /\ Ready /\ UNCHANGED <<exists, data, handle, call>>
        /\ pos' \in 0..Sentinel /\ reply' = Success("seek")
    BY <1>2 DEF OS_Seek, CanMoveTo
  <2>2. FileOK(exists', data', handle', pos')
    BY <2>1, IInvParts DEF FileOK
  <2> QED BY <2>1, <2>2, EmptyReply, ReadyKeeps
<1> QED BY <1>1, <1>2

LEMMA TellKeeps == ASSUME IInv, OS_Tell PROVE IInv'
<1>1. Signed(pos) \in Int
  BY IInvParts, WordFacts DEF FileOK, Signed
<1>2. ReplyOK(Reply("tell", TRUE, Signed(pos), <<>>))
  BY <1>1, ReplyType, EmptyReply
<1>3. ReplyOK(Reply("tell", FALSE, -1, <<>>))
  <2>1. -1 \in Int
    OBVIOUS
  <2> QED BY <2>1, EmptyReply
<1> QED BY <1>2, <1>3, StillKeeps DEF OS_Tell

LEMMA GetSizeKeeps == ASSUME IInv, OS_GetSize PROVE IInv'
<1>1. Len(data) \in Int
  BY IInvParts DEF FileOK
<1>2. ReplyOK(Reply("size", TRUE, Len(data), <<>>))
  BY <1>1, ReplyType, EmptyReply
<1>3. ReplyOK(Reply("size", FALSE, Sentinel, <<>>))
  <2>1. Sentinel \in Int
    BY WordFacts
  <2> QED BY <2>1, EmptyReply
<1> QED BY <1>2, <1>3, StillKeeps DEF OS_GetSize

LEMMA ResizedType ==
    ASSUME NEW d \in Seq(Byte), NEW n \in Nat
    PROVE  /\ Resized(d, n) \in Seq(Byte) /\ Len(Resized(d, n)) = n
           /\ \A i \in 1..n : i <= Len(d) => Resized(d, n)[i] = d[i]
           /\ Clean(d) => Clean(Resized(d, n))
<1>1. CASE n <= Len(d)
  <2>1. Resized(d, n) = SubSeq(d, 1, n)
    BY <1>1, Zenon DEF Resized
  <2> QED BY <1>1, <2>1, PrefixType
<1>2. CASE ~(n <= Len(d))
  <2> DEFINE more == Copies("extended", n - Len(d))
  <2>1. Resized(d, n) = d \o more
    BY <1>2, Zenon DEF Resized
  <2>2. "extended" \in Byte /\ "extended" # "undefined" /\ n - Len(d) \in Nat
    BY <1>2 DEF Byte
  <2>3. more \in Seq(Byte) /\ Len(more) = n - Len(d) /\ Clean(more)
    BY <2>2, CopiesType DEF Clean
  <2> HIDE DEF more
  <2> QED BY <2>1, <2>3, ConcatType
<1> QED BY <1>1, <1>2

LEMMA SetSizeKeeps == ASSUME IInv, NEW n \in 0..Sentinel, OS_SetSize(n) PROVE IInv'
<1>1. FileOK(exists, data, handle, pos) /\ n \in Nat /\ pos \in 0..Sentinel
  BY IInvParts, WordFacts DEF FileOK
<1>2. /\ Ready /\ UNCHANGED <<exists, handle, call>>
      /\ pos' \in {pos, n} /\ reply' \in {Success("setsize"), Failure("setsize")}
      /\ data' = data \/ (n <= Capacity /\ data' = Resized(data, n))
  BY DEF OS_SetSize
<1>3. data' \in Seq(Byte) /\ Len(data') <= Capacity /\ Clean(data')
  BY <1>1, <1>2, ResizedType DEF FileOK
<1>4. FileOK(exists', data', handle', pos')
  BY <1>1, <1>2, <1>3 DEF FileOK
<1> QED BY <1>2, <1>4, EmptyReply, ReadyKeeps

-----------------------------------------------------------------------------
(***************************************************************************)
(* OS_Write.                                                               *)
(***************************************************************************)
LEMMA StartCallOK ==
    ASSUME IInv, Open, NEW b \in Buffer, NEW p, StartCall(b),
           pos # Sentinel,
           IF pos > Len(data) THEN p = Len(data) ELSE p = pos
    PROVE  CallOK(call', p, data, handle)
<1>1. Len(data) \in 0..Capacity /\ pos \in 0..Sentinel
  BY IInvParts DEF FileOK
<1>2. Len(data) \in 0..Sentinel
  BY <1>1, WordFacts, FileAssumption
<1> QED BY <1>1, <1>2, IInvParts DEF StartCall, CallOK, FileOK, Open

LEMMA WriteKeeps == ASSUME IInv, NEW b \in Buffer, OS_Write(b) PROVE IInv'
<1>1. /\ FileOK(exists, data, handle, pos) /\ ReplyOK(reply) /\ CallOK(call, pos, data, handle)
      /\ UNCHANGED <<exists, data, handle>> /\ Ready /\ Open /\ Len(data) \in 0..Sentinel
      /\ Len(b) \in Int
  <2>1. Len(data) \in 0..Sentinel
    BY IInvParts, WordFacts, FileAssumption DEF FileOK
  <2>2. Len(b) \in Int
    BY BufferType
  <2> QED BY <2>1, <2>2, IInvParts DEF OS_Write
<1>2. CASE UNCHANGED <<pos, call>> /\ ReplyOK(reply')
  BY <1>1, <1>2, StillKeeps DEF file
<1>3. CASE StartCall(b) /\ UNCHANGED reply /\ pos # Sentinel
             /\ IF pos > Len(data) THEN pos' = Len(data) ELSE pos' = pos
  <2>1. CallOK(call', pos', data, handle)
    BY <1>1, <1>3, StartCallOK
  <2>2. FileOK(exists', data', handle', pos')
    BY <1>1, <1>3 DEF FileOK
  <2> QED BY <1>1, <1>3, <2>1, <2>2, IInvParts
<1>4. ReplyOK(Reply("write", TRUE, Len(b), <<>>)) /\ ReplyOK(Failure("write"))
  BY <1>1, EmptyReply
<1>5. Len(data) \in Nat /\ pos \in Nat
  BY <1>1, WordFacts DEF FileOK
<1>6. CASE pos = Sentinel
  <2>1. reply' = Reply("write", TRUE, Len(b), <<>>) /\ UNCHANGED <<pos, call>>
    BY <1>6, Zenon DEF OS_Write
  <2> QED BY <1>2, <1>4, <2>1
<1>7. CASE pos # Sentinel /\ pos <= Len(data)
  <2>1. ~(pos > Len(data))
    BY <1>5, <1>7
  <2>2. StartCall(b) /\ UNCHANGED <<pos, reply>>
    BY <1>7, <2>1, Zenon DEF OS_Write
  <2> QED BY <1>3, <1>7, <2>1, <2>2
<1>8. CASE pos # Sentinel /\ pos > Len(data)
  <2>1. ~(pos <= Len(data))
    BY <1>5, <1>8
  <2>2. \/ StartCall(b) /\ pos' = Len(data) /\ UNCHANGED reply
        \/ reply' = Failure("write") /\ UNCHANGED <<pos, call>>
    BY <1>8, <2>1, Zenon DEF OS_Write
  <2> QED BY <1>2, <1>3, <1>4, <1>8, <2>2
<1> QED BY <1>5, <1>6, <1>7, <1>8

\* The chunk is not empty and not more than the gap.
LEMMA ChunkSize ==
    ASSUME NEW gap \in Nat \ {0}
    PROVE  BytesToWrite(gap) \in 1..gap
BY FileAssumption DEF BytesToWrite

LEMMA AnswerKeeps ==
    ASSUME FileOK(exists', data', handle', pos'), NEW r, ReplyOK(r), Answer(r)
    PROVE  IInv'
BY NoCallOK, IInvParts DEF Answer

\* What the next chunk of the gap does: k zeros are added to the file.
GapChunk == BytesToWrite(call.target - call.fileSize)

FillEffect(k) ==
    /\ data' \in Seq(Byte) /\ Len(data') <= Capacity /\ NoUndefinedByte'
    /\ pos' = pos + k /\ Len(data') = Len(data) + k
    /\ \A i \in 1..Len(data) : data'[i] = data[i]
    /\ \A i \in (Len(data) + 1)..Len(data') : data'[i] = "zero"

LEMMA FillGapState ==
    ASSUME IInv, FillGap
    PROVE  /\ FileOK(exists, data, handle, pos) /\ ReplyOK(reply)
           /\ CallOK(call, pos, data, handle)
           /\ call.active /\ call.target > call.fileSize /\ UNCHANGED <<exists, handle>>
           /\ pos = Len(data) /\ call.fileSize = Len(data) /\ Len(data) \in Nat
           /\ call.target \in 0..Sentinel /\ call.before <= Len(data)
           /\ call.before \in 0..Capacity /\ call.before < call.target
           /\ call \in [active : BOOLEAN, b : Buffer \cup {<<>>}, target : 0..Sentinel,
                        fileSize : 0..Sentinel, before : 0..Capacity]
           /\ GapChunk \in 1..(call.target - call.fileSize)
<1>1. /\ FileOK(exists, data, handle, pos) /\ ReplyOK(reply)
      /\ CallOK(call, pos, data, handle)
      /\ call.active /\ call.target > call.fileSize /\ UNCHANGED <<exists, handle>>
  BY IInvParts DEF FillGap
<1>2. /\ pos = Len(data) /\ call.fileSize = Len(data) /\ Len(data) \in Nat
      /\ call.target \in 0..Sentinel /\ call.before <= Len(data) /\ call.before \in 0..Capacity
      /\ call.before < call.target
      /\ call \in [active : BOOLEAN, b : Buffer \cup {<<>>}, target : 0..Sentinel,
                   fileSize : 0..Sentinel, before : 0..Capacity]
  BY <1>1, WordFacts, FileAssumption DEF CallOK, FileOK
<1>3. GapChunk \in 1..(call.target - call.fileSize)
  BY <1>1, <1>2, ChunkSize, WordFacts DEF GapChunk
<1> QED BY <1>1, <1>2, <1>3

LEMMA FillGapEffect ==
    ASSUME IInv, FillGap
    PROVE  \E k \in 0..GapChunk, ok \in BOOLEAN :
              /\ FillEffect(k)
              /\ handle \notin Writable => k = 0 /\ ~ok
              /\ \/ ~ok /\ Answer(Failure("write"))
                 \/ ok /\ k < GapChunk /\ Answer(Reply("write", TRUE, 0, <<>>))
                 \/ ok /\ k = GapChunk /\ call' = [call EXCEPT !.fileSize = @ + GapChunk] /\ UNCHANGED reply
<1> DEFINE n == GapChunk
           zeros == Copies("zero", n)
<1>1. /\ FileOK(exists, data, handle, pos) /\ pos = Len(data)
      /\ Len(data) \in Nat /\ call.fileSize = Len(data) /\ call.target \in 0..Sentinel
  BY FillGapState
<1>2. pos = Len(data) /\ Len(data) \in Nat
  BY <1>1
<1>3. n \in 1..(call.target - call.fileSize) /\ n \in Nat
  BY <1>1, FillGapState, WordFacts
<1>5. PICK k \in 0..n, ok \in BOOLEAN :
        /\ WriteFile(zeros, k, ok)
        /\ \/ ~ok /\ Answer(Failure("write"))
           \/ ok /\ k < n /\ Answer(Reply("write", TRUE, 0, <<>>))
           \/ ok /\ k = n /\ call' = [call EXCEPT !.fileSize = @ + n] /\ UNCHANGED reply
  BY DEF FillGap, GapChunk
<1> HIDE DEF n
<1>4. /\ zeros \in Seq(Byte) /\ Len(zeros) = n /\ Clean(zeros)
      /\ \A i \in 1..n : zeros[i] = "zero"
  <2>1. "zero" \in Byte /\ "zero" # "undefined" /\ n \in Nat
    BY <1>3, <1>2, WordFacts DEF Byte
  <2> QED BY <2>1, CopiesType DEF Clean
<1> HIDE DEF zeros
<1>6. FillEffect(k)
  <2>1. /\ data \in Seq(Byte) /\ Len(data) <= Capacity /\ NoUndefinedByte
        /\ pos \in 0..Len(data) /\ k \in 0..Len(zeros) /\ k \in Nat
    BY <1>1, <1>2, <1>3, <1>4 DEF FileOK, IInv
  <2>2. /\ data' \in Seq(Byte) /\ Len(data') <= Capacity /\ NoUndefinedByte'
        /\ pos' = pos + k
        /\ Len(data') = IF pos + k > Len(data) THEN pos + k ELSE Len(data)
        /\ \A i \in 1..Len(data') :
              data'[i] = IF pos < i /\ i <= pos + k THEN zeros[i - pos] ELSE data[i]
    BY <2>1, <1>4, <1>5, WriteFileKeeps, Zenon
  <2>3. n \in Nat /\ Len(data') = Len(data) + k
    BY <2>1, <2>2, <1>2, <1>3, WordFacts
  <2>4. ASSUME NEW i \in 1..Len(data) PROVE data'[i] = data[i]
    BY <2>1, <2>2, <2>3, <1>2
  <2>5. ASSUME NEW i \in (Len(data) + 1)..Len(data') PROVE data'[i] = "zero"
    <3>1. i - pos \in 1..n /\ pos < i /\ i <= pos + k /\ i \in 1..Len(data')
      BY <2>1, <2>3, <1>2, <1>4
    <3>2. data'[i] = zeros[i - pos]
      BY <2>2, <3>1, Zenon
    <3> QED BY <3>1, <3>2, <1>4, Zenon
  <2> QED BY <2>2, <2>3, <2>4, <2>5, Zenon DEF FillEffect
<1>7. handle \notin Writable => k = 0 /\ ~ok
  BY <1>5 DEF WriteFile
<1> QED BY <1>5, <1>6, <1>7 DEF n

LEMMA FillGapKeeps == ASSUME IInv, FillGap PROVE IInv'
<1> DEFINE n == GapChunk
<1>1. /\ FileOK(exists, data, handle, pos) /\ ReplyOK(reply)
      /\ CallOK(call, pos, data, handle)
      /\ call.active /\ call.target > call.fileSize /\ UNCHANGED <<exists, handle>>
  BY FillGapState
<1>2. /\ pos = Len(data) /\ call.fileSize = Len(data) /\ Len(data) \in Nat
      /\ call.target \in 0..Sentinel /\ call.before <= Len(data) /\ call.before \in 0..Capacity
      /\ call.before < call.target
      /\ call \in [active : BOOLEAN, b : Buffer \cup {<<>>}, target : 0..Sentinel,
                   fileSize : 0..Sentinel, before : 0..Capacity]
  BY FillGapState
<1>3. n \in 1..(call.target - call.fileSize)
  BY FillGapState
<1>5. PICK k \in 0..n, ok \in BOOLEAN :
        /\ FillEffect(k)
        /\ handle \notin Writable => k = 0 /\ ~ok
        /\ \/ ~ok /\ Answer(Failure("write"))
           \/ ok /\ k < n /\ Answer(Reply("write", TRUE, 0, <<>>))
           \/ ok /\ k = n /\ call' = [call EXCEPT !.fileSize = @ + n] /\ UNCHANGED reply
  BY FillGapEffect
<1> HIDE DEF n
<1>6. FillEffect(k)
  BY <1>5
<1>7. FileOK(exists', data', handle', pos')
  <2>1. pos' \in 0..Sentinel
    BY <1>2, <1>3, <1>6, WordFacts DEF FillEffect
  <2> QED BY <1>1, <1>6, <2>1 DEF FileOK, NoUndefinedByte, Clean, FillEffect
<1>8. CASE Answer(Failure("write")) \/ Answer(Reply("write", TRUE, 0, <<>>))
  <2>1. ReplyOK(Failure("write")) /\ ReplyOK(Reply("write", TRUE, 0, <<>>))
    <3>1. 0 \in Int
      OBVIOUS
    <3> QED BY <3>1, EmptyReply, Zenon
  <2> QED BY <1>7, <1>8, <2>1, AnswerKeeps
<1>9. CASE ok /\ k = n /\ call' = [call EXCEPT !.fileSize = @ + n] /\ UNCHANGED reply
  <2>1. /\ call.fileSize + n \in 0..Sentinel /\ call.fileSize + n <= call.target
        /\ call.fileSize + n \in Nat
    BY <1>2, <1>3, WordFacts
  <2>3. /\ call' \in [active : BOOLEAN, b : Buffer \cup {<<>>}, target : 0..Sentinel,
                      fileSize : 0..Sentinel, before : 0..Capacity]
        /\ call'.b = call.b /\ call'.fileSize = call.fileSize + n /\ call'.target = call.target
        /\ call'.before = call.before
    BY <1>2, <1>9, <2>1
  <2>4. ASSUME NEW i \in (call'.before + 1)..Len(data') PROVE data'[i] = "zero"
    <3>1. CASE i <= Len(data)
      BY <3>1, <1>1, <1>2, <1>6, <2>3 DEF CallOK, FillEffect
    <3>2. CASE i > Len(data)
      BY <3>2, <1>2, <1>6, <2>3 DEF FillEffect
    <3> QED BY <3>1, <3>2, <1>2, <2>3, <1>6 DEF FillEffect
  <2>5. /\ call'.fileSize = Len(data') /\ call'.before <= call'.fileSize
        /\ pos' = call'.fileSize /\ call'.fileSize <= call'.target
        /\ ~(call'.target <= call'.before)
    BY <1>2, <1>3, <1>6, <1>9, <2>1, <2>3, WordFacts DEF FillEffect
  <2>6. handle' \in Writable /\ handle' \in OSOpenMode /\ call'.b \in Buffer
    BY <1>1, <1>5, <1>9, <2>3 DEF CallOK
  <2>2. CallOK(call', pos', data', handle')
    BY <2>3, <2>4, <2>5, <2>6 DEF CallOK
  <2> QED BY <1>1, <1>7, <1>9, <2>2, IInvParts
<1>10. ~ok \/ (ok /\ k < n) \/ (ok /\ k = n)
  BY <1>2, <1>3, WordFacts
<1> QED BY <1>5, <1>8, <1>9, <1>10

LEMMA PutBytesKeeps == ASSUME IInv, PutBytes PROVE IInv'
<1>1. /\ FileOK(exists, data, handle, pos) /\ CallOK(call, pos, data, handle)
      /\ call.active /\ call.target <= call.fileSize /\ UNCHANGED <<exists, handle>>
  BY IInvParts DEF PutBytes
<1>2. pos \in 0..Len(data) /\ call.b \in Buffer \cup {<<>>}
  BY <1>1, WordFacts, FileAssumption DEF CallOK, FileOK
<1>3. call.b \in Seq(Byte) /\ Clean(call.b)
  BY <1>2, BufferType
<1>4. PICK k \in 0..Len(call.b), ok \in BOOLEAN :
        /\ WriteFile(call.b, k, ok)
        /\ Answer(IF ok THEN Reply("write", TRUE, k, <<>>) ELSE Failure("write"))
  BY DEF PutBytes
<1>5. /\ data' \in Seq(Byte) /\ Len(data') <= Capacity /\ NoUndefinedByte'
      /\ pos' = pos + k /\ pos' <= Len(data')
  <2>1. data \in Seq(Byte) /\ Len(data) <= Capacity /\ NoUndefinedByte
    BY <1>1 DEF FileOK, IInv
  <2> QED BY <2>1, <1>2, <1>3, <1>4, WriteFileKeeps
<1>6. FileOK(exists', data', handle', pos')
  <2>1. pos' \in 0..Sentinel
    BY <1>2, <1>4, <1>5, WordFacts, FileAssumption
  <2> QED BY <1>1, <1>5, <2>1 DEF FileOK, NoUndefinedByte, Clean
<1>7. ReplyOK(Failure("write")) /\ ReplyOK(Reply("write", TRUE, k, <<>>))
  <2>1. k \in Int
    BY <1>3
  <2> QED BY <2>1, EmptyReply
<1> QED BY <1>4, <1>6, <1>7, AnswerKeeps

LEMMA CrashKeeps == ASSUME IInv, Crash PROVE IInv'
<1>1. FileOK(exists', data', handle', pos')
  BY IInvParts, WordFacts DEF Crash, FileOK
<1>2. Answer(Failure("none"))
  BY DEF Crash, Answer
<1> QED BY <1>1, <1>2, EmptyReply, AnswerKeeps

-----------------------------------------------------------------------------
LEMMA NextKeeps == ASSUME IInv, [Next]_vars PROVE IInv'
<1>1. CASE OS_Create \/ OS_Delete \/ OS_Close \/ OS_Tell \/ OS_GetSize
  BY <1>1, CreateKeeps, DeleteKeeps, CloseKeeps, TellKeeps, GetSizeKeeps
<1>2. CASE \E mode \in OSOpenMode : OS_Open(mode)
  BY <1>2, OpenKeeps
<1>3. CASE \E n \in 0..Sentinel : OS_Read(n) \/ OS_SetSize(n)
  BY <1>3, ReadKeeps, SetSizeKeeps
<1>4. CASE \E how \in {"OSSeekRel", "OSSeekAbs", "OSSeekEnd"}, n \in 0..Sentinel :
              OS_Seek(how, Signed(n))
  BY <1>4, SeekKeeps
<1>5. CASE \E b \in Buffer : OS_Write(b)
  BY <1>5, WriteKeeps
<1>6. CASE Step
  BY <1>6, FillGapKeeps, PutBytesKeeps DEF Step
<1>7. CASE Crash
  BY <1>7, CrashKeeps
<1>8. CASE UNCHANGED vars
  BY <1>8, IInvParts DEF vars
<1> QED BY <1>1, <1>2, <1>3, <1>4, <1>5, <1>6, <1>7, <1>8 DEF Next

\* The invariant behind the two theorems.
THEOREM IInvHolds == Spec => []IInv
<1>1. IInv /\ [Next]_vars => IInv'
  BY NextKeeps
<1> QED BY InitOK, <1>1, PTL DEF Spec

\* Types, and the position of a write that is filling a gap, whatever fails.
THEOREM TypeCorrect == Spec => []TypeOK
<1>1. IInv => TypeOK
  BY DEF IInv
<1> QED BY IInvHolds, <1>1, PTL

\* A write past the end of a file of any length, by any gap and with any
\* system call failing or the process killed, leaves no undefined byte.
THEOREM NoUndefinedByteHolds == Spec => []NoUndefinedByte
<1>1. IInv => NoUndefinedByte
  BY DEF IInv
<1> QED BY IInvHolds, <1>1, PTL

-----------------------------------------------------------------------------
(***************************************************************************)
(* The refinement.  An operation other than OS_Write is its promise; the   *)
(* steps of OS_Write before the last are stutters, and the last one is     *)
(* AbsWrite, with the zeros of the gap found by GapIsZero.                 *)
(***************************************************************************)
Simulated == Promise!AbsNext \/ UNCHANGED Promise!absVars

\* The promise sees the file itself when no write is under way.
LEMMA ReadyView ==
    ASSUME Ready, UNCHANGED call
    PROVE  DataBefore = data /\ PosBefore = pos /\ DataBefore' = data' /\ PosBefore' = pos'
BY DEF Ready, DataBefore, PosBefore

LEMMA RefuseSim ==
    ASSUME NEW op \in {"create", "delete", "open", "close", "read", "write", "seek", "setsize"},
           Refuse(op)
    PROVE  Simulated
<1>1. Ready /\ UNCHANGED <<exists, data, handle, pos, call>> /\ reply' = Failure(op)
  BY DEF Refuse, file
<1>2. Promise!AbsRefuse(op)
  BY <1>1, ReadyView
     DEF Promise!AbsRefuse, Promise!fileVars, Promise!Failure, Promise!Reply, Failure, Reply
<1> QED BY <1>2 DEF Simulated, Promise!AbsNext

LEMMA CreateSim == ASSUME OS_Create PROVE Simulated
<1>1. CASE Refuse("create")
  BY <1>1, RefuseSim
<1>2. CASE ~Refuse("create")
  <2>1. Promise!AbsCreate
    BY <1>2, ReadyView DEF OS_Create, Promise!AbsCreate, Promise!Reply, Success, Reply
  <2> QED BY <2>1 DEF Simulated, Promise!AbsNext
<1> QED BY <1>1, <1>2

LEMMA DeleteSim == ASSUME OS_Delete PROVE Simulated
<1>1. CASE Refuse("delete")
  BY <1>1, RefuseSim
<1>2. CASE ~Refuse("delete")
  <2>1. Promise!AbsDelete
    BY <1>2, ReadyView DEF OS_Delete, Promise!AbsDelete, Promise!Reply, Success, Reply
  <2> QED BY <2>1 DEF Simulated, Promise!AbsNext
<1> QED BY <1>1, <1>2

LEMMA OpenSim == ASSUME NEW mode \in OSOpenMode, OS_Open(mode) PROVE Simulated
<1>1. CASE Refuse("open")
  BY <1>1, RefuseSim
<1>2. CASE ~Refuse("open")
  <2>1. Promise!AbsOpen(mode)
    BY <1>2, ReadyView
       DEF OS_Open, Promise!AbsOpen, Promise!Reply, Promise!Failure, Success, Failure, Reply
  <2> QED BY <2>1 DEF Simulated, Promise!AbsNext, OSOpenMode
<1> QED BY <1>1, <1>2

LEMMA OpenHandle ==
    ASSUME Open
    PROVE  handle \notin {"closed", "leaked"}
BY DEF Open, OSOpenMode

LEMMA CloseSim == ASSUME OS_Close PROVE Simulated
<1>1. CASE Refuse("close")
  BY <1>1, RefuseSim
<1>2. CASE ~Refuse("close")
  <2>1. Promise!AbsClose
    BY <1>2, ReadyView, OpenHandle DEF OS_Close, Promise!AbsClose, Promise!Reply, Success, Reply
  <2> QED BY <2>1 DEF Simulated, Promise!AbsNext
<1> QED BY <1>1, <1>2

LEMMA ReadSim == ASSUME NEW n \in 0..Sentinel, OS_Read(n) PROVE Simulated
<1>1. CASE Refuse("read")
  BY <1>1, RefuseSim
<1>2. CASE ~Refuse("read")
  <2>1. Promise!Slice(data, pos, n) = Slice(data, pos, n)
    BY DEF Promise!Slice, Slice
  <2>2. Promise!AbsRead(n)
    BY <1>2, <2>1, ReadyView DEF OS_Read, Promise!AbsRead, Promise!Reply, Reply, Readable
  <2> QED BY <2>2 DEF Simulated, Promise!AbsNext, Promise!Blind, Sentinel
<1> QED BY <1>1, <1>2

LEMMA SeekSim == ASSUME NEW how, NEW offset, OS_Seek(how, offset) PROVE Simulated
<1>1. CASE Refuse("seek")
  BY <1>1, RefuseSim
<1>2. CASE ~Refuse("seek")
  <2>1. /\ Ready /\ Open /\ UNCHANGED <<exists, data, handle, call>>
        /\ pos' \in 0..Sentinel /\ reply' = Success("seek")
    BY <1>2 DEF OS_Seek, CanMoveTo
  <2>2. Promise!AbsSeek
    BY <2>1, ReadyView, OpenHandle
       DEF Promise!AbsSeek, Promise!Blind, Sentinel, Promise!Reply, Success, Reply
  <2> QED BY <2>2 DEF Simulated, Promise!AbsNext
<1> QED BY <1>1, <1>2

LEMMA TellSim == ASSUME OS_Tell PROVE Simulated
<1>1. /\ Ready /\ Open /\ UNCHANGED <<exists, data, handle, pos, call>>
      /\ \/ reply' = Reply("tell", TRUE, Signed(pos), <<>>)
         \/ reply' = Reply("tell", FALSE, -1, <<>>)
  BY DEF OS_Tell, file
<1>2. Signed(pos) \in {pos, pos - Word}
  BY DEF Signed
<1>3. Promise!AbsTell
  BY <1>1, <1>2, ReadyView, OpenHandle
     DEF Promise!AbsTell, Promise!fileVars, Promise!Reply, Reply
<1> QED BY <1>3 DEF Simulated, Promise!AbsNext

LEMMA GetSizeSim == ASSUME OS_GetSize PROVE Simulated
<1>1. /\ Ready /\ Open /\ UNCHANGED <<exists, data, handle, pos, call>>
      /\ \/ reply' = Reply("size", TRUE, Len(data), <<>>)
         \/ reply' = Reply("size", FALSE, Sentinel, <<>>)
  BY DEF OS_GetSize, file
<1>2. Promise!AbsGetSize
  BY <1>1, ReadyView, OpenHandle
     DEF Promise!AbsGetSize, Promise!fileVars, Promise!Reply, Promise!Blind, Sentinel, Reply
<1> QED BY <1>2 DEF Simulated, Promise!AbsNext

LEMMA SetSizeSim ==
    ASSUME IInv, NEW n \in 0..Sentinel, OS_SetSize(n)
    PROVE  Simulated
<1>1. /\ Ready /\ UNCHANGED <<exists, handle, call>> /\ handle \notin {"closed", "leaked"}
  BY OpenHandle DEF OS_SetSize
<1>2. data \in Seq(Byte) /\ n \in Nat
  BY IInvParts, WordFacts DEF FileOK
<1>3. CASE UNCHANGED <<data, pos>> /\ pos = Sentinel /\ reply' = Success("setsize")
  <2>1. Promise!AbsSetSize(n)
    BY <1>1, <1>3, ReadyView
       DEF Promise!AbsSetSize, Promise!Blind, Sentinel, Promise!Reply, Success, Reply
  <2> QED BY <2>1 DEF Simulated, Promise!AbsNext, Promise!Blind, Sentinel
<1>4. CASE data' = data /\ pos' \in {pos, n} /\ reply' = Failure("setsize")
  <2>1. Promise!AbsSetSize(n)
    BY <1>1, <1>4, ReadyView
       DEF Promise!AbsSetSize, Promise!Failure, Promise!Reply, Failure, Reply
  <2> QED BY <2>1 DEF Simulated, Promise!AbsNext, Promise!Blind, Sentinel
<1>5. CASE /\ data' = Resized(data, n)
           /\ \/ pos' = pos /\ reply' = Success("setsize")
              \/ pos' = n /\ reply' = Failure("setsize")
  <2>1. Len(data') = n /\ \A i \in 1..n : i <= Len(data) => data'[i] = data[i]
    BY <1>2, <1>5, ResizedType
  <2>2. Promise!AbsSetSize(n)
    BY <1>1, <1>5, <2>1, ReadyView
       DEF Promise!AbsSetSize, Promise!Failure, Promise!Reply, Success, Failure, Reply
  <2> QED BY <2>2 DEF Simulated, Promise!AbsNext, Promise!Blind, Sentinel
<1> QED BY <1>3, <1>4, <1>5 DEF OS_SetSize

LEMMA SameBytes ==
    ASSUME NEW s \in Seq(Byte), NEW t \in Seq(Byte), Len(s) = Len(t),
           \A i \in 1..Len(s) : s[i] = t[i]
    PROVE  s = t
OBVIOUS

\* The padding of the promise, element by element.
LEMMA PaddedType ==
    ASSUME NEW d \in Seq(Byte), NEW n \in Nat
    PROVE  /\ Promise!Padded(d, n) \in Seq(Byte)
           /\ Len(Promise!Padded(d, n)) = IF n > Len(d) THEN n ELSE Len(d)
           /\ \A i \in 1..Len(Promise!Padded(d, n)) :
                 Promise!Padded(d, n)[i] = IF i <= Len(d) THEN d[i] ELSE "zero"
<1>1. CASE n > Len(d)
  <2> DEFINE zs == Copies("zero", n - Len(d))
  <2>1. Promise!Padded(d, n) = d \o zs
    BY <1>1 DEF Promise!Padded, Promise!Zeros, Copies
  <2>2. "zero" \in Byte /\ n - Len(d) \in Nat
    BY <1>1 DEF Byte
  <2>3. /\ zs \in Seq(Byte) /\ Len(zs) = n - Len(d)
        /\ \A i \in 1..(n - Len(d)) : zs[i] = "zero"
    BY <2>2, CopiesType
  <2> HIDE DEF zs
  <2> QED BY <1>1, <2>1, <2>2, <2>3
<1>2. CASE ~(n > Len(d))
  <2>1. Promise!Padded(d, n) = d
    BY <1>2, Zenon DEF Promise!Padded
  <2> QED BY <1>2, <2>1
<1> QED BY <1>1, <1>2

\* Overwriting at a position inside the file is what WriteFile does there.
LEMMA OverwriteIsWritten ==
    ASSUME NEW d \in Seq(Byte), NEW b \in Seq(Byte), NEW p \in 0..Len(d)
    PROVE  Promise!Overwrite(d, p, b) = Written(d, p, b)
<1>1. CASE b = <<>>
  <2> DEFINE head == SubSeq(d, 1, p)
             rest == SubSeq(d, p + 1, Len(d))
  <2>1. Promise!Overwrite(d, p, b) = head \o <<>> \o rest
    <3>1. p + Len(<<>>) + 1 = p + 1
      OBVIOUS
    <3> QED BY <1>1, <3>1, Zenon DEF Promise!Overwrite
  <2>2. /\ head \in Seq(Byte) /\ Len(head) = p /\ \A i \in 1..p : head[i] = d[i]
    BY PrefixType
  <2>3. /\ rest \in Seq(Byte) /\ Len(rest) = Len(d) - p
        /\ \A i \in 1..Len(rest) : rest[i] = d[p + i]
    <3>1. p \in Nat /\ p <= Len(d)
      OBVIOUS
    <3> QED BY <3>1, SuffixType, Zenon
  <2> HIDE DEF head, rest
  <2>4. head \o <<>> = head
    BY <2>2
  <2>5. /\ head \o rest \in Seq(Byte) /\ Len(head \o rest) = Len(d)
        /\ \A i \in 1..Len(head \o rest) : (head \o rest)[i] = d[i]
    <3>1. head \o rest \in Seq(Byte) /\ Len(head \o rest) = Len(d)
      <4>1. head \o rest \in Seq(Byte) /\ Len(head \o rest) = Len(head) + Len(rest)
        BY <2>2, <2>3, ConcatType
      <4>2. p + (Len(d) - p) = Len(d)
        OBVIOUS
      <4> QED BY <4>1, <4>2, <2>2, <2>3
    <3>2. ASSUME NEW i \in 1..Len(d) PROVE (head \o rest)[i] = d[i]
      <4>1. CASE i <= p
        BY <4>1, <2>2, <2>3, ConcatType
      <4>2. CASE i > p
        <5>1. i - p \in 1..Len(rest) /\ p + (i - p) = i /\ i \in (p + 1)..(p + Len(rest))
          BY <4>2, <2>3
        <5>2. (head \o rest)[i] = rest[i - p]
          BY <2>2, <2>3, <5>1, ConcatType
        <5>3. rest[i - p] = d[p + (i - p)]
          BY <5>1, <2>3, Zenon
        <5> QED BY <5>1, <5>2, <5>3
      <4>3. i <= p \/ i > p
        OBVIOUS
      <4> QED BY <4>1, <4>2, <4>3
    <3> QED BY <3>1, <3>2
  <2>6. head \o rest = d
    BY <2>5, SameBytes
  <2>7. Written(d, p, b) = d
    BY <1>1 DEF Written
  <2> QED BY <2>1, <2>4, <2>6, <2>7
<1>2. CASE b # <<>>
  <2>1. ~(p > Len(d))
    OBVIOUS
  <2> QED BY <1>2, <2>1, Zenon DEF Promise!Overwrite, Written
<1> QED BY <1>1, <1>2

\* While a write is under way the file is what it was, padded with zeros.
LEMMA GapView ==
    ASSUME IInv, call.active
    PROVE  /\ DataBefore \in Seq(Byte) /\ Len(DataBefore) = call.before
           /\ PosBefore = call.target /\ call.before \in Nat /\ call.target \in Nat
           /\ \A i \in 1..call.before : DataBefore[i] = data[i]
           /\ data = Promise!Padded(DataBefore, Len(data))
<1>1. /\ data \in Seq(Byte) /\ call.before \in 0..Len(data)
      /\ \A i \in (call.before + 1)..Len(data) : data[i] = "zero"
      /\ call.target \in Nat
  BY IInvParts, WordFacts, FileAssumption DEF FileOK, CallOK
<1>2. DataBefore = SubSeq(data, 1, call.before) /\ PosBefore = call.target
  BY DEF DataBefore, PosBefore
<1>3. /\ DataBefore \in Seq(Byte) /\ Len(DataBefore) = call.before
      /\ \A i \in 1..call.before : DataBefore[i] = data[i]
  BY <1>1, <1>2, PrefixType
<1>4. data = Promise!Padded(DataBefore, Len(data))
  <2> DEFINE padded == Promise!Padded(DataBefore, Len(data))
  <2>1. /\ padded \in Seq(Byte)
        /\ Len(padded) = IF Len(data) > Len(DataBefore) THEN Len(data) ELSE Len(DataBefore)
        /\ \A i \in 1..Len(padded) :
              padded[i] = IF i <= Len(DataBefore) THEN DataBefore[i] ELSE "zero"
    BY <1>1, <1>3, PaddedType
  <2> HIDE DEF padded
  <2>2. Len(padded) = Len(data)
    BY <1>1, <1>3, <2>1
  <2>3. ASSUME NEW i \in 1..Len(data) PROVE data[i] = padded[i]
    BY <1>1, <1>3, <2>1, <2>2
  <2>4. data = padded
    BY <1>1, <2>1, <2>2, <2>3, SameBytes
  <2> QED BY <2>4 DEF padded
<1> QED BY <1>1, <1>2, <1>3, <1>4

LEMMA CrashSim == ASSUME IInv, Crash PROVE Simulated
<1>1. /\ handle' = "closed" /\ PosBefore' = 0 /\ reply' = Failure("none")
      /\ DataBefore' = data /\ UNCHANGED exists
  BY DEF Crash, DataBefore, PosBefore, NoCall
<1>2. \E n \in 0..Capacity : n <= PosBefore /\ data = Promise!Padded(DataBefore, n)
  <2>1. CASE ~call.active
    <3>1. data \in Seq(Byte) /\ pos \in Nat /\ DataBefore = data /\ PosBefore = pos
      BY <2>1, IInvParts, WordFacts DEF FileOK, DataBefore, PosBefore
    <3>2. ~(0 > Len(data))
      BY <3>1
    <3>3. Promise!Padded(data, 0) = data
      BY <3>2 DEF Promise!Padded
    <3>4. 0 \in 0..Capacity /\ 0 <= pos
      BY <3>1, FileAssumption
    <3> QED BY <3>1, <3>3, <3>4
  <2>2. CASE call.active /\ call.before < call.target
    <3>1. Len(data) \in 0..Capacity /\ Len(data) <= call.target
      BY <2>2, IInvParts, FileAssumption DEF CallOK, FileOK
    <3> QED BY <2>2, <3>1, GapView
  <2>3. CASE call.active /\ ~(call.before < call.target)
    <3>1. /\ Len(data) = call.before /\ call.before \in Nat /\ call.target \in Nat
      BY <2>3, IInvParts, WordFacts, FileAssumption DEF CallOK, FileOK
    <3>2. Len(DataBefore) = call.before /\ data = Promise!Padded(DataBefore, Len(data))
          /\ PosBefore = call.target
      BY <2>3, GapView
    <3>3. ~(Len(data) > Len(DataBefore)) /\ ~(0 > Len(DataBefore))
      BY <3>1, <3>2
    <3>4. Promise!Padded(DataBefore, 0) = DataBefore /\ data = DataBefore
      BY <3>2, <3>3, Zenon DEF Promise!Padded
    <3>5. 0 \in 0..Capacity /\ 0 <= call.target
      BY <3>1, FileAssumption
    <3> QED BY <3>2, <3>4, <3>5
  <2> QED BY <2>1, <2>2, <2>3
<1>3. Promise!AbsCrash
  BY <1>1, <1>2 DEF Promise!AbsCrash, Promise!Failure, Promise!Reply, Failure, Reply
<1> QED BY <1>3 DEF Simulated, Promise!AbsNext

\* A write that starts is seen only if it answers at once.
LEMMA WriteSim == ASSUME IInv, NEW b \in Buffer, OS_Write(b) PROVE Simulated
<1>1. /\ Ready /\ UNCHANGED <<exists, data, handle>> /\ handle \notin {"closed", "leaked"}
      /\ data \in Seq(Byte) /\ pos \in 0..Sentinel /\ Len(data) \in 0..Capacity
  BY OpenHandle, IInvParts, FileAssumption DEF OS_Write, FileOK
<1>2. CASE StartCall(b) /\ UNCHANGED reply
  <2>1. DataBefore' = SubSeq(data, 1, Len(data)) /\ PosBefore' = pos
    BY <1>1, <1>2 DEF StartCall, DataBefore, PosBefore
  <2>2. SubSeq(data, 1, Len(data)) = data
    BY <1>1
  <2>3. DataBefore = data /\ PosBefore = pos
    BY <1>1 DEF Ready, DataBefore, PosBefore
  <2> QED BY <1>1, <1>2, <2>1, <2>2, <2>3 DEF Simulated, Promise!absVars
<1>3. CASE pos = Sentinel /\ reply' = Reply("write", TRUE, Len(b), <<>>) /\ UNCHANGED <<pos, call>>
  <2>1. Promise!AbsWrite(b)
    BY <1>1, <1>3, ReadyView
       DEF Promise!AbsWrite, Promise!Blind, Sentinel, Promise!Reply, Reply
  <2> QED BY <2>1 DEF Simulated, Promise!AbsNext
<1>4. CASE reply' = Failure("write") /\ UNCHANGED <<pos, call>>
  <2>1. Refuse("write")
    BY <1>1, <1>4 DEF Refuse, file
  <2> QED BY <2>1, RefuseSim
<1> QED BY <1>2, <1>3, <1>4, Zenon DEF OS_Write

\* An answer in the middle of the gap is the second case of AbsWrite.
LEMMA FillGapSim == ASSUME IInv, FillGap PROVE Simulated
<1> DEFINE n == GapChunk
<1>1. /\ pos = Len(data) /\ call.fileSize = Len(data) /\ Len(data) \in Nat
      /\ call.target \in Nat /\ call.before \in Nat /\ call.before <= Len(data)
      /\ call.active /\ UNCHANGED <<exists, handle>>
      /\ data \in Seq(Byte) /\ n \in 1..(call.target - call.fileSize) /\ n \in Nat
      /\ handle \notin Writable => Len(data) = call.before
      /\ call \in [active : BOOLEAN, b : Buffer \cup {<<>>}, target : 0..Sentinel,
                   fileSize : 0..Sentinel, before : 0..Capacity]
  BY FillGapState, WordFacts, FileAssumption DEF FileOK, CallOK
<1>2. PICK k \in 0..n, ok \in BOOLEAN :
        /\ FillEffect(k)
        /\ handle \notin Writable => k = 0 /\ ~ok
        /\ \/ ~ok /\ Answer(Failure("write"))
           \/ ok /\ k < n /\ Answer(Reply("write", TRUE, 0, <<>>))
           \/ ok /\ k = n /\ call' = [call EXCEPT !.fileSize = @ + n] /\ UNCHANGED reply
  BY FillGapEffect
<1> HIDE DEF n
<1>3. /\ DataBefore \in Seq(Byte) /\ Len(DataBefore) = call.before
      /\ PosBefore = call.target
      /\ \A i \in 1..call.before : DataBefore[i] = data[i]
      /\ data = Promise!Padded(DataBefore, Len(data))
  BY <1>1, GapView
<1>4. data' = Promise!Padded(DataBefore, Len(data'))
  <2> DEFINE padded == Promise!Padded(DataBefore, Len(data'))
             old == Promise!Padded(DataBefore, Len(data))
  <2>1. data' \in Seq(Byte) /\ Len(data') \in Nat /\ Len(data') = Len(data) + k /\ k \in Nat
    BY <1>1, <1>2 DEF FillEffect
  <2>2. /\ padded \in Seq(Byte)
        /\ Len(padded) = IF Len(data') > Len(DataBefore) THEN Len(data') ELSE Len(DataBefore)
        /\ \A i \in 1..Len(padded) :
              padded[i] = IF i <= Len(DataBefore) THEN DataBefore[i] ELSE "zero"
    BY <1>3, <2>1, PaddedType
  <2>3. \A i \in 1..Len(data) : data[i] = IF i <= Len(DataBefore) THEN DataBefore[i] ELSE "zero"
    BY <1>1, <1>3, PaddedType
  <2> HIDE DEF padded
  <2>4. Len(padded) = Len(data')
    BY <1>1, <1>3, <2>1, <2>2
  <2>5. ASSUME NEW i \in 1..Len(data') PROVE data'[i] = padded[i]
    <3>1. CASE i <= Len(data)
      <4>1. data'[i] = data[i] /\ i \in 1..Len(data) /\ i \in 1..Len(padded)
        BY <1>1, <1>2, <2>1, <2>4, <3>1 DEF FillEffect
      <4> QED BY <2>2, <2>3, <4>1
    <3>2. CASE i > Len(data)
      <4>1. data'[i] = "zero" /\ i \in 1..Len(padded) /\ ~(i <= Len(DataBefore))
        BY <1>1, <1>2, <1>3, <2>1, <2>4, <3>2 DEF FillEffect
      <4> QED BY <2>2, <4>1
    <3> QED BY <1>1, <2>1, <3>1, <3>2
  <2>6. data' = padded
    BY <2>1, <2>2, <2>4, <2>5, SameBytes
  <2> QED BY <2>6 DEF padded
<1>5. /\ Len(data') \in 0..Capacity /\ Len(DataBefore) <= Len(data') /\ Len(data') <= PosBefore
      /\ pos' = Len(data') /\ data' \in Seq(Byte) /\ Len(data') = Len(data) + k
  BY <1>1, <1>2, <1>3, FileAssumption DEF FillEffect
<1>6. handle = "OSReadOnly" => Len(data') = Len(DataBefore) /\ ~ok
  BY <1>1, <1>2, <1>3, <1>5 DEF Writable
<1>7. handle \notin {"closed", "leaked"} /\ call.b \in Buffer
  BY <1>1, IInvParts DEF CallOK, OSOpenMode
<1>8. CASE /\ Len(data') < PosBefore /\ call' = NoCall
           /\ reply' = Reply("write", ok, 0, <<>>)
  <2>1. DataBefore' = data' /\ PosBefore' = pos'
    BY <1>8 DEF DataBefore, PosBefore, NoCall
  <2>2. Promise!AbsWrite(call.b)
    BY <1>1, <1>4, <1>5, <1>6, <1>7, <1>8, <2>1 DEF Promise!AbsWrite, Promise!Reply, Reply
  <2> QED BY <1>7, <2>2 DEF Simulated, Promise!AbsNext
<1>9. CASE /\ Len(data') = PosBefore /\ call' = NoCall /\ ~ok
           /\ reply' = Failure("write")
  <2>1. DataBefore' = data' /\ PosBefore' = pos' /\ handle # "OSReadOnly"
    <3>1. handle # "OSReadOnly"
      BY <1>1, <1>3, <1>6, <1>9
    <3> QED BY <1>9, <3>1 DEF DataBefore, PosBefore, NoCall
  <2>2. data' = Promise!Overwrite(Promise!Padded(DataBefore, PosBefore), PosBefore,
                                  SubSeq(call.b, 1, 0))
    <3>1. SubSeq(call.b, 1, 0) = <<>> /\ <<>> \in Seq(Byte)
      BY <1>7, BufferType
    <3>2. Promise!Overwrite(data', PosBefore, <<>>) = Written(data', PosBefore, <<>>)
      <4>1. PosBefore \in 0..Len(data')
        BY <1>5, <1>9
      <4> QED BY <1>5, <3>1, <4>1, OverwriteIsWritten
    <3> QED BY <1>4, <1>9, <3>1, <3>2 DEF Written
  <2>3. Promise!AbsWrite(call.b)
    <3>1. 0 \in 0..Len(call.b) /\ pos' = PosBefore + 0 /\ FALSE \in BOOLEAN
      <4>1. Len(call.b) \in Nat
        BY <1>7, BufferType
      <4>2. PosBefore \in Int /\ pos' = PosBefore
        BY <1>5, <1>9
      <4> QED BY <4>1, <4>2
    <3> QED BY <1>1, <1>7, <1>9, <2>1, <2>2, <3>1
            DEF Promise!AbsWrite, Promise!Failure, Promise!Reply, Failure, Reply
  <2> QED BY <1>7, <2>3 DEF Simulated, Promise!AbsNext
<1>10. CASE UNCHANGED reply /\ call' = [call EXCEPT !.fileSize = @ + n]
  <2>1. call'.active /\ call'.before = call.before /\ call'.target = call.target
    BY <1>1, <1>10
  <2>2. /\ DataBefore' = SubSeq(data', 1, call.before) /\ PosBefore' = call.target
        /\ DataBefore = SubSeq(data, 1, call.before) /\ PosBefore = call.target
    BY <1>1, <2>1 DEF DataBefore, PosBefore
  <2>3. call.before \in 0..Len(data) /\ call.before \in 0..Len(data')
    BY <1>1, <1>3, <1>5
  <2>4. \A i \in 1..call.before : data'[i] = data[i]
    BY <1>1, <1>2 DEF FillEffect
  <2> DEFINE new == SubSeq(data', 1, call.before)
             old == SubSeq(data, 1, call.before)
  <2>5. /\ new \in Seq(Byte) /\ Len(new) = call.before
        /\ \A i \in 1..call.before : new[i] = data'[i]
    BY <1>5, <2>3, PrefixType
  <2>6. /\ old \in Seq(Byte) /\ Len(old) = call.before
        /\ \A i \in 1..call.before : old[i] = data[i]
    BY <1>1, <2>3, PrefixType
  <2> HIDE DEF new, old
  <2>7. new = old
    BY <2>4, <2>5, <2>6, SameBytes
  <2> QED BY <1>1, <1>10, <2>2, <2>7 DEF Simulated, Promise!absVars, new, old
<1>11. \/ ~ok /\ Answer(Failure("write"))
       \/ ok /\ k < n /\ Answer(Reply("write", TRUE, 0, <<>>))
       \/ UNCHANGED reply /\ call' = [call EXCEPT !.fileSize = @ + n]
  BY <1>2, Zenon
<1>12. k < n => Len(data') < PosBefore
  BY <1>1, <1>3, <1>5
<1>13. Len(data') < PosBefore \/ Len(data') = PosBefore
  <2>1. Len(data') \in Nat /\ PosBefore \in Nat /\ Len(data') <= PosBefore
    BY <1>1, <1>3, <1>5, FileAssumption
  <2> QED BY <2>1
<1>14. Failure("write") = Reply("write", FALSE, 0, <<>>)
  BY DEF Failure
<1> QED BY <1>8, <1>9, <1>10, <1>11, <1>12, <1>13, <1>14 DEF Answer

\* Once the gap is filled, PutBytes is the first case of AbsWrite.
LEMMA PutBytesSim == ASSUME IInv, PutBytes PROVE Simulated
<1>1. /\ data \in Seq(Byte) /\ pos \in 0..Len(data) /\ call.b \in Buffer /\ call.b \in Seq(Byte)
      /\ call.active /\ UNCHANGED <<exists, handle>> /\ handle \in OSOpenMode
      /\ call.target = pos /\ (call.before < call.target => Len(data) = call.target)
      /\ (~(call.before < call.target) => Len(data) = call.before)
      /\ call.before \in Nat /\ call.target \in Nat
  BY IInvParts, WordFacts, FileAssumption, BufferType DEF PutBytes, FileOK, CallOK
<1>2. /\ DataBefore \in Seq(Byte) /\ Len(DataBefore) = call.before /\ PosBefore = pos
      /\ data = Promise!Padded(DataBefore, Len(data))
  BY <1>1, GapView
<1>3. Promise!Padded(DataBefore, pos) = data
  <2>1. CASE call.before < call.target
    BY <1>1, <1>2, <2>1
  <2>2. CASE ~(call.before < call.target)
    <3>1. ~(pos > Len(DataBefore)) /\ ~(Len(data) > Len(DataBefore))
      BY <1>1, <1>2, <2>2
    <3> QED BY <1>2, <3>1, Zenon DEF Promise!Padded
  <2> QED BY <2>1, <2>2
<1>4. PICK k \in 0..Len(call.b), ok \in BOOLEAN :
        /\ WriteFile(call.b, k, ok)
        /\ Answer(IF ok THEN Reply("write", TRUE, k, <<>>) ELSE Failure("write"))
  BY DEF PutBytes
<1>5. /\ data' = Written(data, pos, SubSeq(call.b, 1, k)) /\ pos' = pos + k
      /\ handle \notin Writable => k = 0 /\ ~ok
  BY <1>4 DEF WriteFile
<1>6. data' = Promise!Overwrite(Promise!Padded(DataBefore, pos), pos, SubSeq(call.b, 1, k))
  <2>1. SubSeq(call.b, 1, k) \in Seq(Byte)
    BY <1>1, PrefixType
  <2> QED BY <1>1, <1>3, <1>5, <2>1, OverwriteIsWritten
<1>7. DataBefore' = data' /\ PosBefore' = pos' /\ handle \notin {"closed", "leaked"}
  BY <1>1, <1>4 DEF Answer, DataBefore, PosBefore, NoCall, OSOpenMode
<1>8. CASE handle \in Writable
  <2>1. Promise!AbsWrite(call.b)
    <3>1. /\ handle # "OSReadOnly" /\ pos' = PosBefore + k
          /\ reply' = IF ok THEN Reply("write", TRUE, k, <<>>) ELSE Failure("write")
      BY <1>2, <1>4, <1>5, <1>8 DEF Writable, Answer
    <3> QED BY <1>1, <1>2, <1>4, <1>6, <1>7, <3>1
            DEF Promise!AbsWrite, Promise!Failure, Promise!Reply, Failure, Reply
  <2> QED BY <1>1, <2>1 DEF Simulated, Promise!AbsNext
<1>9. CASE handle \notin Writable
  <2>1. k = 0 /\ ~ok /\ reply' = Failure("write")
    BY <1>4, <1>5, <1>9 DEF Answer
  <2>2. SubSeq(call.b, 1, k) = <<>>
    BY <1>1, <2>1
  <2>3. data' = data /\ pos' = pos
    BY <1>1, <1>5, <2>1, <2>2 DEF Written
  <2>4. DataBefore = data
    <3>1. Len(data) = call.before
      BY <1>1, <1>9, IInvParts DEF CallOK
    <3>2. DataBefore = SubSeq(data, 1, Len(data))
      BY <1>1, <3>1 DEF DataBefore
    <3> QED BY <1>1, <3>2
  <2>5. Promise!AbsRefuse("write")
    BY <1>1, <1>2, <1>7, <2>1, <2>3, <2>4
       DEF Promise!AbsRefuse, Promise!fileVars, Promise!Failure, Promise!Reply, Failure, Reply
  <2> QED BY <2>5 DEF Simulated, Promise!AbsNext
<1> QED BY <1>8, <1>9

LEMMA InitSim == Init => Promise!AbsInit
BY DEF Init, Promise!AbsInit, Promise!Failure, Promise!Reply, Failure, Reply, DataBefore,
       PosBefore, NoCall

LEMMA NextSim == ASSUME IInv, [Next]_vars PROVE Simulated
<1>1. CASE OS_Create \/ OS_Delete \/ OS_Close \/ OS_Tell \/ OS_GetSize
  BY <1>1, CreateSim, DeleteSim, CloseSim, TellSim, GetSizeSim
<1>2. CASE \E mode \in OSOpenMode : OS_Open(mode)
  BY <1>2, OpenSim
<1>3. CASE \E n \in 0..Sentinel : OS_Read(n) \/ OS_SetSize(n)
  BY <1>3, ReadSim, SetSizeSim
<1>4. CASE \E how \in {"OSSeekRel", "OSSeekAbs", "OSSeekEnd"}, n \in 0..Sentinel :
              OS_Seek(how, Signed(n))
  BY <1>4, SeekSim
<1>5. CASE \E b \in Buffer : OS_Write(b)
  BY <1>5, WriteSim
<1>6. CASE Step
  BY <1>6, FillGapSim, PutBytesSim DEF Step
<1>7. CASE Crash
  BY <1>7, CrashSim
<1>8. CASE UNCHANGED vars
  BY <1>8 DEF vars, Simulated, Promise!absVars, DataBefore, PosBefore
<1> QED BY <1>1, <1>2, <1>3, <1>4, <1>5, <1>6, <1>7, <1>8 DEF Next

\* For every word, chunk and capacity, and whatever fails, OS_Write and the
\* other operations do what AbstractFile promises of them.
THEOREM OperationsImplementPromise == Spec => Implements
<1>1. IInv /\ [Next]_vars => [Promise!AbsNext]_(Promise!absVars)
  BY NextSim DEF Simulated
<1> QED BY InitSim, IInvHolds, <1>1, PTL DEF Spec, Implements, Promise!AbsSpec

-----------------------------------------------------------------------------
\* What a conversion gives of a string.
Fill(s, size) == IF Len(s) < size THEN s ELSE SubSeq(s, 1, size - 1)

LEMMA PartIsFill ==
    ASSUME NEW S, NEW s \in Seq(S), NEW size \in Nat \ {0}
    PROVE  PartToString(s, size) = Fill(s, size)
BY DEF PartToString, Fill

LEMMA FillFits ==
    ASSUME NEW S, NEW s \in Seq(S), NEW size \in Nat \ {0}
    PROVE  /\ Fill(s, size) \in Seq(S) /\ Len(Fill(s, size)) < size
           /\ Len(s) < size => Fill(s, size) = s
BY DEF Fill

LEMMA StrippedFits ==
    ASSUME NEW S, NEW s \in Seq(S), NEW size \in Nat, Len(s) < size
    PROVE  Len(Stripped(s)) < size
BY DEF Stripped, EndsWithSep, Front, Last

\* How a name is cut that has no separator at its end, or one.
LEMMA CutIsStripped ==
    ASSUME NEW S, NEW s \in Seq(S), ~EndsTwice(s)
    PROVE  /\ Cut(s) = Stripped(s)
           /\ Cut(Stripped(s)) = Stripped(s)
           /\ ~EndsWithSep(Stripped(s))
<1>0. ~EndsWithSep(Stripped(s))
  BY DEF EndsTwice, Stripped
<1> DEFINE IsLength(t, n) == (n # 0 => t[n] # Backslash) /\ \A i \in (n + 1)..Len(t) : t[i] = Backslash
<1>1. ASSUME NEW t \in Seq(S), NEW k \in 0..Len(t), IsLength(t, k)
      PROVE  Cut(t) = SubSeq(t, 1, k)
  <2>1. \A n \in 0..Len(t) : IsLength(t, n) => n = k
    <3> SUFFICES ASSUME NEW n \in 0..Len(t), IsLength(t, n), n # k PROVE FALSE
      OBVIOUS
    <3>1. CASE n < k
      <4>1. k \in (n + 1)..Len(t) /\ k # 0
        BY <3>1
      <4> QED BY <1>1, <4>1
    <3>2. CASE k < n
      <4>1. n \in (k + 1)..Len(t) /\ n # 0
        BY <3>2
      <4> QED BY <1>1, <4>1
    <3> QED BY <3>1, <3>2
  <2>2. (CHOOSE n \in 0..Len(t) : IsLength(t, n)) = k
    BY <1>1, <2>1
  <2> QED BY <2>2 DEF Cut
<1>2. ASSUME NEW t \in Seq(S), ~EndsWithSep(t) PROVE Cut(t) = t
  <2>1. Len(t) \in 0..Len(t) /\ IsLength(t, Len(t))
    BY <1>2 DEF EndsWithSep, Last
  <2>2. Cut(t) = SubSeq(t, 1, Len(t))
    BY <1>1, <2>1
  <2> QED BY <2>2
<1>3. CASE ~EndsWithSep(s)
  BY <1>2, <1>3 DEF Stripped
<1>4. CASE EndsWithSep(s)
  <2>1. PICK k \in Nat : Len(s) = k + 1 /\ s[k + 1] = Backslash
    <3>1. Len(s) # 0 /\ s[Len(s)] = Backslash
      BY <1>4 DEF EndsWithSep, Last
    <3>2. Len(s) - 1 \in Nat /\ Len(s) = (Len(s) - 1) + 1
      BY <3>1
    <3> QED BY <3>1, <3>2
  <2>2. Stripped(s) = SubSeq(s, 1, k)
    BY <1>4, <2>1 DEF Stripped, Front
  <2>3. /\ SubSeq(s, 1, k) \in Seq(S) /\ Len(SubSeq(s, 1, k)) = k
        /\ k # 0 => SubSeq(s, 1, k)[k] = s[k]
    BY <2>1
  <2>4. k # 0 => s[k] # Backslash
    <3>1. PICK t : t = SubSeq(s, 1, k)
      OBVIOUS
    <3>2. ~(t # <<>> /\ t[Len(t)] = Backslash)
      BY <1>0, <2>2, <3>1 DEF EndsWithSep, Last
    <3> QED BY <2>3, <3>1, <3>2
  <2>5. k \in 0..Len(s) /\ IsLength(s, k)
    BY <2>1, <2>4
  <2>6. Cut(s) = SubSeq(s, 1, k)
    BY <1>1, <2>5
  <2> QED BY <1>0, <1>2, <2>2, <2>3, <2>6
<1> QED BY <1>0, <1>3, <1>4

LEMMA BeginningOfBoth ==
    ASSUME NEW S, NEW p \in Seq(S), NEW n \in Seq(S), NEW k \in Nat
    PROVE  /\ k <= Len(p) => SubSeq(p \o n, 1, k) = SubSeq(p, 1, k)
           /\ Len(p) <= k /\ k <= Len(p) + Len(n) =>
                 SubSeq(p \o n, 1, k) = p \o SubSeq(n, 1, k - Len(p))
<1>1. ASSUME k <= Len(p) PROVE SubSeq(p \o n, 1, k) = SubSeq(p, 1, k)
  BY <1>1
<1>2. ASSUME Len(p) <= k, k <= Len(p) + Len(n)
      PROVE  SubSeq(p \o n, 1, k) = p \o SubSeq(n, 1, k - Len(p))
  <2>1. PICK m \in 0..Len(n) : k = Len(p) + m
    <3>1. k - Len(p) \in 0..Len(n) /\ k = Len(p) + (k - Len(p))
      BY <1>2
    <3> QED BY <3>1
  <2>2. SubSeq(n, 1, m) \in Seq(S) /\ Len(SubSeq(n, 1, m)) = m
    OBVIOUS
  <2>3. /\ p \o n \in Seq(S) /\ Len(p \o n) = Len(p) + Len(n)
        /\ p \o SubSeq(n, 1, m) \in Seq(S) /\ Len(p \o SubSeq(n, 1, m)) = k
    BY <2>1, <2>2
  <2>4. SubSeq(p \o n, 1, k) \in Seq(S) /\ Len(SubSeq(p \o n, 1, k)) = k
    BY <1>2, <2>3
  <2>5. \A i \in 1..k : SubSeq(p \o n, 1, k)[i] = (p \o SubSeq(n, 1, m))[i]
    <3> SUFFICES ASSUME NEW i \in 1..k
                 PROVE  SubSeq(p \o n, 1, k)[i] = (p \o SubSeq(n, 1, m))[i]
      OBVIOUS
    <3>1. SubSeq(p \o n, 1, k)[i] = (p \o n)[i]
      BY <1>2, <2>3
    <3>2. CASE i <= Len(p)
      BY <3>1, <3>2, <2>1, <2>2
    <3>3. CASE ~(i <= Len(p))
      <4>1. (p \o n)[i] = n[i - Len(p)]
        BY <3>3, <1>2
      <4>2. (p \o SubSeq(n, 1, m))[i] = SubSeq(n, 1, m)[i - Len(p)]
        BY <3>3, <2>1, <2>2
      <4>3. SubSeq(n, 1, m)[i - Len(p)] = n[i - Len(p)]
        BY <3>3, <2>1
      <4> QED BY <3>1, <4>1, <4>2, <4>3
    <3> QED BY <3>2, <3>3
  <2>6. SubSeq(p \o n, 1, k) = p \o SubSeq(n, 1, m)
    BY <2>3, <2>4, <2>5
  <2> QED BY <2>1, <2>6
<1> QED BY <1>1, <1>2

\* What does not fit is left out of the name first: together it is the
\* beginning of p and name that fits.
LEMMA SpecIsFill ==
    ASSUME NEW spec, NEW S, spec.path \in Seq(S), spec.name \in Seq(S), NEW size \in Nat \ {0}
    PROVE  SpecToString(spec, size) = Fill(Full(spec), size)
<1>1. PICK p, n : p = spec.path /\ n = spec.name
  OBVIOUS
<1>2. /\ p \in Seq(S) /\ n \in Seq(S) /\ size - 1 \in Nat
      /\ Len(p \o n) = Len(p) + Len(n) /\ Len(p) \in Nat /\ Len(n) \in Nat
  BY <1>1
<1>3. CASE Len(p) + Len(n) < size
  BY <1>1, <1>2, <1>3 DEF SpecToString, Fill, Full
<1>4. CASE ~(Len(p) + Len(n) < size) /\ Len(p) >= size
  <2>1. SubSeq(p \o n, 1, size - 1) = SubSeq(p, 1, size - 1)
    BY <1>2, <1>4, BeginningOfBoth
  <2> QED BY <1>1, <1>2, <1>4, <2>1 DEF SpecToString, Fill, Full
<1>5. CASE ~(Len(p) + Len(n) < size) /\ ~(Len(p) >= size)
  <2>1. SubSeq(p \o n, 1, size - 1) = p \o SubSeq(n, 1, (size - 1) - Len(p))
    BY <1>2, <1>5, BeginningOfBoth
  <2>2. (size - 1) - Len(p) = size - Len(p) - 1
    BY <1>2
  <2> QED BY <1>1, <1>2, <1>5, <2>1, <2>2 DEF SpecToString, Fill, Full, NameRoom
<1> QED BY <1>3, <1>4, <1>5

IsString(s) == \E S : s \in Seq(S)

\* The names that operations are called with, paths and specs as a whole.
Names == PathString \cup {Full(spec) : spec \in FileSpec}

LEMMA FullFacts ==
    ASSUME NEW spec \in FileSpec
    PROVE  /\ IsString(Full(spec)) /\ Full(spec) \in Names
           /\ spec.path \in PathString /\ spec.name \in NameString
           /\ \A size \in Nat \ {0} :
                 SpecToString(spec, size) = Fill(Full(spec), size)
<1>1. spec.path \in PathString /\ spec.name \in NameString
  BY DEF FileSpec
<1>2. PICK S : spec.path \in Seq(S) /\ spec.name \in Seq(S)
  <2>1. PICK A, B : A = Range(spec.path) /\ B = Range(spec.name)
    OBVIOUS
  <2>2. spec.path \in Seq(A) /\ spec.name \in Seq(B)
    BY <1>1, <2>1, SpecAssumption
  <2>3. spec.path \in Seq(A \cup B) /\ spec.name \in Seq(A \cup B)
    BY <2>2
  <2> QED BY <2>3
<1>3. Full(spec) \in Seq(S)
  BY <1>2 DEF Full
<1> QED BY <1>1, <1>2, <1>3, SpecIsFill DEF IsString, Names

LEMMA PartFacts ==
    ASSUME NEW s \in PathString \cup NameString
    PROVE  /\ IsString(s)
           /\ \A size \in Nat \ {0} : PartToString(s, size) = Fill(s, size)
<1>1. PICK S : s \in Seq(S)
  BY SpecAssumption
<1> QED BY <1>1, PartIsFill DEF IsString

LEMMA StringFits ==
    ASSUME NEW s, IsString(s), NEW size \in Nat \ {0}
    PROVE  /\ IsString(Fill(s, size)) /\ Len(Fill(s, size)) < size
           /\ Len(Stripped(Fill(s, size))) < size
           /\ Len(s) < size => Fill(s, size) = s
<1>1. PICK S : s \in Seq(S)
  BY DEF IsString
<1>2. /\ Fill(s, size) \in Seq(S) /\ Len(Fill(s, size)) < size
      /\ Len(s) < size => Fill(s, size) = s
  BY <1>1, FillFits
<1>3. Len(Stripped(Fill(s, size))) < size
  BY <1>2, StrippedFits
<1> QED BY <1>2, <1>3 DEF IsString

-----------------------------------------------------------------------------
Kind == {"file", "dir", "none"}

\* What a step of the system does to the files, whatever it is called for.
LEMMA ChangesTypes ==
    ASSUME NEW op, NEW names, NEW s, NEW from \in SUBSET Kind, NEW to \in Kind,
           fs \in [Files -> Kind], Changes(op, names, s, from, to)
    PROVE  /\ fs' \in [Files -> Kind]
           /\ asked'.op = op /\ asked'.names = names
           /\ \A t \in Files : fs'[t] # fs[t] =>
                 t = Cut(s) /\ fs[t] \in from /\ fs'[t] = to
BY DEF Changes, NamedAnswer, AnswerSized

LEMMA MovedTypes ==
    ASSUME NEW from, NEW to, fs \in [Files -> Kind], Moved(from, to)
    PROVE  /\ fs' \in [Files -> Kind]
           /\ fs' # fs =>
                /\ Cut(from) \in Files /\ Cut(to) \in Files
                /\ fs[Cut(to)] = "none" /\ fs[Cut(from)] # "none"
                /\ fs'[Cut(to)] = fs[Cut(from)] /\ fs'[Cut(from)] = "none"
                /\ \A t \in Files : fs'[t] # fs[t] => t \in {Cut(from), Cut(to)}
<1>1. CASE UNCHANGED fs
  BY <1>1
<1>2. CASE ~UNCHANGED fs
  <2>1. /\ Attributes(from) # "none" /\ Cut(to) \in Files
        /\ fs[Cut(to)] = "none"
        /\ fs' = [fs EXCEPT ![Cut(to)] = Attributes(from), ![Cut(from)] = "none"]
    BY <1>2 DEF Moved
  <2>2. Cut(from) \in Files /\ Attributes(from) = fs[Cut(from)]
    BY <2>1 DEF Attributes
  <2>3. PICK a, b : a = Cut(from) /\ b = Cut(to)
    OBVIOUS
  <2>4. a # b /\ fs' = [fs EXCEPT ![b] = fs[a], ![a] = "none"] /\ a \in Files /\ b \in Files
    BY <2>1, <2>2, <2>3
  <2>5. /\ fs' \in [Files -> Kind] /\ fs'[b] = fs[a] /\ fs'[a] = "none"
        /\ \A t \in Files : fs'[t] # fs[t] => t \in {a, b}
    BY <2>4 DEF Kind
  <2> QED BY <2>1, <2>2, <2>3, <2>5
<1> QED BY <1>1, <1>2

\* An operation whose name fits hands exactly that name to the system.
LEMMA SpecBuffer ==
    ASSUME NEW spec \in FileSpec
    PROVE  /\ Len(SpecToString(spec, MaxPath)) < MaxPath
           /\ Len(Stripped(SpecToString(spec, MaxPath))) < MaxPath
           /\ Len(Full(spec)) < MaxPath =>
                 SpecToString(spec, MaxPath) = Full(spec)
<1>1. MaxPath \in Nat \ {0}
  BY SpecAssumption
<1>2. IsString(Full(spec)) /\ SpecToString(spec, MaxPath) = Fill(Full(spec), MaxPath)
  BY <1>1, FullFacts
<1> QED BY <1>1, <1>2, StringFits

LEMMA PathBuffer ==
    ASSUME NEW p \in PathString
    PROVE  /\ Len(PartToString(p, MaxPath)) < MaxPath
           /\ Len(p) < MaxPath => PartToString(p, MaxPath) = p
<1>1. MaxPath \in Nat \ {0}
  BY SpecAssumption
<1>2. IsString(p) /\ PartToString(p, MaxPath) = Fill(p, MaxPath)
  BY <1>1, PartFacts
<1> QED BY <1>1, <1>2, StringFits

-----------------------------------------------------------------------------
NInv == BuffersFilled /\ KindsAreRight

\* What OnlyNamedFiles says of one step.
OnlyNamed ==
    Fits(asked'.names) =>
        /\ infront' # infront => asked'.names = {<<>>}
        /\ \A s \in Files : fs'[s] # fs[s] =>
            /\ s \in {Cut(n) : n \in asked'.names}
            /\ fs'[s] = "none" => asked'.op \in {"delete", "rmdir", "rename"}
            /\ asked'.op = "rename" => {fs'[Cut(n)] : n \in asked'.names}
                                          = {fs[Cut(n)] : n \in asked'.names}

Keeps == NInv' /\ OnlyNamed

\* An operation that changes what one name stands for.
LEMMA ChangeKeeps ==
    ASSUME NInv, NEW n, NEW s, NEW op \in {"create", "delete", "mkdir", "rmdir"},
           NEW from \in SUBSET Kind, NEW to \in Kind,
           Changes(op, {n}, s, from, to), spec_buffer' = s, UNCHANGED infront,
           Len(s) < MaxPath, Len(n) < MaxPath => s = n,
           to = "none" => op \in {"delete", "rmdir"}
    PROVE  Keeps
<1>1. fs \in [Files -> Kind]
  BY DEF NInv, BuffersFilled, SpecTypeOK, Kind
<1>2. /\ fs' \in [Files -> Kind] /\ asked'.op = op /\ asked'.names = {n}
      /\ \A t \in Files : fs'[t] # fs[t] => t = Cut(s) /\ fs'[t] = to
  BY <1>1, ChangesTypes
<1>3. NInv'
  BY <1>2 DEF NInv, BuffersFilled, SpecTypeOK, StringFillsBuffer,
              KindsAreRight, Kind
<1>4. OnlyNamed
  BY <1>2 DEF OnlyNamed, Fits
<1> QED BY <1>3, <1>4 DEF Keeps

\* The byte in front of the buffer stays, or is cleared for an empty name.
InFrontOnly ==
    \/ infront' = infront
    \/ infront' = "other" /\ (Fits(asked'.names) => asked'.names = {<<>>})

\* An operation that only answers.
LEMMA AnswersKeep ==
    ASSUME NInv, UNCHANGED fs, Len(spec_buffer') < MaxPath,
           InFrontOnly,
           (StringFillsBuffer /\ KindsAreRight)'
    PROVE  Keeps
BY DEF NInv, Keeps, OnlyNamed, BuffersFilled, SpecTypeOK, InFrontOnly

LEMMA MakesKeep ==
    ASSUME NInv, NEW spec \in FileSpec,
           OS_CreateNamed(spec) \/ OS_DeleteNamed(spec) \/ OS_Mkdir(spec)
    PROVE  Keeps
<1>1. PICK s : s = SpecToString(spec, MaxPath)
  OBVIOUS
<1>2. Len(s) < MaxPath /\ (Len(Full(spec)) < MaxPath => s = Full(spec))
  BY <1>1, SpecBuffer
<1>3. spec_buffer' = s /\ UNCHANGED infront
  BY <1>1 DEF OS_CreateNamed, OS_DeleteNamed, OS_Mkdir
<1>4. CASE OS_CreateNamed(spec)
  <2>1. Changes("create", {Full(spec)}, s, {"none", "file"}, "file")
    BY <1>3, <1>4 DEF OS_CreateNamed
  <2> QED BY <1>2, <1>3, <2>1, ChangeKeeps DEF Kind
<1>5. CASE OS_DeleteNamed(spec)
  <2>1. Changes("delete", {Full(spec)}, s, {"file"}, "none")
    BY <1>3, <1>5 DEF OS_DeleteNamed
  <2> QED BY <1>2, <1>3, <2>1, ChangeKeeps DEF Kind
<1>6. CASE OS_Mkdir(spec)
  <2>1. Changes("mkdir", {Full(spec)}, s, {"none"}, "dir")
    BY <1>3, <1>6 DEF OS_Mkdir
  <2> QED BY <1>2, <1>3, <2>1, ChangeKeeps DEF Kind
<1> QED BY <1>4, <1>5, <1>6

LEMMA RmdirKeeps ==
    ASSUME NInv, NEW p \in PathString, OS_Rmdir(p)
    PROVE  Keeps
<1>1. PICK s : s = PartToString(p, MaxPath)
  OBVIOUS
<1>2. Len(s) < MaxPath /\ (Len(p) < MaxPath => s = p)
  BY <1>1, PathBuffer
<1>3. spec_buffer' = s /\ UNCHANGED infront /\ Changes("rmdir", {p}, s, {"dir"}, "none")
  BY <1>1 DEF OS_Rmdir
<1> QED BY <1>2, <1>3, ChangeKeeps DEF Kind

\* The two names of a rename are in buffers of their own.
LEMMA RenameKeeps ==
    ASSUME NInv, NEW old \in FileSpec, NEW new \in FileSpec,
           OS_Rename(old, new)
    PROVE  Keeps
<1>1. PICK a, b, m, n : /\ a = SpecToString(old, MaxPath) /\ b = SpecToString(new, MaxPath)
                        /\ m = Full(old) /\ n = Full(new)
  OBVIOUS
<1>2. /\ Len(a) < MaxPath
      /\ Len(m) < MaxPath => a = m
      /\ Len(n) < MaxPath => b = n
  BY <1>1, SpecBuffer
<1>3. spec_buffer' = a /\ UNCHANGED infront /\ Moved(a, b) /\ asked'.names = {m, n} /\ asked'.op = "rename"
  BY <1>1 DEF OS_Rename, NamedAnswer, AnswerSized
<1>4. fs \in [Files -> Kind]
  BY DEF NInv, BuffersFilled, SpecTypeOK, Kind
<1>5. /\ fs' \in [Files -> Kind]
      /\ fs' # fs =>
           /\ Cut(a) \in Files /\ Cut(b) \in Files
           /\ fs[Cut(b)] = "none" /\ fs[Cut(a)] # "none"
           /\ fs'[Cut(b)] = fs[Cut(a)] /\ fs'[Cut(a)] = "none"
           /\ \A t \in Files : fs'[t] # fs[t] => t \in {Cut(a), Cut(b)}
  BY <1>3, <1>4, MovedTypes
<1>6. NInv'
  BY <1>2, <1>3, <1>5 DEF NInv, BuffersFilled, SpecTypeOK, StringFillsBuffer,
              KindsAreRight, Kind
<1>7. OnlyNamed
  <2> SUFFICES ASSUME Fits(asked'.names), NEW t \in Files, fs'[t] # fs[t]
               PROVE  /\ t \in {Cut(i) : i \in asked'.names}
                      /\ {fs'[Cut(i)] : i \in asked'.names} = {fs[Cut(i)] : i \in asked'.names}
    BY <1>3 DEF OnlyNamed
  <2>1. a = m /\ b = n
    BY <1>2, <1>3 DEF Fits
  <2>2. \A g : {g[Cut(i)] : i \in asked'.names} = {g[Cut(a)], g[Cut(b)]}
    BY <1>3, <2>1
  <2>3. {Cut(i) : i \in asked'.names} = {Cut(a), Cut(b)}
    BY <1>3, <2>1
  <2> QED BY <1>5, <2>2, <2>3
<1> QED BY <1>6, <1>7 DEF Keeps

LEMMA StatusKeeps ==
    ASSUME NInv, NEW spec \in FileSpec, OS_Status(spec)
    PROVE  Keeps
<1>1. /\ spec_buffer' = SpecToString(spec, MaxPath) /\ UNCHANGED <<fs, infront>>
      /\ asked'.op = "status"
  BY DEF OS_Status, NamedAnswer, AnswerSized
<1>2. Len(spec_buffer') < MaxPath
  BY <1>1, SpecBuffer
<1>3. InFrontOnly /\ (StringFillsBuffer /\ KindsAreRight)'
  BY <1>1 DEF StringFillsBuffer, KindsAreRight, InFrontOnly
<1> QED BY <1>1, <1>2, <1>3, AnswersKeep

\* Without the separator at its end a name stands for the same thing.
LEMMA StrippedAttributes ==
    ASSUME NEW spec \in FileSpec, Len(Full(spec)) < MaxPath,
           Cut(Full(spec)) \in Files,
           ~EndsTwice(Full(spec))
    PROVE  Attributes(Stripped(SpecToString(spec, MaxPath)))
              = fs[Cut(Full(spec))]
<1>1. SpecToString(spec, MaxPath) = Full(spec)
  BY SpecBuffer
<1>2. PICK c : c = Stripped(Full(spec))
  OBVIOUS
<1>3. Cut(Full(spec)) = c /\ Cut(c) = c /\ ~EndsWithSep(c)
  BY <1>2, FullFacts, CutIsStripped DEF IsString
<1> QED BY <1>1, <1>2, <1>3 DEF Attributes

LEMMA KindKeeps ==
    ASSUME NInv, NEW spec \in FileSpec,
           OS_IsDir(spec) \/ OS_IsFile(spec)
    PROVE  Keeps
<1>1. PICK c, n : c = Stripped(SpecToString(spec, MaxPath)) /\ n = Full(spec)
  OBVIOUS
<1>2. /\ spec_buffer' = c /\ UNCHANGED fs /\ asked'.names = {n}
      /\ \/ asked'.op = "isdir" /\ asked'.result = (Attributes(c) = "dir")
         \/ asked'.op = "isfile" /\ asked'.result = (Attributes(c) = "file")
  BY <1>1 DEF OS_IsDir, OS_IsFile, StripsName, NamedAnswer, AnswerSized
<1>3. Len(spec_buffer') < MaxPath
  BY <1>1, <1>2, SpecBuffer
<1>7. InFrontOnly
  <2>1. PICK s : s = SpecToString(spec, MaxPath)
    OBVIOUS
  <2>2. infront' = IF s = <<>> /\ infront = Backslash THEN "other" ELSE infront
    BY <2>1 DEF OS_IsDir, OS_IsFile, StripsName, StrippedInFront
  <2>3. Fits({n}) => s = n
    BY <1>1, <2>1, SpecBuffer DEF Fits
  <2> QED BY <1>2, <2>2, <2>3 DEF InFrontOnly
<1>4. Len(n) < MaxPath /\ Cut(n) \in Files /\ ~EndsTwice(n)
         => Attributes(c) = fs[Cut(n)]
  BY <1>1, StrippedAttributes
<1>5. KindsAreRight'
  <2> SUFFICES ASSUME Fits(asked'.names), Cut(n) \in Files,
                      ~EndsTwice(n)
               PROVE  /\ asked'.op = "isdir" => asked'.result = (fs'[Cut(n)] = "dir")
                      /\ asked'.op = "isfile" => asked'.result = (fs'[Cut(n)] = "file")
    BY <1>2 DEF KindsAreRight
  <2>1. Attributes(c) = fs'[Cut(n)]
    BY <1>2, <1>4 DEF Fits
  <2> QED BY <1>2, <2>1
<1>6. StringFillsBuffer'
  BY <1>2 DEF StringFillsBuffer
<1> QED BY <1>2, <1>3, <1>5, <1>6, <1>7, AnswersKeep

LEMMA ConvertsKeeps ==
    ASSUME NInv, NEW spec \in FileSpec, NEW size \in Sizes,
           CallerConverts(spec, size)
    PROVE  Keeps
<1>1. Size(size, MaxPath) \in Nat \ {0} /\ Size(size, NameMax) \in Nat \ {0}
  BY SpecAssumption DEF Size
<1>2. /\ UNCHANGED <<fs, spec_buffer, infront>>
      /\ \/ asked'.op = "nomemory"
         \/ \E s, n : /\ asked'.op = "string" /\ asked'.names = {s} /\ asked'.size = n
                      /\ asked'.result = Fill(s, n)
  <2>1. CASE NamedAnswer("nomemory", {Full(spec)}, "NULL")
    BY <2>1 DEF CallerConverts, NamedAnswer, AnswerSized
  <2>2. PICK n : n = Size(size, MaxPath)
    OBVIOUS
  <2>3. PICK k : k = Size(size, NameMax)
    OBVIOUS
  <2>4. CASE AnswerSized("string", {Full(spec)}, n, SpecToString(spec, n))
    <3>1. SpecToString(spec, n) = Fill(Full(spec), n)
      BY <1>1, <2>2, FullFacts
    <3> QED BY <2>4, <3>1 DEF CallerConverts, AnswerSized
  <2>5. CASE AnswerSized("string", {spec.path}, n, PartToString(spec.path, n))
    <3>1. PartToString(spec.path, n) = Fill(spec.path, n)
      BY <1>1, <2>2, FullFacts, PartFacts
    <3> QED BY <2>5, <3>1 DEF CallerConverts, AnswerSized
  <2>6. CASE AnswerSized("string", {spec.name}, k, PartToString(spec.name, k))
    <3>1. PartToString(spec.name, k) = Fill(spec.name, k)
      BY <1>1, <2>3, FullFacts, PartFacts
    <3> QED BY <2>6, <3>1 DEF CallerConverts, AnswerSized
  <2> QED BY <2>1, <2>2, <2>3, <2>4, <2>5, <2>6 DEF CallerConverts
<1>3. (StringFillsBuffer /\ KindsAreRight)'
  BY <1>2 DEF StringFillsBuffer, KindsAreRight, Fill
<1>4. Len(spec_buffer') < MaxPath /\ InFrontOnly
  BY <1>2 DEF NInv, BuffersFilled, SpecTypeOK, InFrontOnly
<1> QED BY <1>2, <1>3, <1>4, AnswersKeep

LEMMA NamedStarts == ASSUME NamedInit PROVE NInv
BY SpecAssumption DEF NamedInit, NInv, BuffersFilled, SpecTypeOK, StringFillsBuffer,
       KindsAreRight

LEMMA NamedStep ==
    ASSUME NInv, [NamedNext]_specVars
    PROVE  NInv' /\ [OnlyNamed]_specVars
<1>1. CASE UNCHANGED specVars
  BY <1>1 DEF specVars, NInv, BuffersFilled, SpecTypeOK, StringFillsBuffer,
       KindsAreRight, Fits
<1>2. CASE NamedNext
  <2>1. Keeps
    BY <1>2, MakesKeep, RmdirKeeps, RenameKeeps, StatusKeeps, KindKeeps, ConvertsKeeps DEF NamedNext
  <2> QED BY <2>1 DEF Keeps
<1> QED BY <1>1, <1>2

LEMMA NInvHolds == NamedSpec => []NInv
<1>1. NamedInit => NInv
  BY NamedStarts
<1>2. NInv /\ [NamedNext]_specVars => NInv'
  BY NamedStep
<1> QED BY <1>1, <1>2, PTL DEF NamedSpec

\* Whatever strings specs are made of, every conversion gives as much of them as
\* its buffer holds, and none writes past the end.
THEOREM BuffersAreFilled == NamedSpec => []BuffersFilled
<1>1. NInv => BuffersFilled
  BY DEF NInv
<1> QED BY <1>1, NInvHolds, PTL

\* The kind that is answered for a name that fits is what is there, with the
\* separator at its end or without.
THEOREM KindsAreAnswered == NamedSpec => []KindsAreRight
<1>1. NInv => KindsAreRight
  BY DEF NInv
<1> QED BY <1>1, NInvHolds, PTL

\* An operation whose names fit changes what they stand for and nothing else,
\* although all of them put their names together in one buffer.
THEOREM OnlyTheNamedChange == NamedSpec => OnlyNamedFiles
<1>1. NInv /\ [NamedNext]_specVars => [OnlyNamed]_specVars
  BY NamedStep
<1>2. OnlyNamedFiles <=> [][OnlyNamed]_specVars
  BY DEF OnlyNamedFiles, OnlyNamed
<1> QED BY <1>1, <1>2, NInvHolds, PTL DEF NamedSpec

-----------------------------------------------------------------------------
\* Strings are told apart by their characters.
LEMMA SameText ==
    ASSUME NEW S, NEW s \in Seq(S), NEW t \in Seq(S), Len(s) = Len(t),
           \A k \in 1..Len(t) : s[k] = t[k]
    PROVE  s = t
OBVIOUS

\* What may lie in a path's buffer; strings that differ in case only.
PathByte == Character \cup {Zero}
Same(a, b) == /\ Len(a) = Len(b)
              /\ \A k \in 1..Len(a) : toupper(a[k]) = toupper(b[k])

LEMMA CharacterFacts ==
    /\ Zero \notin Character /\ Character \subseteq PathByte
    /\ {"/", Sep, ":"} \subseteq Character /\ Letters \subseteq Character
    /\ "/" # Sep /\ "/" # ":" /\ Sep # ":"
    /\ "/" \notin Letters /\ Sep \notin Letters /\ ":" \notin Letters
BY DEF PathByte, Zero, Character, Sep, Letters

LEMMA toupperFacts ==
    ASSUME NEW ch \in PathByte
    PROVE  /\ toupper(ch) \in PathByte
           /\ ch \in Character => toupper(ch) \in Character
           /\ toupper(toupper(ch)) = toupper(ch)
           /\ toupper(ch) \in Letters <=> ch \in Letters
           /\ \A x \in {"/", Sep, ":", Zero} : toupper(ch) = x <=> ch = x
           /\ ch \in Letters => toupper(ch) = "C"
           /\ ch \notin Letters => toupper(ch) = ch
BY DEF PathByte, toupper, Letters, Character, Sep, Zero

LEMMA FoldType ==
    ASSUME NEW S \in {Character, PathByte}, NEW s \in Seq(S)
    PROVE  /\ Fold(s) \in Seq(S) /\ Len(Fold(s)) = Len(s)
           /\ \A k \in 1..Len(s) : Fold(s)[k] = toupper(s[k])
<1>1. Fold(s) = [k \in 1..Len(s) |-> toupper(s[k])]
  BY DEF Fold
<1>2. \A k \in 1..Len(s) : toupper(s[k]) \in S
  BY toupperFacts, CharacterFacts
<1> QED BY <1>1, <1>2

LEMMA SameFold ==
    ASSUME NEW a \in Seq(PathByte), NEW b \in Seq(PathByte)
    PROVE  Same(a, b) <=> Fold(a) = Fold(b)
<1> /\ PathByte \in {Character, PathByte}
    /\ Fold(a) \in Seq(PathByte) /\ Fold(b) \in Seq(PathByte)
  BY FoldType
<1>1. /\ Len(Fold(a)) = Len(a) /\ \A k \in 1..Len(a) : Fold(a)[k] = toupper(a[k])
      /\ Len(Fold(b)) = Len(b) /\ \A k \in 1..Len(b) : Fold(b)[k] = toupper(b[k])
  BY FoldType
<1>2. ASSUME Same(a, b) PROVE Fold(a) = Fold(b)
  BY <1>1, <1>2 DEF Same, Fold
<1>3. ASSUME Fold(a) = Fold(b) PROVE Same(a, b)
  BY <1>1, <1>3 DEF Same
<1> QED BY <1>2, <1>3

LEMMA FoldIsSame ==
    ASSUME NEW s \in Seq(PathByte)
    PROVE  Same(Fold(s), s) /\ Fold(Fold(s)) = Fold(s)
<1>1. /\ Fold(s) \in Seq(PathByte) /\ Len(Fold(s)) = Len(s)
      /\ \A k \in 1..Len(s) : Fold(s)[k] = toupper(s[k])
  BY FoldType
<1>2. \A k \in 1..Len(s) : s[k] \in PathByte
  OBVIOUS
<1>3. Same(Fold(s), s)
  BY <1>1, <1>2, toupperFacts DEF Same
<1> QED BY <1>1, <1>3, SameFold

-----------------------------------------------------------------------------
LEMMA PathsCardinality == ASSUME NEW S PROVE Cardinality(S) = Cardinality(S)
BY Zenon DEF Cardinality, Cardinality

\* How many of the first characters are slashes.
SlashesAt(s, n) == { i \in 1..n : s[i] = "/" }

LEMMA SlashesCount ==
    ASSUME NEW s, NEW n \in Nat
    PROVE  /\ Slashes(s, n) \in 0..n /\ IsFiniteSet(SlashesAt(s, n))
           /\ \A m \in 0..n : Slashes(s, m) <= Slashes(s, n)
           /\ (\A i \in 1..n : s[i] # "/") => Slashes(s, n) = 0
<1>1. IsFiniteSet(1..n) /\ Cardinality(1..n) = n
  BY FS_Interval
<1>2. SlashesAt(s, n) \in SUBSET (1..n)
  BY DEF SlashesAt
<1>3. Slashes(s, n) = Cardinality(SlashesAt(s, n))
  BY PathsCardinality DEF Slashes, SlashesAt
<1>4. IsFiniteSet(SlashesAt(s, n)) /\ Cardinality(SlashesAt(s, n)) <= n
  BY <1>1, <1>2, FS_Subset
<1>5. Cardinality(SlashesAt(s, n)) \in Nat
  BY <1>4, FS_CardinalityType
<1>6. ASSUME NEW m \in 0..n PROVE Slashes(s, m) <= Slashes(s, n)
  <2>1. SlashesAt(s, m) \in SUBSET SlashesAt(s, n)
    BY DEF SlashesAt
  <2>2. Cardinality(SlashesAt(s, m)) <= Cardinality(SlashesAt(s, n))
    BY <2>1, <1>4, FS_Subset
  <2>3. Slashes(s, m) = Cardinality(SlashesAt(s, m))
    BY PathsCardinality DEF Slashes, SlashesAt
  <2> QED BY <2>2, <2>3, <1>3
<1>7. ASSUME \A i \in 1..n : s[i] # "/" PROVE Slashes(s, n) = 0
  <2>1. SlashesAt(s, n) = {}
    BY <1>7 DEF SlashesAt
  <2> QED BY <2>1, <1>3, FS_EmptySet
<1> QED BY <1>3, <1>4, <1>5, <1>6, <1>7

\* Strings with their slashes in the same places.
LEMMA SlashesEqual ==
    ASSUME NEW s, NEW t, NEW n \in Nat, \A i \in 1..n : s[i] = "/" <=> t[i] = "/"
    PROVE  Slashes(s, n) = Slashes(t, n)
<1>1. { i \in 1..n : s[i] = "/" } = { i \in 1..n : t[i] = "/" }
  OBVIOUS
<1> QED BY <1>1, Zenon DEF Slashes

\* The end of a string has no more slashes than the string.
LEMMA SlashesOfEnd ==
    ASSUME NEW s, NEW t, NEW d \in Nat, NEW n \in Nat, \A i \in 1..n : t[i] = s[i + d]
    PROVE  Slashes(t, n) <= Slashes(s, n + d)
<1> DEFINE f == [i \in SlashesAt(t, n) |-> i + d]
<1>1. f \in Injection(SlashesAt(t, n), SlashesAt(s, n + d))
  BY DEF SlashesAt, Injection, IsInjective
<1>2. IsFiniteSet(SlashesAt(s, n + d))
  BY SlashesCount
<1>3. Cardinality(SlashesAt(t, n)) <= Cardinality(SlashesAt(s, n + d))
  <2> HIDE DEF f
  <2> QED BY <1>1, <1>2, FS_Injection
<1>4. /\ Slashes(t, n) = Cardinality(SlashesAt(t, n))
      /\ Slashes(s, n + d) = Cardinality(SlashesAt(s, n + d))
  BY PathsCardinality DEF Slashes, SlashesAt
<1> QED BY <1>3, <1>4

\* Where the character k of a path is written.
Place(s, k) == k + Slashes(s, k - 1)

LEMMA PlaceOne ==
    ASSUME NEW s, NEW n \in Nat
    PROVE  /\ \A k \in 1..n : Place(s, k) \in 1..(n + Slashes(s, n)) /\ Place(s, k) >= k
           /\ \A j, k \in 1..n : Place(s, j) = Place(s, k) => j = k
<1>1. \A m \in Nat : Slashes(s, m) \in Nat
  BY SlashesCount
<1>2. \A m \in 0..n : Slashes(s, m) <= Slashes(s, n)
  BY SlashesCount
<1>3. ASSUME NEW k \in 1..n PROVE Place(s, k) \in 1..(n + Slashes(s, n)) /\ Place(s, k) >= k
  <2>1. k - 1 \in 0..n /\ Slashes(s, k - 1) \in Nat /\ Slashes(s, n) \in Nat
    BY <1>1
  <2>2. PICK x, y \in Nat : x = Slashes(s, k - 1) /\ y = Slashes(s, n)
    BY <2>1
  <2>3. x <= y /\ Place(s, k) = k + x
    BY <1>2, <2>1, <2>2 DEF Place
  <2> QED BY <2>2, <2>3
<1>4. ASSUME NEW j \in 1..n, NEW k \in 1..n, j < k PROVE Place(s, j) < Place(s, k)
  <2>1. j - 1 \in 0..(k - 1) /\ k - 1 \in Nat
    BY <1>4
  <2>2. Slashes(s, j - 1) <= Slashes(s, k - 1)
    BY <2>1, SlashesCount
  <2>3. PICK x, y \in Nat : x = Slashes(s, j - 1) /\ y = Slashes(s, k - 1)
    BY <2>1, <1>1
  <2>4. Place(s, j) = j + x /\ Place(s, k) = k + y /\ x <= y
    BY <2>2, <2>3 DEF Place
  <2> QED BY <1>4, <2>3, <2>4
<1>5. ASSUME NEW j \in 1..n, NEW k \in 1..n, Place(s, j) = Place(s, k) PROVE j = k
  <2>1. Place(s, j) \in Int /\ Place(s, k) \in Int
    BY <1>3
  <2>2. ~(j < k) /\ ~(k < j)
    BY <2>1, <1>4, <1>5
  <2> QED BY <2>2
<1> QED BY <1>3, <1>5

LEMMA RestType ==
    ASSUME NEW s \in Seq(PathByte), NEW stale \in PathByte
    PROVE  /\ Rest(s, stale) \in Seq(PathByte)
           /\ Len(Rest(s, stale)) = Len(s) + Slashes(s, Len(s))
           /\ \A k \in 1..Len(s) : Rest(s, stale)[Place(s, k)] =
                                       IF s[k] = "/" THEN Sep ELSE s[k]
           /\ \A p \in 1..(Len(s) + Slashes(s, Len(s))) :
                 (\A k \in 1..Len(s) : p # Place(s, k)) => Rest(s, stale)[p] = stale
<1> DEFINE R(p) == IF \E k \in 1..Len(s) : p = Place(s, k)
                   THEN LET ch == s[CHOOSE k \in 1..Len(s) : p = Place(s, k)]
                        IN  IF ch = "/" THEN Sep ELSE ch
                   ELSE stale
<1>1. PICK n \in Nat : n = Len(s) + Slashes(s, Len(s))
  BY SlashesCount
<1>2. Rest(s, stale) = [p \in 1..n |-> R(p)]
  <2>1. DOMAIN s = 1..Len(s)
    OBVIOUS
  <2> QED BY <1>1, <2>1, Zenon DEF Rest, Place
<1>3. \A k \in 1..Len(s) : s[k] \in PathByte
  OBVIOUS
<1>4. Sep \in PathByte
  BY CharacterFacts
<1>5. ASSUME NEW p \in 1..n PROVE R(p) \in PathByte
  BY <1>3, <1>4
<1>6. ASSUME NEW k \in 1..Len(s)
      PROVE  Place(s, k) \in 1..n /\ R(Place(s, k)) = IF s[k] = "/" THEN Sep ELSE s[k]
  <2>1. Len(s) \in Nat
    OBVIOUS
  <2>2. Place(s, k) \in 1..n
    BY <2>1, PlaceOne, <1>1
  <2>3. (CHOOSE j \in 1..Len(s) : Place(s, k) = Place(s, j)) = k
    BY <2>1, PlaceOne
  <2> QED BY <2>2, <2>3
<1>7. ASSUME NEW p \in 1..n, \A k \in 1..Len(s) : p # Place(s, k) PROVE R(p) = stale
  BY <1>7
<1> HIDE DEF R
<1>8. Rest(s, stale) \in Seq(PathByte) /\ Len(Rest(s, stale)) = n
  BY <1>2, <1>5
<1> QED BY <1>1, <1>2, <1>6, <1>7, <1>8

\* Without a slash nothing changes, and the first characters not before one.
LEMMA RestOfStart ==
    ASSUME NEW s \in Seq(PathByte), NEW stale \in PathByte, NEW n \in 0..Len(s),
           \A k \in 1..n : s[k] # "/"
    PROVE  \A k \in 1..n : Rest(s, stale)[k] = s[k]
<1>1. ASSUME NEW k \in 1..n PROVE Rest(s, stale)[k] = s[k]
  <2>1. k - 1 \in Nat /\ \A i \in 1..(k - 1) : s[i] # "/"
    OBVIOUS
  <2>2. Slashes(s, k - 1) = 0
    BY <2>1, SlashesCount
  <2>3. Place(s, k) = k /\ k \in 1..Len(s) /\ s[k] # "/"
    BY <2>2 DEF Place
  <2>4. Rest(s, stale)[Place(s, k)] = IF s[k] = "/" THEN Sep ELSE s[k]
    BY <2>3, RestType
  <2> QED BY <2>3, <2>4
<1> QED BY <1>1

LEMMA RestOfClean ==
    ASSUME NEW s \in Seq(PathByte), NEW stale \in PathByte, \A k \in 1..Len(s) : s[k] # "/"
    PROVE  Rest(s, stale) = s
<1>1. Slashes(s, Len(s)) = 0 /\ Len(s) \in 0..Len(s)
  BY SlashesCount
<1>2. \A k \in 1..Len(s) : Rest(s, stale)[k] = s[k]
  BY <1>1, RestOfStart
<1>3. Rest(s, stale) \in Seq(PathByte) /\ Len(Rest(s, stale)) = Len(s)
  BY <1>1, RestType
<1> QED BY <1>2, <1>3

LEMMA RestSame ==
    ASSUME NEW s \in Seq(PathByte), NEW t \in Seq(PathByte), NEW stale \in PathByte, Same(s, t)
    PROVE  Same(Rest(s, stale), Rest(t, stale))
<1>1. Len(s) = Len(t) /\ \A k \in 1..Len(s) : toupper(s[k]) = toupper(t[k])
  BY DEF Same
<1>2. \A k \in 1..Len(s) : s[k] = "/" <=> t[k] = "/"
  <2>1. \A k \in 1..Len(s) : s[k] \in PathByte /\ t[k] \in PathByte
    BY <1>1
  <2> QED BY <1>1, <2>1, toupperFacts
<1>3. \A n \in 0..Len(s) : Slashes(s, n) = Slashes(t, n)
  <2>1. ASSUME NEW n \in 0..Len(s) PROVE Slashes(s, n) = Slashes(t, n)
    <3>1. n \in Nat /\ \A i \in 1..n : s[i] = "/" <=> t[i] = "/"
      BY <1>2
    <3> QED BY <3>1, SlashesEqual
  <2> QED BY <2>1
<1>4. \A k \in 1..Len(s) : Place(s, k) = Place(t, k)
  BY <1>3 DEF Place
<1>5. PICK n \in Nat : n = Len(s) + Slashes(s, Len(s))
  BY SlashesCount
<1>6. ASSUME NEW p \in 1..n
      PROVE  toupper(Rest(s, stale)[p]) = toupper(Rest(t, stale)[p])
  <2>1. CASE \E k \in 1..Len(s) : p = Place(s, k)
    <3>1. PICK k \in 1..Len(s) : p = Place(s, k)
      BY <2>1
    <3>2. Rest(s, stale)[p] = IF s[k] = "/" THEN Sep ELSE s[k]
      BY <3>1, RestType
    <3>3. k \in 1..Len(t) /\ p = Place(t, k)
      BY <3>1, <1>1, <1>4
    <3>4. Rest(t, stale)[p] = IF t[k] = "/" THEN Sep ELSE t[k]
      BY <3>3, RestType
    <3> QED BY <3>2, <3>4, <1>1, <1>2
  <2>2. CASE ~\E k \in 1..Len(s) : p = Place(s, k)
    <3>1. Rest(s, stale)[p] = stale
      BY <2>2, <1>5, RestType
    <3>2. p \in 1..(Len(t) + Slashes(t, Len(t))) /\ \A k \in 1..Len(t) : p # Place(t, k)
      BY <2>2, <1>1, <1>3, <1>4, <1>5
    <3>3. Rest(t, stale)[p] = stale
      BY <3>2, RestType
    <3> QED BY <3>1, <3>3
  <2> QED BY <2>1, <2>2
<1>7. Len(Rest(s, stale)) = n /\ Len(Rest(t, stale)) = n
  <2>1. Len(s) \in 0..Len(s) /\ Slashes(s, Len(s)) = Slashes(t, Len(t))
    BY <1>1, <1>3
  <2>2. /\ Len(Rest(s, stale)) = Len(s) + Slashes(s, Len(s))
        /\ Len(Rest(t, stale)) = Len(t) + Slashes(t, Len(t))
    BY RestType
  <2> QED BY <1>1, <1>5, <2>1, <2>2
<1> QED BY <1>6, <1>7 DEF Same

-----------------------------------------------------------------------------
\* A drive's letter in capitals; what is before a zero.
LEMMA AtType ==
    ASSUME NEW s \in Seq(PathByte), NEW k \in Nat
    PROVE  /\ At(s, k) \in PathByte
           /\ k < Len(s) => k + 1 \in 1..Len(s) /\ At(s, k) = s[k + 1]
           /\ k >= Len(s) => At(s, k) = Zero
           /\ At(Fold(s), k) = toupper(At(s, k))
<1>1. k < Len(s) => k + 1 \in 1..Len(s)
  OBVIOUS
<1>2. Zero \in PathByte /\ toupper(Zero) = Zero
  BY DEF PathByte, Zero, toupper
<1>3. Len(Fold(s)) = Len(s) /\ \A i \in 1..Len(s) : Fold(s)[i] = toupper(s[i])
  BY FoldType
<1> QED BY <1>1, <1>2, <1>3 DEF At

LEMMA CapitalType ==
    ASSUME NEW S \in {Character, PathByte}, NEW s \in Seq(S)
    PROVE  /\ Capital(s) \in Seq(S) /\ Len(Capital(s)) = Len(s)
           /\ Same(Capital(s), s)
           /\ \A k \in 1..Len(s) : Capital(s)[k] = "/" <=> s[k] = "/"
           /\ \A k \in 2..Len(s) : Capital(s)[k] = s[k]
           /\ Len(s) > 0 => Capital(s)[1] \in {s[1], toupper(s[1])}
           /\ Capital(Capital(s)) = Capital(s)
           /\ At(Capital(s), 1) = ":" => At(Capital(s), 0) # "c"
<1>0. \A k \in 1..Len(s) : s[k] \in PathByte /\ s[k] \in S
  BY CharacterFacts
<1>1. CASE ~(At(s, 0) \in Letters /\ At(s, 1) = ":")
  <2>1. Capital(s) = s
    BY <1>1 DEF Capital
  <2>2. At(s, 1) = ":" => At(s, 0) # "c"
    BY <1>1 DEF Letters
  <2> QED BY <2>1, <2>2 DEF Same
<1>2. CASE At(s, 0) \in Letters /\ At(s, 1) = ":"
  <2>1. Len(s) >= 2
    <3>1. 1 < Len(s)
      BY <1>2 DEF At, Zero
    <3> QED BY <3>1
  <2>2. s[1] \in Letters /\ s[2] = ":"
    BY <1>2, <2>1 DEF At
  <2>3. toupper(s[1]) = "C" /\ "C" \in S /\ "C" \in Letters
    BY <2>2 DEF Letters, toupper, PathByte, Character
  <2>4. Capital(s) = [s EXCEPT ![1] = "C"]
    BY <1>2, <2>3 DEF Capital
  <2>5. PICK t \in Seq(S) : /\ t = Capital(s) /\ Len(t) = Len(s) /\ t[1] = "C"
                            /\ \A k \in 2..Len(s) : t[k] = s[k]
    BY <2>1, <2>3, <2>4
  <2>6. At(t, 0) = "C" /\ At(t, 1) = ":"
    BY <2>1, <2>2, <2>5 DEF At
  <2>7. Capital(t) = t
    <3>1. Capital(t) = [t EXCEPT ![1] = "C"]
      BY <2>3, <2>5, <2>6 DEF Capital, toupper
    <3> QED BY <3>1, <2>1, <2>5
  <2>8. Same(t, s)
    <3>1. \A k \in 1..Len(t) : k = 1 \/ k \in 2..Len(s)
      BY <2>5
    <3>2. toupper(t[1]) = toupper(s[1])
      BY <2>3, <2>5 DEF toupper
    <3> QED BY <3>1, <3>2, <2>5 DEF Same
  <2>9. ASSUME NEW k \in 1..Len(s) PROVE t[k] = "/" <=> s[k] = "/"
    <3>1. "C" # "/" /\ s[1] # "/"
      BY <2>2, CharacterFacts
    <3>2. k = 1 \/ k \in 2..Len(s)
      OBVIOUS
    <3> QED BY <3>1, <3>2, <2>5
  <2> QED BY <2>3, <2>5, <2>6, <2>7, <2>8, <2>9
<1> QED BY <1>1, <1>2

LEMMA SeenType ==
    ASSUME NEW b \in Seq(PathByte)
    PROVE  /\ Seen(b) \in Seq(Character) /\ Len(Seen(b)) <= Len(b)
           /\ \A k \in 1..Len(Seen(b)) : Seen(b)[k] = b[k]
           /\ Len(Seen(b)) < Len(b) => b[Len(Seen(b)) + 1] = Zero
           /\ b \in Seq(Character) => Seen(b) = b
<1> DEFINE zero == { k \in DOMAIN b : b[k] = Zero }
<1>0. \A k \in 1..Len(b) : b[k] \in PathByte /\ (b[k] # Zero => b[k] \in Character)
  BY DEF PathByte
<1>1. CASE zero = {}
  <2>1. Seen(b) = b
    BY <1>1 DEF Seen
  <2>2. b \in Seq(Character)
    BY <1>0, <1>1
  <2> QED BY <2>1, <2>2
<1>2. CASE zero # {}
  <2>1. zero \in SUBSET Nat
    OBVIOUS
  <2>2. PICK n \in zero : \A j \in zero : n <= j
    BY <1>2, <2>1, LeastNumber
  <2>3. n = CHOOSE k \in zero : \A j \in zero : k <= j
    BY <2>1, <2>2
  <2>4. Seen(b) = SubSeq(b, 1, n - 1)
    BY <1>2, <2>3, Zenon DEF Seen
  <2>5. n \in 1..Len(b) /\ b[n] = Zero
    BY <2>2
  <2>6. \A k \in 1..(n - 1) : b[k] \in Character
    <3>1. ASSUME NEW k \in 1..(n - 1) PROVE b[k] \in Character
      <4>1. k \in 1..Len(b) /\ k \notin zero
        BY <2>2, <2>5
      <4> QED BY <4>1, <1>0
    <3> QED BY <3>1
  <2>7. b \notin Seq(Character)
    BY <2>5, CharacterFacts
  <2>8. PICK t : t = SubSeq(b, 1, n - 1)
    OBVIOUS
  <2>9. Len(t) = n - 1 /\ \A k \in 1..(n - 1) : t[k] = b[k]
    BY <2>5, <2>8
  <2>10. t \in Seq(Character)
    BY <2>5, <2>6, <2>8
  <2> QED BY <2>4, <2>5, <2>7, <2>8, <2>9, <2>10
<1> QED BY <1>1, <1>2

\* The characters before any zero are seen.
LEMMA SeenStart ==
    ASSUME NEW b \in Seq(PathByte), NEW n \in 0..Len(b), \A k \in 1..n : b[k] # Zero
    PROVE  n <= Len(Seen(b))
<1>1. PICK t \in Seq(Character) :
           /\ t = Seen(b) /\ Len(t) <= Len(b)
           /\ Len(t) < Len(b) => b[Len(t) + 1] = Zero
  BY SeenType
<1>2. SUFFICES ASSUME Len(t) < n PROVE FALSE
  BY <1>1
<1>3. Len(t) + 1 \in 1..n /\ Len(t) < Len(b)
  BY <1>2
<1> QED BY <1>1, <1>3

LEMMA SeenSame ==
    ASSUME NEW a \in Seq(PathByte), NEW b \in Seq(PathByte), Same(a, b)
    PROVE  Same(Seen(a), Seen(b))
<1>1. Len(a) = Len(b) /\ \A k \in 1..Len(a) : toupper(a[k]) = toupper(b[k])
  BY DEF Same
<1>2. \A k \in 1..Len(a) : a[k] = Zero <=> b[k] = Zero
  <2>1. \A k \in 1..Len(a) : a[k] \in PathByte /\ b[k] \in PathByte
    BY <1>1
  <2> QED BY <1>1, <2>1, toupperFacts
<1>3. PICK s \in Seq(Character) :
           /\ s = Seen(a) /\ Len(s) <= Len(a) /\ \A k \in 1..Len(s) : s[k] = a[k]
           /\ Len(s) < Len(a) => a[Len(s) + 1] = Zero
  BY SeenType
<1>4. PICK t \in Seq(Character) :
           /\ t = Seen(b) /\ Len(t) <= Len(b) /\ \A k \in 1..Len(t) : t[k] = b[k]
           /\ Len(t) < Len(b) => b[Len(t) + 1] = Zero
  BY SeenType
<1>5. \A k \in 1..Len(s) : s[k] # Zero
  BY CharacterFacts
<1>6. \A k \in 1..Len(t) : t[k] # Zero
  BY CharacterFacts
<1>7. ~(Len(s) < Len(t))
  <2>1. SUFFICES ASSUME Len(s) < Len(t) PROVE FALSE
    OBVIOUS
  <2>2. Len(s) + 1 \in 1..Len(t) /\ Len(s) + 1 \in 1..Len(a)
    BY <2>1, <1>1, <1>4
  <2> QED BY <2>1, <2>2, <1>1, <1>2, <1>3, <1>4, <1>6
<1>8. ~(Len(t) < Len(s))
  <2>1. SUFFICES ASSUME Len(t) < Len(s) PROVE FALSE
    OBVIOUS
  <2>2. Len(t) + 1 \in 1..Len(s) /\ Len(t) + 1 \in 1..Len(a)
    BY <2>1, <1>1, <1>3
  <2> QED BY <2>1, <2>2, <1>1, <1>2, <1>3, <1>4, <1>5
<1>9. Len(s) = Len(t)
  BY <1>7, <1>8
<1> QED BY <1>1, <1>3, <1>4, <1>9 DEF Same

LEMMA ConcatSame ==
    ASSUME NEW p \in Seq(PathByte), NEW a \in Seq(PathByte), NEW b \in Seq(PathByte), Same(a, b)
    PROVE  Same(p \o a, p \o b)
<1>1. Len(a) = Len(b) /\ \A k \in 1..Len(a) : toupper(a[k]) = toupper(b[k])
  BY DEF Same
<1>2. /\ Len(p \o a) = Len(p) + Len(a) /\ Len(p \o b) = Len(p) + Len(a)
      /\ \A k \in 1..(Len(p) + Len(a)) :
            /\ (p \o a)[k] = IF k <= Len(p) THEN p[k] ELSE a[k - Len(p)]
            /\ (p \o b)[k] = IF k <= Len(p) THEN p[k] ELSE b[k - Len(p)]
  BY <1>1
<1>3. ASSUME NEW k \in 1..(Len(p) + Len(a))
      PROVE  toupper((p \o a)[k]) = toupper((p \o b)[k])
  <2>1. CASE k <= Len(p)
    BY <2>1, <1>2
  <2>2. CASE ~(k <= Len(p))
    <3>1. k - Len(p) \in 1..Len(a)
      BY <2>2
    <3> QED BY <2>2, <3>1, <1>1, <1>2
  <2> QED BY <2>1, <2>2
<1> QED BY <1>2, <1>3 DEF Same

-----------------------------------------------------------------------------
\* The environment is as it was set when the program began.
Environment == MW_CYGDRIVE_PREFIX \in DrivePrefixes /\ MW_CYGWIN_ROOT \in CygwinRoots

LEMMA EnvironmentType ==
    ASSUME Environment
    PROVE  /\ MW_CYGDRIVE_PREFIX # Unset =>
                 MW_CYGDRIVE_PREFIX \in Seq(Character) /\ Len(MW_CYGDRIVE_PREFIX) \in Nat
           /\ MW_CYGWIN_ROOT # Unset => MW_CYGWIN_ROOT \in Seq(Character)
<1>1. ASSUME MW_CYGDRIVE_PREFIX # Unset PROVE MW_CYGDRIVE_PREFIX \in Seq(Character)
  BY <1>1, PathAssumption DEF Environment
<1>2. ASSUME MW_CYGWIN_ROOT # Unset PROVE MW_CYGWIN_ROOT \in Seq(Character)
  BY <1>2, PathAssumption DEF Environment
<1>3. \A s \in Seq(Character) : Len(s) \in Nat
  OBVIOUS
<1> QED BY <1>1, <1>2, <1>3

LEMMA StringBytes ==
    ASSUME NEW s \in Seq(Character)
    PROVE  s \in Seq(PathByte) /\ \A k \in 1..Len(s) : s[k] \in Character /\ s[k] # Zero
<1>1. s \in [1..Len(s) -> Character] /\ Len(s) \in Nat
  OBVIOUS
<1>2. s \in [1..Len(s) -> PathByte]
  BY <1>1, CharacterFacts
<1>3. \A n \in Nat : \A f \in [1..n -> PathByte] : f \in Seq(PathByte)
  OBVIOUS
<1> QED BY <1>1, <1>2, <1>3, CharacterFacts

\* What the end of a string is, and how many slashes it has.
LEMMA FromType ==
    ASSUME NEW s \in Seq(Character), NEW d \in Nat, d <= Len(s)
    PROVE  /\ From(s, d) \in Seq(Character) /\ Len(From(s, d)) = Len(s) - d
           /\ \A i \in 1..Len(From(s, d)) : From(s, d)[i] = s[i + d]
           /\ Slashes(From(s, d), Len(From(s, d))) <= Slashes(s, Len(s))
<1>1. PICK b : b = From(s, d)
  OBVIOUS
<1>2. b = SubSeq(s, d + 1, Len(s))
  BY <1>1 DEF From
<1>3. /\ b \in Seq(Character) /\ Len(b) = Len(s) - d
      /\ \A i \in 1..Len(b) : b[i] = s[i + d]
  BY <1>2
<1>4. Slashes(b, Len(b)) <= Slashes(s, Len(s))
  <2>1. Len(b) \in Nat /\ Len(b) + d = Len(s)
    BY <1>3
  <2> QED BY <1>3, <2>1, SlashesOfEnd
<1> QED BY <1>1, <1>3, <1>4

\* What is written for a drive, and what is left: of the path, but for one
\* character less under an empty prefix, or of the memory behind it.
LEMMA DriveType ==
    ASSUME Environment, NEW s \in Seq(Character), NEW m \in Seq(Character)
    PROVE  /\ Behind(s, m) \in Seq(Character)
           /\ Drive(s, m) \in Seq(PathByte) /\ Len(Drive(s, m)) \in {0, 3}
           /\ ~IsDrive(s, m) => Drive(s, m) = <<>> /\ Behind(s, m) = s
           /\ IsDrive(s, m) =>
                 /\ At(s, DriveAt(s)) \in PathByte
                 /\ Drive(s, m) = <<toupper(At(s, DriveAt(s))), ":", Sep>>
           /\ \/ Len(Drive(s, m)) + Len(Behind(s, m)) <= Len(s)
              \/ /\ MW_CYGDRIVE_PREFIX = <<>> /\ IsDrive(s, m)
                 /\ Len(Drive(s, m)) + Len(Behind(s, m)) <= Len(s) + 1
              \/ Len(Drive(s, m)) + Len(Behind(s, m)) <= Len(m) + 2
           /\ \/ Slashes(Behind(s, m), Len(Behind(s, m))) <= Slashes(s, Len(s))
              \/ Slashes(Behind(s, m), Len(Behind(s, m))) <= Slashes(m, Len(m))
<1>1. CASE ~IsDrive(s, m)
  <2>1. Drive(s, m) = <<>> /\ Behind(s, m) = s
    BY <1>1 DEF Drive, Behind
  <2>2. Slashes(s, Len(s)) \in Nat /\ <<>> \in Seq(PathByte) /\ Len(<<>>) = 0 /\ Len(s) \in Nat
    BY SlashesCount
  <2> QED BY <1>1, <2>1, <2>2
<1>2. CASE IsDrive(s, m)
  <2>1. PICK e \in Nat : e = Len(MW_CYGDRIVE_PREFIX) /\ MW_CYGDRIVE_PREFIX \in Seq(Character)
    BY <1>2, EnvironmentType DEF IsDrive, Matches
  <2>2. PICK d \in Nat : d = DriveAt(s) /\ e <= d
    BY <2>1 DEF DriveAt
  <2>3. s \in Seq(PathByte)
    BY StringBytes
  <2>4. At(s, d) \in PathByte /\ toupper(At(s, d)) \in PathByte
    BY <2>3, AtType, toupperFacts
  <2>5. Drive(s, m) = <<toupper(At(s, d)), ":", Sep>>
    BY <1>2, <2>2 DEF Drive
  <2>6. Drive(s, m) \in Seq(PathByte) /\ Len(Drive(s, m)) = 3
    BY <2>4, <2>5, CharacterFacts
  <2>7. CASE d < Len(s)
    <3>1. Following(s, m) = At(s, d + 1) /\ Following(s, m) # Zero
      BY <1>2, <2>2, <2>7, CharacterFacts DEF Following, IsDrive
    <3>2. d + 2 \in Nat /\ d + 2 <= Len(s)
      BY <3>1 DEF At
    <3>3. Behind(s, m) = From(s, d + 2)
      BY <1>2, <2>2, <2>7 DEF Behind
    <3>4. PICK b \in Seq(Character) : b = Behind(s, m) /\ Len(b) = Len(s) - (d + 2)
      BY <3>2, <3>3, FromType
    <3>5. Slashes(b, Len(b)) <= Slashes(s, Len(s))
      BY <3>2, <3>3, <3>4, FromType
    <3>6. Len(s) \in Nat /\ Len(b) \in Nat
      OBVIOUS
    <3>7. CASE d = 0
      <4>1. MW_CYGDRIVE_PREFIX = <<>>
        BY <2>1, <2>2, <3>7
      <4>2. 3 + Len(b) <= Len(s) + 1
        BY <3>4, <3>6, <3>7
      <4> QED BY <1>2, <2>2, <2>4, <2>5, <2>6, <3>4, <3>5, <4>1, <4>2
    <3>8. CASE d # 0
      <4>1. 3 + Len(b) <= Len(s)
        BY <3>4, <3>6, <3>8
      <4> QED BY <1>2, <2>2, <2>4, <2>5, <2>6, <3>4, <3>5, <4>1
    <3> QED BY <3>7, <3>8
  <2>8. CASE ~(d < Len(s))
    <3>1. Following(s, m) = At(m, 0) /\ Following(s, m) # Zero
      BY <1>2, <2>2, <2>8, CharacterFacts DEF Following, IsDrive
    <3>2. 1 \in Nat /\ 1 <= Len(m)
      BY <3>1 DEF At
    <3>3. Behind(s, m) = From(m, 1)
      BY <1>2, <2>2, <2>8 DEF Behind
    <3>4. PICK b \in Seq(Character) : b = Behind(s, m) /\ Len(b) = Len(m) - 1
      BY <3>2, <3>3, FromType
    <3>5. Slashes(b, Len(b)) <= Slashes(m, Len(m))
      BY <3>2, <3>3, <3>4, FromType
    <3>6. 3 + Len(b) <= Len(m) + 2
      BY <3>4
    <3> QED BY <1>2, <2>2, <2>4, <2>5, <2>6, <3>4, <3>5, <3>6
  <2> QED BY <2>7, <2>8
<1> QED BY <1>1, <1>2

\* Whether the root is put in front is seen also with the drive in capitals.
LEMMA RootOfCapital ==
    ASSUME NEW b \in Seq(Character)
    PROVE  UnderRoot(Capital(b)) <=> UnderRoot(b)
<1>1. CASE At(b, 0) \in Letters /\ At(b, 1) = ":"
  <2>1. /\ Len(Capital(b)) = Len(b) /\ \A k \in 1..Len(b) : Capital(b)[k] = "/" <=> b[k] = "/"
    BY CapitalType
  <2>0. At(b, 0) # Zero
    BY <1>1 DEF Letters, Zero
  <2>2. 0 < Len(b) /\ b[1] # "/"
    BY <1>1, <2>0, CharacterFacts DEF At
  <2>3. 1 \in 1..Len(b)
    BY <2>2
  <2>4. At(b, 0) # "/" /\ At(Capital(b), 0) # "/"
    BY <2>1, <2>2, <2>3 DEF At
  <2> QED BY <2>4 DEF UnderRoot
<1>2. CASE ~(At(b, 0) \in Letters /\ At(b, 1) = ":")
  BY <1>2 DEF Capital
<1> QED BY <1>1, <1>2

\* Under the root a path begins with two slashes; the first is passed over.
LEMMA BehindRoot ==
    ASSUME Environment, NEW b \in Seq(Character), UnderRoot(b)
    PROVE  /\ MW_CYGWIN_ROOT \in Seq(Character)
           /\ Len(b) > 1 /\ b[1] = "/"
           /\ Tail(b) \in Seq(PathByte) /\ Len(Tail(b)) = Len(b) - 1
           /\ \A i \in 1..(Len(b) - 1) : Tail(b)[i] = b[i + 1]
<1>1. MW_CYGWIN_ROOT \in Seq(Character)
  BY EnvironmentType DEF UnderRoot
<1>2. Len(b) > 1
  <2>1. At(b, 1) # Zero
    BY DEF UnderRoot, Zero
  <2> QED BY <2>1 DEF At
<1>3. b[1] = "/"
  BY <1>2 DEF UnderRoot, At
<1>4. b \in Seq(PathByte) /\ b # <<>>
  BY <1>2, StringBytes
<1>5. Tail(b) \in Seq(PathByte) /\ Len(Tail(b)) = Len(b) - 1
  BY <1>4
<1>6. \A i \in 1..(Len(b) - 1) : Tail(b)[i] = b[i + 1]
  BY <1>4
<1> QED BY <1>1, <1>2, <1>3, <1>5, <1>6

LEMMA ExcessType ==
    ASSUME NEW s \in Seq(Character), NEW m \in Seq(Character)
    PROVE  /\ Slashes(s, Len(s)) \in Nat /\ Slashes(m, Len(m)) \in Nat
           /\ Excess(s, m) \in Nat
           /\ Excess(s, m) >= Slashes(s, Len(s)) + Len(m) + Slashes(m, Len(m))
           /\ MW_CYGDRIVE_PREFIX = <<>> /\ IsDrive(s, m) =>
                 Excess(s, m) >= Slashes(s, Len(s)) + Len(m) + Slashes(m, Len(m)) + 1
<1>1. Len(s) \in Nat /\ Len(m) \in Nat
  OBVIOUS
<1>2. PICK x \in Nat, y \in Nat : x = Slashes(s, Len(s)) /\ y = Slashes(m, Len(m))
  <2>1. Slashes(s, Len(s)) \in Nat /\ Slashes(m, Len(m)) \in Nat
    BY <1>1, SlashesCount
  <2> QED BY <2>1
<1>3. PICK e \in {0, 1} : e = IF MW_CYGDRIVE_PREFIX = <<>> /\ IsDrive(s, m) THEN 1 ELSE 0
  OBVIOUS
<1>4. Excess(s, m) = x + Len(m) + y + e
  BY <1>2, <1>3 DEF Excess
<1> QED BY <1>1, <1>2, <1>3, <1>4

LEMMA RootFits ==
    ASSUME NEW max \in Nat, NEW d \in Nat, NEW b \in Nat, NEW r \in Nat, NEW s \in Nat, NEW m \in Nat,
           NEW k \in Nat, NEW z \in Nat, NEW x \in Nat, NEW y \in Nat, NEW g \in Nat,
           max > 3, k <= z, z <= x \/ z <= y, g >= x + m + y, r + s + 3 <= max - 1,
           \/ d + b <= s
           \/ d + b <= s + 1 /\ g >= x + m + y + 1
           \/ d + b <= m + 2
    PROVE  d + r + 2 + (b - 1 + k) + 1 <= max + g
OBVIOUS

\* How much is written, and that it is bytes.
LEMMA BytesType ==
    ASSUME Environment, NEW s \in Seq(Character), NEW m \in Seq(Character), NEW stale \in PathByte
    PROVE  /\ Bytes(s, stale, m) \in Seq(PathByte)
           /\ ~TooLong(s, m) => Len(Bytes(s, stale, m)) + 1 <= MAX_PATH + Excess(s, m)
<1>1. PICK d \in Seq(PathByte), b \in Seq(Character) :
           /\ d = Drive(s, m) /\ b = Behind(s, m) /\ Len(d) \in {0, 3}
  BY DriveType
<1>2. b \in Seq(PathByte)
  BY StringBytes
<1>3. PICK x \in Nat, y \in Nat, z \in Nat, g \in Nat :
           /\ x = Slashes(s, Len(s)) /\ y = Slashes(m, Len(m)) /\ z = Slashes(b, Len(b))
           /\ g = Excess(s, m)
  <2>1. Slashes(b, Len(b)) \in Nat
    BY SlashesCount
  <2> QED BY <2>1, ExcessType
<1>4. z <= x \/ z <= y
  BY <1>1, <1>3, DriveType
<1>5. g >= x + Len(m) + y
  BY <1>3, ExcessType
<1>6. \/ Len(d) + Len(b) <= Len(s)
      \/ Len(d) + Len(b) <= Len(s) + 1 /\ g >= x + Len(m) + y + 1
      \/ Len(d) + Len(b) <= Len(m) + 2
  BY <1>1, <1>3, DriveType, ExcessType
<1>7. MAX_PATH \in Nat /\ MAX_PATH > 3 /\ Len(s) \in Nat /\ Len(m) \in Nat
  BY PathAssumption
<1>8. CASE UnderRoot(b)
  <2>1. PICK r \in Seq(Character) : r = MW_CYGWIN_ROOT
    BY <1>8, EnvironmentType DEF UnderRoot
  <2>2. PICK t \in Seq(PathByte) :
             t = Tail(b) /\ Len(t) = Len(b) - 1 /\ \A i \in 1..(Len(b) - 1) : t[i] = b[i + 1]
    BY <1>8, BehindRoot
  <2>3. PICK k \in Nat : k = Slashes(t, Len(t)) /\ k <= z
    <3>1. Len(t) \in Nat /\ 1 \in Nat /\ Len(b) = Len(t) + 1 /\ \A i \in 1..Len(t) : t[i] = b[i + 1]
      BY <2>2
    <3>2. Slashes(t, Len(t)) <= Slashes(b, Len(t) + 1)
      BY <3>1, SlashesOfEnd
    <3>3. Slashes(t, Len(t)) \in Nat
      BY SlashesCount
    <3> QED BY <1>3, <3>1, <3>2, <3>3
  <2>4. PICK q \in Seq(PathByte) : q = Rest(t, stale) /\ Len(q) = Len(t) + k
    BY <2>3, RestType
  <2>5. Bytes(s, stale, m) = d \o (r \o <<Zero, Sep>> \o q)
    BY <1>1, <1>8, <2>1, <2>2, <2>4 DEF Bytes
  <2>6. r \in Seq(PathByte) /\ <<Zero, Sep>> \in Seq(PathByte)
    BY StringBytes, CharacterFacts DEF PathByte
  <2>7. PICK w \in Seq(PathByte) : w = <<Zero, Sep>> /\ Len(w) = 2
    BY <2>6
  <2>8. /\ d \o (r \o w \o q) \in Seq(PathByte)
        /\ Len(d \o (r \o w \o q)) = Len(d) + Len(r) + 2 + Len(q)
    BY <2>6, <2>7
  <2>9. ~TooLong(s, m) => Len(r) + Len(s) + 3 <= MAX_PATH - 1
    BY <1>1, <1>7, <1>8, <2>1 DEF TooLong
  <2>10. Len(r) \in Nat /\ Len(q) = Len(b) - 1 + k /\ Len(b) \in Nat
    BY <2>2, <2>4
  <2>11. ASSUME Len(r) + Len(s) + 3 <= MAX_PATH - 1
         PROVE  Len(d) + Len(r) + 2 + Len(q) + 1 <= MAX_PATH + g
    <3>1. Len(d) \in Nat /\ Len(b) \in Nat /\ Len(r) \in Nat /\ Len(s) \in Nat /\ Len(m) \in Nat
      BY <1>1, <1>7, <2>10
    <3>2. Len(d) + Len(r) + 2 + (Len(b) - 1 + k) + 1 <= MAX_PATH + g
      BY <1>4, <1>5, <1>6, <1>7, <2>3, <2>11, <3>1, RootFits
    <3> QED BY <2>10, <3>2
  <2> QED BY <1>3, <2>5, <2>7, <2>8, <2>9, <2>11
<1>9. CASE ~UnderRoot(b)
  <2>1. PICK t \in Seq(PathByte) :
             /\ t = Capital(b) /\ Len(t) = Len(b) /\ \A k \in 1..Len(b) : t[k] = "/" <=> b[k] = "/"
    <3>1. PathByte \in {Character, PathByte}
      OBVIOUS
    <3> QED BY <1>2, <3>1, CapitalType
  <2>2. Slashes(t, Len(t)) = z
    <3>1. Len(t) \in Nat /\ \A k \in 1..Len(t) : t[k] = "/" <=> b[k] = "/"
      BY <2>1
    <3>2. Slashes(t, Len(t)) = Slashes(b, Len(t))
      BY <3>1, SlashesEqual
    <3> QED BY <1>3, <2>1, <3>2
  <2>3. PICK q \in Seq(PathByte) : q = Rest(t, stale) /\ Len(q) = Len(t) + z
    BY <2>2, RestType
  <2>4. Bytes(s, stale, m) = d \o q
    BY <1>1, <1>9, <2>1, <2>3 DEF Bytes
  <2>5. d \o q \in Seq(PathByte) /\ Len(d \o q) = Len(d) + Len(q)
    OBVIOUS
  <2>6. ~TooLong(s, m) => Len(s) <= MAX_PATH - 1
    BY <1>7 DEF TooLong
  <2>7. ASSUME Len(s) <= MAX_PATH - 1
        PROVE  Len(d) + Len(q) + 1 <= MAX_PATH + g
    <3>1. Len(q) = Len(b) + z /\ Len(b) \in Nat
      BY <2>1, <2>3
    <3> QED BY <1>1, <1>4, <1>5, <1>6, <1>7, <2>7, <3>1
  <2> QED BY <1>3, <2>4, <2>5, <2>6, <2>7
<1> QED BY <1>8, <1>9

LEMMA CanonType ==
    ASSUME Environment, NEW s \in Seq(Character), NEW m \in Seq(Character), NEW stale \in PathByte
    PROVE  Canon(s, stale, m) \in Seq(Character)
BY BytesType, SeenType DEF Canon

LEMMA CanonWritesType ==
    ASSUME Environment, NEW s \in Seq(Character), NEW m \in Seq(Character)
    PROVE  CanonWrites(s, m) \in 0..(MAX_PATH + Excess(s, m))
<1>1. MAX_PATH \in Nat /\ MAX_PATH > 3 /\ Excess(s, m) \in Nat
  BY PathAssumption, ExcessType
<1>2. Zero \in PathByte /\ Len(Drive(s, m)) \in {0, 3}
  BY DriveType DEF PathByte
<1>3. /\ Bytes(s, Zero, m) \in Seq(PathByte)
      /\ ~TooLong(s, m) => Len(Bytes(s, Zero, m)) + 1 <= MAX_PATH + Excess(s, m)
  BY <1>2, BytesType
<1>4. Len(Bytes(s, Zero, m)) \in Nat
  BY <1>3
<1>5. CASE MAX_PATH - 1 < Len(s)
  <2>1. CanonWrites(s, m) = 0
    BY <1>5 DEF CanonWrites
  <2> QED BY <1>1, <2>1
<1>6. CASE ~(MAX_PATH - 1 < Len(s)) /\ TooLong(s, m)
  <2>1. CanonWrites(s, m) = Len(Drive(s, m))
    BY <1>6 DEF CanonWrites
  <2> QED BY <1>1, <1>2, <2>1
<1>7. CASE ~(MAX_PATH - 1 < Len(s)) /\ ~TooLong(s, m)
  <2>1. CanonWrites(s, m) = Len(Bytes(s, Zero, m)) + 1
    BY <1>7 DEF CanonWrites
  <2> QED BY <1>1, <1>3, <1>4, <1>7, <2>1
<1> QED BY <1>5, <1>6, <1>7

\* A string without a slash that is no drive is canonical but for its letter.
LEMMA CanonOfClean ==
    ASSUME Environment, NEW s \in Seq(Character), NEW m \in Seq(Character), NEW stale \in PathByte,
           ~IsDrive(s, m), \A k \in 1..Len(s) : s[k] # "/"
    PROVE  Canon(s, stale, m) = Capital(s)
<1>1. Drive(s, m) = <<>> /\ Behind(s, m) = s
  BY DriveType
<1>2. ~UnderRoot(s)
  <2>1. SUFFICES ASSUME At(s, 0) = "/" PROVE FALSE
    BY DEF UnderRoot
  <2>2. 0 < Len(s) /\ s[0 + 1] = "/"
    BY <2>1 DEF At, Zero
  <2> QED BY <2>2
<1>3. PICK t \in Seq(Character) :
           t = Capital(s) /\ Len(t) = Len(s) /\ \A k \in 1..Len(t) : t[k] # "/"
  BY CapitalType
<1>4. t \in Seq(PathByte)
  BY StringBytes
<1>5. Rest(t, stale) = t
  BY <1>3, <1>4, RestOfClean
<1>6. Bytes(s, stale, m) = t
  BY <1>1, <1>2, <1>3, <1>5 DEF Bytes
<1>7. Seen(t) = t
  BY <1>4, SeenType
<1> QED BY <1>3, <1>6, <1>7 DEF Canon

LEMMA RangeIs ==
    ASSUME NEW S, NEW s \in Seq(S), NEW x
    PROVE  x \in Range(s) <=> \E k \in 1..Len(s) : s[k] = x
BY DEF Range

-----------------------------------------------------------------------------
\* Paths that differ in case have canonical forms that differ in case.
LEMMA FoldedParts ==
    ASSUME Environment, NEW s \in Seq(Character), NEW m \in Seq(Character)
    PROVE  /\ Matches(Fold(s)) <=> Matches(s)
           /\ IsDrive(Fold(s), m) <=> IsDrive(s, m)
           /\ Drive(Fold(s), m) = Drive(s, m)
           /\ Behind(Fold(s), m) = Behind(s, m) \/ Behind(Fold(s), m) = Fold(Behind(s, m))
<1>0. s \in Seq(PathByte)
  BY StringBytes
<1>1. PICK f \in Seq(Character) :
           /\ f = Fold(s) /\ Len(f) = Len(s) /\ \A k \in 1..Len(s) : f[k] = toupper(s[k])
  BY FoldType
<1>2. ASSUME NEW k \in Nat
      PROVE  /\ At(f, k) = toupper(At(s, k)) /\ At(s, k) \in PathByte
             /\ At(f, k) \in Letters <=> At(s, k) \in Letters
             /\ \A x \in {"/", Sep} : At(f, k) = x <=> At(s, k) = x
  <2>1. At(f, k) = toupper(At(s, k)) /\ At(s, k) \in PathByte
    BY <1>0, <1>1, AtType
  <2> QED BY <2>1, toupperFacts
<1>3. Fold(f) = f
  BY <1>0, <1>1, FoldIsSame
<1>4. Matches(f) <=> Matches(s)
  BY <1>1, <1>3 DEF Matches, Begins
<1>5. CASE MW_CYGDRIVE_PREFIX = Unset
  <2>1. ~IsDrive(s, m) /\ ~IsDrive(f, m)
    BY <1>5 DEF IsDrive, Matches
  <2> QED BY <1>1, <1>4, <1>5, <2>1 DEF Drive, Behind
<1>6. CASE MW_CYGDRIVE_PREFIX # Unset
  <2>1. Len(MW_CYGDRIVE_PREFIX) \in Nat
    BY <1>6, EnvironmentType
  <2>2. PICK d \in Nat : d = DriveAt(s) /\ d = DriveAt(f)
    BY <2>1, <1>2 DEF DriveAt
  <2>3. IsDrive(f, m) <=> IsDrive(s, m)
    <3>1. d + 1 \in Nat
      OBVIOUS
    <3>2. /\ At(f, d) \in Letters <=> At(s, d) \in Letters
          /\ \A x \in {"/", Sep} : At(f, d + 1) = x <=> At(s, d + 1) = x
      BY <3>1, <1>2
    <3>3. \A x \in {"/", Sep} : Following(f, m) = x <=> Following(s, m) = x
      BY <1>1, <2>2, <3>2 DEF Following
    <3> QED BY <2>2, <3>2, <3>3, <1>4 DEF IsDrive
  <2>4. Drive(f, m) = Drive(s, m)
    <3>1. toupper(At(f, d)) = toupper(At(s, d))
      BY <1>2, toupperFacts
    <3> QED BY <2>2, <2>3, <3>1 DEF Drive
  <2>5. Behind(f, m) = Behind(s, m) \/ Behind(f, m) = Fold(Behind(s, m))
    <3>1. CASE ~IsDrive(s, m)
      BY <3>1, <2>3, <1>1 DEF Behind
    <3>2. CASE IsDrive(s, m) /\ ~(d < Len(s))
      BY <3>2, <1>1, <2>2, <2>3 DEF Behind
    <3>3. CASE IsDrive(s, m) /\ d < Len(s)
      <4>1. Following(s, m) # Zero /\ Following(s, m) = At(s, d + 1)
        BY <2>2, <3>3, CharacterFacts DEF IsDrive, Following
      <4>2. d + 2 \in Nat /\ d + 2 <= Len(s) /\ d + 2 <= Len(f)
        BY <1>1, <4>1 DEF At
      <4>3. Behind(s, m) = From(s, d + 2) /\ Behind(f, m) = From(f, d + 2)
        BY <3>3, <1>1, <2>2, <2>3 DEF Behind
      <4>4. PICK b \in Seq(Character) :
               /\ b = From(s, d + 2) /\ Len(b) = Len(s) - (d + 2)
               /\ \A i \in 1..Len(b) : b[i] = s[i + (d + 2)]
        BY <4>2, FromType
      <4>5. PICK c \in Seq(Character) :
               /\ c = From(f, d + 2) /\ Len(c) = Len(f) - (d + 2)
               /\ \A i \in 1..Len(c) : c[i] = f[i + (d + 2)]
        BY <4>2, FromType
      <4>6. PICK g \in Seq(Character) :
               /\ g = Fold(b) /\ Len(g) = Len(b) /\ \A k \in 1..Len(b) : g[k] = toupper(b[k])
        BY FoldType
      <4>7. \A i \in 1..Len(b) : i + (d + 2) \in 1..Len(s)
        BY <4>2, <4>4
      <4>8. Len(c) = Len(g) /\ \A k \in 1..Len(g) : c[k] = g[k]
        BY <4>4, <4>5, <4>6, <4>7, <1>1
      <4>9. c = g
        BY <4>8, Zenon, SameText
      <4> QED BY <4>3, <4>4, <4>5, <4>6, <4>9
    <3> QED BY <3>1, <3>2, <3>3
  <2> QED BY <1>1, <1>4, <2>3, <2>4, <2>5
<1> QED BY <1>5, <1>6

LEMMA FoldedCanon ==
    ASSUME Environment, NEW s \in Seq(Character), NEW mem \in Seq(Character), NEW stale \in PathByte
    PROVE  /\ TooLong(Fold(s), mem) <=> TooLong(s, mem)
           /\ OS_EqualPath(Canon(Fold(s), stale, mem), Canon(s, stale, mem))
<1>1. PICK f \in Seq(Character) : f = Fold(s) /\ Len(f) = Len(s)
  BY FoldType
<1>2. PICK b \in Seq(Character) : b = Behind(s, mem)
  BY DriveType
<1>3. PICK c \in Seq(Character) : c = Behind(f, mem) /\ (c = b \/ c = Fold(b))
  BY <1>1, <1>2, FoldType, FoldedParts, DriveType
<1>4. b \in Seq(PathByte) /\ c \in Seq(PathByte)
  BY StringBytes
<1>5. Same(c, b) /\ Len(c) = Len(b)
  <2>1. Same(b, b)
    BY DEF Same
  <2> QED BY <1>3, <1>4, <2>1, FoldIsSame DEF Same
<1>6. UnderRoot(c) <=> UnderRoot(b)
  <2>1. \A k \in Nat : (At(c, k) = toupper(At(b, k)) \/ At(c, k) = At(b, k)) /\ At(b, k) \in PathByte
    BY <1>3, <1>4, AtType
  <2>2. \A k \in Nat : At(c, k) = "/" <=> At(b, k) = "/"
    BY <2>1, toupperFacts
  <2> QED BY <2>2 DEF UnderRoot
<1>7. TooLong(f, mem) <=> TooLong(s, mem)
  BY <1>1, <1>2, <1>3, <1>6 DEF TooLong
<1>8. PICK d \in Seq(PathByte) : d = Drive(s, mem) /\ d = Drive(f, mem)
  BY <1>1, DriveType, FoldedParts
<1>10. Same(Bytes(f, stale, mem), Bytes(s, stale, mem))
  <2>1. CASE UnderRoot(b)
    <3>1. PICK r \in Seq(Character) : r = MW_CYGWIN_ROOT
      BY <2>1, EnvironmentType DEF UnderRoot
    <3>2. Len(b) > 0
      BY <2>1, BehindRoot
    <3>3. /\ Tail(b) \in Seq(PathByte) /\ Len(Tail(b)) = Len(b) - 1
          /\ \A i \in 1..(Len(b) - 1) : Tail(b)[i] = b[i + 1]
      BY <2>1, BehindRoot
    <3>4. /\ Tail(c) \in Seq(PathByte) /\ Len(Tail(c)) = Len(b) - 1
          /\ \A i \in 1..(Len(b) - 1) : Tail(c)[i] = c[i + 1]
      BY <1>5, <1>6, <2>1, BehindRoot
    <3>5. Same(Tail(c), Tail(b))
      <4>1. \A i \in 1..(Len(b) - 1) : i + 1 \in 1..Len(b)
        BY <3>2
      <4>2. \A i \in 1..(Len(b) - 1) : toupper(Tail(c)[i]) = toupper(Tail(b)[i])
        BY <1>3, <1>5, <3>3, <3>4, <4>1 DEF Same
      <4> QED BY <3>3, <3>4, <4>2 DEF Same
    <3>6. PICK q \in Seq(PathByte), u \in Seq(PathByte) :
             q = Rest(Tail(c), stale) /\ u = Rest(Tail(b), stale) /\ Same(q, u)
      BY <3>3, <3>4, <3>5, RestType, RestSame
    <3>7. r \in Seq(PathByte) /\ <<Zero, Sep>> \in Seq(PathByte)
      BY StringBytes, CharacterFacts DEF PathByte
    <3>8. PICK z \in Seq(PathByte) : z = <<Zero, Sep>>
      BY <3>7
    <3>9. PICK p \in Seq(PathByte) : p = r \o z
      <4>1. r \o z \in Seq(PathByte)
        BY <3>7
      <4> QED BY <4>1
    <3>10. PICK m \in Seq(PathByte), n \in Seq(PathByte) : m = p \o q /\ n = p \o u /\ Same(m, n)
      <4>1. p \o q \in Seq(PathByte) /\ p \o u \in Seq(PathByte)
        OBVIOUS
      <4>2. Same(p \o q, p \o u)
        BY <3>6, ConcatSame
      <4> QED BY <4>1, <4>2
    <3>11. Same(d \o m, d \o n)
      BY <1>8, <3>10, ConcatSame
    <3>12. m = r \o z \o q /\ n = r \o z \o u
      BY <3>9, <3>10
    <3>13. /\ Bytes(f, stale, mem) = d \o (r \o z \o q)
           /\ Bytes(s, stale, mem) = d \o (r \o z \o u)
      BY <1>2, <1>3, <1>6, <1>8, <2>1, <3>1, <3>6, <3>8 DEF Bytes
    <3> QED BY <3>11, <3>12, <3>13
  <2>2. CASE ~UnderRoot(b)
    <3>1. PICK x \in Seq(PathByte), y \in Seq(PathByte) :
             /\ x = Capital(c) /\ Same(x, c) /\ y = Capital(b) /\ Same(y, b)
      <4>1. PathByte \in {Character, PathByte}
        OBVIOUS
      <4> QED BY <1>4, <4>1, CapitalType
    <3>2. Same(x, y)
      BY <3>1, <1>4, <1>5 DEF Same
    <3>3. PICK q \in Seq(PathByte), u \in Seq(PathByte) :
             q = Rest(x, stale) /\ u = Rest(y, stale) /\ Same(q, u)
      BY <3>2, RestType, RestSame
    <3>4. Same(d \o q, d \o u)
      BY <1>8, <3>3, ConcatSame
    <3>5. Bytes(f, stale, mem) = d \o q /\ Bytes(s, stale, mem) = d \o u
      BY <1>2, <1>3, <1>6, <1>8, <2>2, <3>1, <3>3 DEF Bytes
    <3> QED BY <3>4, <3>5
  <2> QED BY <2>1, <2>2
<1>11. Bytes(f, stale, mem) \in Seq(PathByte) /\ Bytes(s, stale, mem) \in Seq(PathByte)
  BY BytesType
<1>12. PICK x \in Seq(Character), y \in Seq(Character) :
           x = Canon(f, stale, mem) /\ y = Canon(s, stale, mem) /\ Same(x, y)
  BY <1>10, <1>11, SeenType, SeenSame DEF Canon
<1>13. x \in Seq(PathByte) /\ y \in Seq(PathByte)
  BY StringBytes
<1>14. Fold(x) = Fold(y)
  BY <1>12, <1>13, SameFold
<1> QED BY <1>1, <1>7, <1>12, <1>14 DEF OS_EqualPath

-----------------------------------------------------------------------------
\* Where a character is first, if it is there.
First(s, x) == LET I == { i \in 1..Len(s) : s[i] = x } IN IF I # {} THEN Min(I) ELSE 0

LEMMA FirstIs ==
    ASSUME NEW s
    PROVE  /\ SelectInSeq(s, LAMBDA ch : ch = Sep) = First(s, Sep)
           /\ SelectInSeq(s, LAMBDA ch : ch = "/") = First(s, "/")
BY Zenon DEF SelectInSeq, First

LEMMA FirstOf ==
    ASSUME NEW x, NEW s \in Seq(PathByte)
    PROVE  \/ First(s, x) = 0 /\ \A k \in 1..Len(s) : s[k] # x
           \/ /\ First(s, x) \in 1..Len(s) /\ s[First(s, x)] = x
              /\ \A k \in 1..(First(s, x) - 1) : s[k] # x
<1> DEFINE I == { i \in 1..Len(s) : s[i] = x }
           n == First(s, x)
<1>1. n = IF I # {} THEN Min(I) ELSE 0
  BY Zenon DEF First
<1>2. CASE I = {}
  BY <1>1, <1>2
<1>3. CASE I # {}
  <2>1. I \in SUBSET Nat
    OBVIOUS
  <2>2. \E y \in I : \A z \in I : y <= z
    BY <1>3, <2>1, LeastNumber
  <2>3. Min(I) \in I /\ \A z \in I : Min(I) <= z
    BY <2>2, Zenon DEF Min
  <2>4. PICK l : l = Min(I)
    OBVIOUS
  <2>5. l \in 1..Len(s) /\ s[l] = x
    BY <2>3, <2>4
  <2>6. ASSUME NEW k \in 1..(l - 1) PROVE s[k] # x
    <3>1. k \in 1..Len(s) /\ ~(l <= k)
      BY <2>5
    <3> QED BY <2>3, <2>4, <3>1
  <2> QED BY <1>1, <1>3, <2>4, <2>5, <2>6
<1> QED BY <1>2, <1>3

\* The directory of an absolute path begins at a separator, or a server ends.
LEMMA DirOfAbsolute ==
    ASSUME NEW p \in Seq(Character), Absolute(p)
    PROVE  OS_IsFullPath(p) /\ At(p, OS_GetDirPtr(p)) \in {Sep, Zero}
<1>1. OS_IsFullPath(p)
  BY DEF OS_IsFullPath
<1>2. CASE At(p, 0) = Sep /\ At(p, 1) = Sep
  <2>1. 1 < Len(p)
    BY <1>2, CharacterFacts DEF At
  <2>2. PICK r \in Seq(Character) :
           r = From(p, 2) /\ Len(r) = Len(p) - 2 /\ \A k \in 1..Len(r) : r[k] = p[k + 2]
    <3>1. 2 \in Nat /\ 2 <= Len(p)
      BY <2>1
    <3> QED BY <3>1, FromType
  <2>3. PICK m : m = SelectInSeq(r, LAMBDA ch : ch = Sep)
    OBVIOUS
  <2>4. m = 0 \/ (m \in 1..Len(r) /\ r[m] = Sep)
    <3>1. r \in Seq(PathByte)
      BY StringBytes
    <3>2. m = First(r, Sep)
      BY <2>3, FirstIs, Zenon
    <3> QED BY <3>1, <3>2, FirstOf
  <2>5. OS_GetDirPtr(p) = IF m = 0 THEN Len(p) ELSE m + 1
    BY <1>2, <2>2, <2>3, Zenon DEF OS_GetDirPtr
  <2>6. CASE m = 0
    BY <1>1, <2>5, <2>6 DEF At
  <2>7. CASE m \in 1..Len(r) /\ r[m] = Sep
    <3>1. PICK l \in Nat : l = Len(p)
      OBVIOUS
    <3>2. m \in 1..(l - 2) /\ p[m + 2] = Sep
      BY <2>2, <2>7, <3>1
    <3>3. m # 0 /\ m + 1 < l /\ m + 1 + 1 = m + 2
      BY <3>2
    <3> QED BY <1>1, <2>5, <3>1, <3>2, <3>3 DEF At
  <2> QED BY <2>4, <2>6, <2>7
<1>3. CASE ~(At(p, 0) = Sep /\ At(p, 1) = Sep)
  <2>1. At(p, 0) \in Letters /\ At(p, 1) = ":" /\ At(p, 2) = Sep
    BY <1>3 DEF Absolute
  <2>2. OS_GetDirPtr(p) = 2
    BY <1>3, <2>1, Zenon DEF OS_GetDirPtr
  <2> QED BY <1>1, <2>1, <2>2
<1> QED BY <1>2, <1>3

\* What is seen of the beginning of a string is the beginning of what is seen.
LEMMA SeenPrefix ==
    ASSUME NEW u \in Seq(PathByte), NEW v \in Seq(PathByte),
           Len(u) <= Len(v), \A k \in 1..Len(u) : u[k] = v[k]
    PROVE  IsPrefix(Seen(u), Seen(v))
<1>1. PICK s \in Seq(Character) :
           /\ s = Seen(u) /\ Len(s) <= Len(u) /\ \A k \in 1..Len(s) : s[k] = u[k]
           /\ Len(s) < Len(u) => u[Len(s) + 1] = Zero
  BY SeenType
<1>2. PICK t \in Seq(Character) :
           /\ t = Seen(v) /\ Len(t) <= Len(v) /\ \A k \in 1..Len(t) : t[k] = v[k]
           /\ Len(t) < Len(v) => v[Len(t) + 1] = Zero
  BY SeenType
<1>3. \A k \in 1..Len(s) : s[k] # Zero /\ k \in 1..Len(u)
  BY <1>1, StringBytes
<1>4. Len(s) <= Len(t)
  <2>1. Len(s) \in 0..Len(v) /\ \A k \in 1..Len(s) : v[k] # Zero
    BY <1>1, <1>3
  <2> QED BY <1>2, <2>1, SeenStart
<1>5. \A k \in 1..Len(s) : s[k] = t[k]
  BY <1>1, <1>2, <1>3, <1>4
<1>6. SubSeq(s, 1, Len(s)) = SubSeq(t, 1, Len(s))
  BY <1>4, <1>5
<1> QED BY <1>1, <1>2, <1>4, <1>6 DEF IsPrefix

\* Nothing is seen behind a zero.
LEMMA SeenToZero ==
    ASSUME NEW u \in Seq(PathByte), NEW v \in Seq(PathByte), Len(v) > 0, v[1] = Zero
    PROVE  Seen(u \o v) = Seen(u)
<1>1. PICK w \in Seq(PathByte) :
           /\ w = u \o v /\ Len(w) = Len(u) + Len(v)
           /\ \A k \in 1..Len(u) : w[k] = u[k]
           /\ w[Len(u) + 1] = Zero
  <2>1. u \o v \in Seq(PathByte) /\ Len(u \o v) = Len(u) + Len(v)
    OBVIOUS
  <2>2. \A k \in 1..Len(u) : (u \o v)[k] = u[k]
    OBVIOUS
  <2>3. (u \o v)[Len(u) + 1] = v[1]
    OBVIOUS
  <2> QED BY <2>1, <2>2, <2>3
<1>2. PICK s \in Seq(Character) :
           /\ s = Seen(u) /\ Len(s) <= Len(u) /\ \A k \in 1..Len(s) : s[k] = u[k]
           /\ Len(s) < Len(u) => u[Len(s) + 1] = Zero
  BY SeenType
<1>3. PICK t \in Seq(Character) :
           /\ t = Seen(w) /\ Len(t) <= Len(w) /\ \A k \in 1..Len(t) : t[k] = w[k]
           /\ Len(t) < Len(w) => w[Len(t) + 1] = Zero
  BY SeenType
<1>4. \A k \in 1..Len(t) : w[k] # Zero
  BY <1>3, StringBytes
<1>5. \A k \in 1..Len(s) : u[k] # Zero
  BY <1>2, StringBytes
<1>6. Len(t) <= Len(u)
  <2>1. SUFFICES ASSUME Len(u) < Len(t) PROVE FALSE
    OBVIOUS
  <2>2. Len(u) + 1 \in 1..Len(t)
    BY <2>1
  <2> QED BY <1>1, <1>4, <2>2
<1>7. ~(Len(s) < Len(t))
  <2>1. SUFFICES ASSUME Len(s) < Len(t) PROVE FALSE
    OBVIOUS
  <2>2. Len(s) + 1 \in 1..Len(t) /\ Len(s) + 1 \in 1..Len(u) /\ Len(s) < Len(u)
    BY <1>6, <2>1
  <2>3. w[Len(s) + 1] = Zero
    BY <1>1, <1>2, <2>2
  <2> QED BY <1>4, <2>2, <2>3
<1>8. ~(Len(t) < Len(s))
  <2>1. SUFFICES ASSUME Len(t) < Len(s) PROVE FALSE
    OBVIOUS
  <2>2. Len(t) + 1 \in 1..Len(s) /\ Len(t) + 1 \in 1..Len(u) /\ Len(t) < Len(w)
    BY <1>1, <1>2, <2>1
  <2>3. u[Len(t) + 1] = Zero
    BY <1>1, <1>3, <2>2
  <2> QED BY <1>5, <2>2, <2>3
<1>9. Len(s) = Len(t)
  BY <1>7, <1>8
<1>10. \A k \in 1..Len(t) : s[k] = t[k]
  BY <1>1, <1>2, <1>3, <1>6, <1>9
<1>11. s = t
  BY <1>9, <1>10, Zenon, SameText
<1> QED BY <1>1, <1>2, <1>3, <1>11

LEMMA PrefixOfItself == ASSUME NEW S, NEW s \in Seq(S) PROVE IsPrefix(s, s)
BY DEF IsPrefix

\* The bytes that are written, with the root or without.
LEMMA BytesParts ==
    ASSUME Environment, NEW s \in Seq(Character), NEW m \in Seq(Character), NEW stale \in PathByte
    PROVE  /\ UnderRoot(Behind(s, m)) =>
                 \E q \in Seq(PathByte) :
                    Bytes(s, stale, m) = Drive(s, m) \o (MW_CYGWIN_ROOT \o <<Zero, Sep>> \o q)
           /\ ~UnderRoot(Behind(s, m)) =>
                 Bytes(s, stale, m) = Drive(s, m) \o Rest(Capital(Behind(s, m)), stale)
<1>1. PICK b \in Seq(Character) : b = Behind(s, m)
  BY DriveType
<1>2. CASE UnderRoot(b)
  <2>1. Tail(b) \in Seq(PathByte)
    BY <1>2, BehindRoot
  <2>2. Rest(Tail(b), stale) \in Seq(PathByte)
    BY <2>1, RestType
  <2> QED BY <1>1, <1>2, <2>2 DEF Bytes
<1>3. CASE ~UnderRoot(b)
  BY <1>1, <1>3 DEF Bytes
<1> QED BY <1>1, <1>2, <1>3

\* What is written of a path up to its first slash, and of that.
LEMMA RestAt ==
    ASSUME NEW t \in Seq(PathByte), NEW stale \in PathByte, NEW n \in 1..Len(t),
           \A k \in 1..(n - 1) : t[k] # "/"
    PROVE  /\ n <= Len(Rest(t, stale))
           /\ Rest(t, stale)[n] = IF t[n] = "/" THEN Sep ELSE t[n]
           /\ \A k \in 1..(n - 1) : Rest(t, stale)[k] = t[k]
<1>1. n - 1 \in 0..Len(t) /\ n - 1 \in Nat /\ Len(t) \in Nat
  OBVIOUS
<1>2. Slashes(t, n - 1) = 0
  BY <1>1, SlashesCount
<1>3. Place(t, n) = n
  BY <1>2 DEF Place
<1>4. PICK q : q = Rest(t, stale)
  OBVIOUS
<1>5. /\ Len(q) = Len(t) + Slashes(t, Len(t))
      /\ \A k \in 1..Len(t) : q[Place(t, k)] = IF t[k] = "/" THEN Sep ELSE t[k]
  BY <1>4, RestType
<1>6. q[n] = IF t[n] = "/" THEN Sep ELSE t[n]
  <2>1. q[Place(t, n)] = IF t[n] = "/" THEN Sep ELSE t[n]
    BY <1>5
  <2> QED BY <1>3, <2>1, Zenon
<1>7. \A k \in 1..(n - 1) : q[k] = t[k]
  BY <1>1, <1>4, RestOfStart
<1>8. n <= Len(q)
  <2>1. Slashes(t, Len(t)) \in Nat
    BY <1>1, SlashesCount
  <2> QED BY <1>1, <1>5, <2>1
<1> QED BY <1>4, <1>6, <1>7, <1>8

LEMMA SureHolds ==
    ASSUME Environment, NEW s \in Seq(Character), NEW m \in Seq(Character), NEW stale \in PathByte
    PROVE  /\ IsPrefix(Sure(s, m), Canon(s, stale, m))
           /\ UnderRoot(Behind(s, m)) \/ "/" \notin Range(Behind(s, m)) =>
                 Canon(s, stale, m) = Sure(s, m)
<1>1. PICK d \in Seq(PathByte), b \in Seq(Character) : d = Drive(s, m) /\ b = Behind(s, m)
  BY DriveType
<1>2. PICK t \in Seq(Character) :
           /\ t = Capital(b) /\ Len(t) = Len(b)
           /\ \A k \in 1..Len(b) : t[k] = "/" <=> b[k] = "/"
  BY CapitalType
<1>3. t \in Seq(PathByte) /\ b \in Seq(PathByte)
  BY StringBytes
<1>4. PICK n : n = First(t, "/")
  OBVIOUS
<1>5. Sure(s, m) = Seen(d \o (IF UnderRoot(t) THEN MW_CYGWIN_ROOT
                              ELSE IF n = 0 THEN t ELSE SubSeq(t, 1, n - 1) \o <<Sep>>))
  <2>1. SelectInSeq(t, LAMBDA ch : ch = "/") = n
    BY <1>4, FirstIs, Zenon
  <2> QED BY <1>1, <1>2, <2>1, Zenon DEF Sure
<1>6. UnderRoot(t) <=> UnderRoot(b)
  BY <1>2, RootOfCapital
<1>7. Canon(s, stale, m) \in Seq(Character)
  BY CanonType
<1>8. CASE UnderRoot(b)
  <2>1. PICK r \in Seq(PathByte) : r = MW_CYGWIN_ROOT
    BY <1>8, EnvironmentType, StringBytes DEF UnderRoot
  <2>2. PICK q \in Seq(PathByte) : Bytes(s, stale, m) = d \o (r \o <<Zero, Sep>> \o q)
    BY <1>1, <1>8, <2>1, BytesParts
  <2>3. PICK z \in Seq(PathByte) : z = <<Zero, Sep>> /\ Len(z) = 2 /\ z[1] = Zero
    <3>1. <<Zero, Sep>> \in Seq(PathByte)
      BY CharacterFacts DEF PathByte
    <3> QED BY <3>1
  <2>4. PICK v \in Seq(PathByte) : v = z \o q /\ Len(v) > 0 /\ v[1] = Zero
    <3>1. z \o q \in Seq(PathByte) /\ Len(z \o q) > 0 /\ (z \o q)[1] = Zero
      BY <2>3
    <3> QED BY <3>1
  <2>5. PICK u \in Seq(PathByte) : u = d \o r
    <3>1. d \o r \in Seq(PathByte)
      OBVIOUS
    <3> QED BY <3>1
  <2>6. d \o (r \o z \o q) = u \o v
    <3>1. r \o z \o q = r \o v
      BY <2>4
    <3>2. d \o (r \o v) = (d \o r) \o v
      OBVIOUS
    <3> QED BY <2>5, <3>1, <3>2
  <2>7. Canon(s, stale, m) = Seen(u)
    <3>1. Seen(u \o v) = Seen(u)
      BY <2>4, SeenToZero
    <3>2. Bytes(s, stale, m) = u \o v
      BY <2>2, <2>3, <2>6
    <3> QED BY <3>1, <3>2 DEF Canon
  <2>8. Sure(s, m) = Seen(u)
    BY <1>5, <1>6, <1>8, <2>1, <2>5
  <2> QED BY <1>7, <2>7, <2>8, PrefixOfItself
<1>9. CASE ~UnderRoot(b)
  <2>1. PICK q \in Seq(PathByte) : q = Rest(t, stale)
    BY <1>3, RestType
  <2>2. Bytes(s, stale, m) = d \o q
    BY <1>1, <1>2, <1>9, <2>1, BytesParts
  <2>3. CASE n = 0
    <3>1. q = t
      <4>1. \A k \in 1..Len(t) : t[k] # "/"
        <5>1. 0 \notin 1..Len(t)
          OBVIOUS
        <5> QED BY <1>3, <1>4, <2>3, <5>1, FirstOf
      <4> QED BY <1>3, <2>1, <4>1, RestOfClean
    <3>2. Canon(s, stale, m) = Sure(s, m)
      BY <1>5, <1>6, <1>9, <2>2, <2>3, <3>1 DEF Canon
    <3> QED BY <1>7, <3>2, PrefixOfItself
  <2>4. CASE n # 0
    <3>1. n \in 1..Len(t) /\ t[n] = "/" /\ \A k \in 1..(n - 1) : t[k] # "/"
      BY <1>3, <1>4, <2>4, FirstOf
    <3>2. n <= Len(q) /\ q[n] = Sep /\ \A k \in 1..(n - 1) : q[k] = t[k]
      BY <1>3, <2>1, <3>1, RestAt
    <3>3. PICK h \in Seq(PathByte) :
             /\ h = SubSeq(t, 1, n - 1) \o <<Sep>>
             /\ Len(h) = n /\ \A k \in 1..n : h[k] = q[k]
      <4>0. PICK i \in Nat : n = i + 1 /\ n - 1 = i /\ i <= Len(t)
        <5>1. n - 1 \in Nat /\ n = (n - 1) + 1 /\ n - 1 <= Len(t)
          BY <3>1
        <5> QED BY <5>1
      <4>1. PICK g \in Seq(PathByte) :
               g = SubSeq(t, 1, n - 1) /\ Len(g) = n - 1 /\ \A k \in 1..(n - 1) : g[k] = t[k]
        <5>1. /\ SubSeq(t, 1, i) \in Seq(PathByte) /\ Len(SubSeq(t, 1, i)) = i
              /\ \A k \in 1..i : SubSeq(t, 1, i)[k] = t[k]
          BY <1>3, <4>0
        <5> QED BY <4>0, <5>1
      <4>2. <<Sep>> \in Seq(PathByte) /\ Len(<<Sep>>) = 1 /\ <<Sep>>[1] = Sep
        BY CharacterFacts
      <4>3. /\ g \o <<Sep>> \in Seq(PathByte) /\ Len(g \o <<Sep>>) = n
            /\ (g \o <<Sep>>)[n] = Sep /\ \A k \in 1..(n - 1) : (g \o <<Sep>>)[k] = g[k]
        <5>1. PICK e \in Seq(PathByte) : e = <<Sep>> /\ Len(e) = 1 /\ e[1] = Sep
          BY <4>2
        <5>2. /\ g \o e \in Seq(PathByte) /\ Len(g \o e) = i + 1
              /\ (g \o e)[i + 1] = e[1] /\ \A k \in 1..i : (g \o e)[k] = g[k]
          BY <4>0, <4>1, <5>1
        <5> QED BY <4>0, <5>1, <5>2
      <4>4. \A k \in 1..n : k = n \/ k \in 1..(n - 1)
        BY <3>1
      <4>5. \A k \in 1..n : (g \o <<Sep>>)[k] = q[k]
        BY <3>2, <4>1, <4>3, <4>4
      <4> QED BY <4>1, <4>3, <4>5
    <3>4. d \o h \in Seq(PathByte) /\ d \o q \in Seq(PathByte)
      OBVIOUS
    <3>5. Len(d \o h) <= Len(d \o q) /\ \A k \in 1..Len(d \o h) : (d \o h)[k] = (d \o q)[k]
      <4>1. /\ Len(d \o h) = Len(d) + n /\ Len(d \o q) = Len(d) + Len(q)
            /\ Len(d) \in Nat /\ Len(q) \in Nat /\ n \in Nat
        BY <3>1, <3>3
      <4>2. ASSUME NEW k \in 1..(Len(d) + n) PROVE (d \o h)[k] = (d \o q)[k]
        <5>1. CASE k <= Len(d)
          BY <5>1
        <5>2. CASE ~(k <= Len(d))
          <6>1. k - Len(d) \in 1..n
            BY <4>1, <5>2
          <6>2. (d \o h)[k] = h[k - Len(d)]
            BY <3>3, <5>2, <6>1
          <6>3. (d \o q)[k] = q[k - Len(d)]
            <7>1. k - Len(d) \in 1..Len(q) /\ k \in (Len(d) + 1)..(Len(d) + Len(q))
              BY <3>2, <4>1, <5>2, <6>1
            <7> QED BY <5>2, <7>1
          <6> QED BY <3>3, <6>1, <6>2, <6>3
        <5> QED BY <5>1, <5>2
      <4> QED BY <3>2, <4>1, <4>2
    <3>6. IsPrefix(Sure(s, m), Canon(s, stale, m))
      <4>1. Sure(s, m) = Seen(d \o h)
        BY <1>5, <1>6, <1>9, <2>4, <3>3
      <4>2. Canon(s, stale, m) = Seen(d \o q)
        BY <2>2 DEF Canon
      <4> QED BY <3>4, <3>5, <4>1, <4>2, SeenPrefix
    <3>7. "/" \in Range(b)
      BY <1>2, <3>1, RangeIs
    <3> QED BY <1>1, <1>9, <3>6, <3>7
  <2> QED BY <2>3, <2>4
<1> QED BY <1>8, <1>9

\* The first characters that are seen are those that are written.
LEMMA SeenAt ==
    ASSUME NEW b \in Seq(PathByte), NEW k \in Nat, k < Len(Seen(b))
    PROVE  k + 1 \in 1..Len(b) /\ At(Seen(b), k) = b[k + 1]
<1>1. PICK s \in Seq(Character) :
           s = Seen(b) /\ Len(s) <= Len(b) /\ \A i \in 1..Len(s) : s[i] = b[i]
  BY SeenType
<1>2. k + 1 \in 1..Len(s)
  BY <1>1
<1> QED BY <1>1, <1>2 DEF At

\* The letter of a drive is a capital in the canonical form.
LEMMA DriveIsCapital ==
    ASSUME Environment, NEW s \in Seq(Character), NEW m \in Seq(Character), NEW stale \in PathByte,
           ~UnderRoot(Behind(s, m)), At(Canon(s, stale, m), 1) = ":"
    PROVE  At(Canon(s, stale, m), 0) # "c"
<1>1. PICK w \in Seq(PathByte) : w = Bytes(s, stale, m)
  BY BytesType
<1>2. 1 < Len(Seen(w))
  <2>1. At(Seen(w), 1) # Zero
    BY <1>1, CharacterFacts DEF Canon
  <2> QED BY <2>1 DEF At
<1>3. Len(Seen(w)) \in Nat /\ 0 < Len(Seen(w))
  <2>1. Seen(w) \in Seq(Character)
    BY SeenType
  <2> QED BY <1>2, <2>1
<1>4. At(Seen(w), 0) = w[1] /\ w[2] = ":" /\ 1 \in 1..Len(w) /\ 2 \in 1..Len(w)
  BY <1>1, <1>2, <1>3, SeenAt DEF Canon
<1>5. CASE IsDrive(s, m)
  <2>1. PICK ch \in PathByte : Drive(s, m) = <<toupper(ch), ":", Sep>>
    BY <1>5, DriveType
  <2>2. PICK q \in Seq(PathByte) : q = Rest(Capital(Behind(s, m)), stale)
    <3>1. Behind(s, m) \in Seq(PathByte) /\ PathByte \in {Character, PathByte}
      BY DriveType, StringBytes
    <3>2. Capital(Behind(s, m)) \in Seq(PathByte)
      BY <3>1, CapitalType
    <3> QED BY <3>2, RestType
  <2>3. w = <<toupper(ch), ":", Sep>> \o q
    BY <1>1, <2>1, <2>2, BytesParts
  <2>4. w[1] = toupper(ch)
    BY <2>3
  <2>5. toupper(ch) # "c"
    BY DEF toupper
  <2> QED BY <1>1, <1>4, <2>4, <2>5 DEF Canon
<1>6. CASE ~IsDrive(s, m)
  <2>1. PICK t \in Seq(PathByte) :
             /\ t = Capital(s) /\ (At(t, 1) = ":" => At(t, 0) # "c")
    <3>1. s \in Seq(PathByte) /\ PathByte \in {Character, PathByte}
      BY StringBytes
    <3> QED BY <3>1, CapitalType
  <2>2. w = Rest(t, stale)
    <3>1. Drive(s, m) = <<>> /\ Behind(s, m) = s
      BY <1>6, DriveType
    <3>2. Rest(t, stale) \in Seq(PathByte)
      BY RestType
    <3>3. w = <<>> \o Rest(t, stale)
      BY <1>1, <2>1, <3>1, BytesParts
    <3> QED BY <3>2, <3>3
  <2>3. Len(t) \in Nat /\ Len(w) = Len(t) + Slashes(t, Len(t))
    BY <2>2, RestType
  <2>4. 1 \in 1..Len(t)
    <3>1. CASE Len(t) = 0
      <4>1. Slashes(t, Len(t)) = 0
        <5>1. \A i \in 1..Len(t) : t[i] # "/"
          BY <3>1
        <5> QED BY <2>3, <5>1, SlashesCount
      <4>2. Len(w) = 0
        BY <2>3, <3>1, <4>1
      <4> QED BY <1>4, <4>2
    <3> QED BY <2>3, <3>1
  <2>5. w[1] = IF t[1] = "/" THEN Sep ELSE t[1]
    <3>1. \A i \in 1..(1 - 1) : t[i] # "/"
      OBVIOUS
    <3>2. Rest(t, stale)[1] = IF t[1] = "/" THEN Sep ELSE t[1]
      BY <2>4, <3>1, RestAt
    <3> QED BY <2>2, <3>2
  <2>6. CASE t[1] = "/"
    <3>1. w[1] = Sep /\ Sep # "c"
      BY <2>5, <2>6 DEF Sep
    <3> QED BY <1>1, <1>4, <3>1 DEF Canon
  <2>7. CASE t[1] # "/" /\ Len(t) = 1
    <3>1. Slashes(t, Len(t)) = 0
      <4>1. \A i \in 1..Len(t) : t[i] # "/"
        BY <2>7
      <4> QED BY <4>1, SlashesCount
    <3>2. Len(w) = 1
      BY <2>3, <2>7, <3>1
    <3> QED BY <1>4, <3>2
  <2>8. CASE t[1] # "/" /\ Len(t) # 1
    <3>1. 2 \in 1..Len(t) /\ \A i \in 1..(2 - 1) : t[i] # "/"
      <4>1. 2 \in 1..Len(t)
        <5>1. PICK l \in Nat : l = Len(t)
          OBVIOUS
        <5>2. 1 \in 1..l /\ l # 1
          BY <2>4, <2>8, <5>1
        <5>3. 2 \in 1..l
          BY <5>2
        <5> QED BY <5>1, <5>3
      <4>2. \A i \in 1..(2 - 1) : i = 1
        OBVIOUS
      <4>3. t[1] # "/"
        BY <2>8
      <4> QED BY <4>1, <4>2, <4>3
    <3>2. Rest(t, stale)[2] = IF t[2] = "/" THEN Sep ELSE t[2]
      BY <3>1, RestAt
    <3>3. w[2] = IF t[2] = "/" THEN Sep ELSE t[2]
      BY <2>2, <3>2
    <3>4. t[2] = ":"
      BY <1>4, <3>3, CharacterFacts
    <3>5. At(t, 1) = ":" /\ At(t, 0) = t[1]
      BY <3>1, <3>4 DEF At
    <3>6. w[1] # "c"
      BY <2>1, <2>5, <2>8, <3>5
    <3> QED BY <1>1, <1>4, <3>6 DEF Canon
  <2> QED BY <2>6, <2>7, <2>8
<1> QED BY <1>5, <1>6


\* What makes a path absolute: its first characters.
LEMMA AbsoluteStart ==
    ASSUME NEW s \in Seq(Character), Absolute(s)
    PROVE  \E n \in {2, 3} :
              /\ n <= Len(s) /\ \A k \in 1..n : s[k] # "/"
              /\ \/ n = 2 /\ s[1] = Sep /\ s[2] = Sep
                 \/ n = 3 /\ s[1] \in Letters /\ s[2] = ":" /\ s[3] = Sep
<1>1. CASE At(s, 0) = Sep /\ At(s, 1) = Sep
  <2>1. 1 < Len(s)
    BY <1>1 DEF At, Zero, Sep
  <2>2. s[1] = Sep /\ s[2] = Sep
    BY <1>1, <2>1 DEF At
  <2>3. \A k \in 1..2 : k = 1 \/ k = 2
    OBVIOUS
  <2>4. \A k \in 1..2 : s[k] # "/"
    BY <2>2, <2>3, CharacterFacts
  <2> QED BY <2>1, <2>2, <2>4
<1>2. CASE At(s, 0) \in Letters /\ At(s, 1) = ":" /\ At(s, 2) = Sep
  <2>1. 2 < Len(s)
    BY <1>2 DEF At, Zero, Sep
  <2>2. s[1] \in Letters /\ s[2] = ":" /\ s[3] = Sep
    BY <1>2, <2>1 DEF At
  <2>3. s[1] # "/" /\ s[2] # "/" /\ s[3] # "/"
    BY <2>2, CharacterFacts
  <2>4. \A k \in 1..3 : k = 1 \/ k = 2 \/ k = 3
    OBVIOUS
  <2>5. \A k \in 1..3 : s[k] # "/"
    BY <2>3, <2>4
  <2>6. 3 <= Len(s)
    BY <2>1
  <2> QED BY <2>2, <2>5, <2>6
<1> QED BY <1>1, <1>2 DEF Absolute

\* An absolute path that stands for no drive of the prefix stays absolute.
LEMMA AbsoluteStays ==
    ASSUME Environment, NEW s \in Seq(Character), NEW m \in Seq(Character), NEW stale \in PathByte,
           Absolute(s), ~IsDrive(s, m)
    PROVE  Absolute(Canon(s, stale, m))
<1>1. PICK n \in {2, 3} :
           /\ n <= Len(s) /\ \A k \in 1..n : s[k] # "/"
           /\ \/ n = 2 /\ s[1] = Sep /\ s[2] = Sep
              \/ n = 3 /\ s[1] \in Letters /\ s[2] = ":" /\ s[3] = Sep
  BY AbsoluteStart
<1>2. Drive(s, m) = <<>> /\ Behind(s, m) = s
  BY DriveType
<1>3. ~UnderRoot(Behind(s, m))
  BY <1>2, CharacterFacts DEF Absolute, UnderRoot
<1>4. PICK t \in Seq(PathByte) :
           /\ t = Capital(s) /\ Len(t) = Len(s) /\ \A k \in 1..Len(s) : t[k] = "/" <=> s[k] = "/"
           /\ \A k \in 2..Len(s) : t[k] = s[k]
           /\ t[1] \in {s[1], toupper(s[1])} /\ t \in Seq(Character)
  <2>1. /\ Capital(s) \in Seq(Character) /\ Len(Capital(s)) = Len(s)
        /\ \A k \in 1..Len(s) : Capital(s)[k] = "/" <=> s[k] = "/"
        /\ \A k \in 2..Len(s) : Capital(s)[k] = s[k]
        /\ Capital(s)[1] \in {s[1], toupper(s[1])}
    BY <1>1, CapitalType
  <2> QED BY <2>1, StringBytes
<1>5. PICK q \in Seq(PathByte) :
           /\ q = Rest(t, stale) /\ Len(q) >= Len(t)
           /\ \A k \in 1..n : q[k] = t[k]
  <2>1. Slashes(t, Len(t)) \in Nat
    BY SlashesCount
  <2>2. n \in 0..Len(t) /\ \A k \in 1..n : t[k] # "/"
    BY <1>1, <1>4
  <2>3. \A k \in 1..n : Rest(t, stale)[k] = t[k]
    BY <2>2, RestOfStart
  <2>4. /\ Rest(t, stale) \in Seq(PathByte)
        /\ Len(Rest(t, stale)) = Len(t) + Slashes(t, Len(t))
    BY RestType
  <2> QED BY <2>1, <2>3, <2>4
<1>6. Canon(s, stale, m) = Seen(q)
  <2>1. Bytes(s, stale, m) = <<>> \o q
    <3>1. Bytes(s, stale, m) = Drive(s, m) \o Rest(Capital(Behind(s, m)), stale)
      BY <1>3, BytesParts
    <3>2. Capital(Behind(s, m)) = t
      BY <1>2, <1>4
    <3> QED BY <1>2, <1>5, <3>1, <3>2
  <2>2. <<>> \o q = q
    OBVIOUS
  <2> QED BY <2>1, <2>2 DEF Canon
<1>7. PICK p \in Seq(Character) :
           /\ p = Canon(s, stale, m) /\ n <= Len(p) /\ \A k \in 1..n : p[k] = t[k]
  <2>1. n \in 0..Len(q) /\ \A k \in 1..n : q[k] # Zero
    <3>1. \A k \in 1..n : t[k] # Zero
      <4>1. \A k \in 1..n : k \in 1..Len(t)
        BY <1>1, <1>4
      <4> QED BY <4>1, <1>4, StringBytes
    <3> QED BY <1>1, <1>4, <1>5, <3>1
  <2>2. n <= Len(Seen(q))
    BY <2>1, SeenStart
  <2>3. /\ Seen(q) \in Seq(Character)
        /\ \A k \in 1..Len(Seen(q)) : Seen(q)[k] = q[k]
    BY SeenType
  <2>4. \A k \in 1..n : k \in 1..Len(Seen(q))
    BY <2>2, <2>3
  <2> QED BY <1>5, <1>6, <2>2, <2>3, <2>4
<1>8. 1 \in 1..n /\ 2 \in 2..Len(s) /\ 2 \in 1..n
  BY <1>1
<1>9. CASE n = 2 /\ s[1] = Sep /\ s[2] = Sep
  <2>1. p[1] = Sep /\ p[2] = Sep
    BY <1>4, <1>7, <1>8, <1>9 DEF toupper, Sep
  <2>2. At(p, 0) = Sep /\ At(p, 1) = Sep
    BY <2>1, <1>7, <1>9 DEF At
  <2> QED BY <1>7, <2>2 DEF Absolute
<1>10. CASE n = 3 /\ s[1] \in Letters /\ s[2] = ":" /\ s[3] = Sep
  <2>1. p[1] \in Letters
    BY <1>4, <1>7, <1>8, <1>10 DEF toupper, Letters
  <2>2. p[2] = ":" /\ p[3] = Sep
    <3>1. 3 \in 2..Len(s) /\ 3 \in 1..n
      BY <1>1, <1>10
    <3> QED BY <1>4, <1>7, <1>8, <1>10, <3>1
  <2>3. At(p, 0) \in Letters /\ At(p, 1) = ":" /\ At(p, 2) = Sep
    BY <2>1, <2>2, <1>7, <1>10 DEF At
  <2> QED BY <1>7, <2>3 DEF Absolute
<1> QED BY <1>1, <1>9, <1>10

\* A drive of the prefix becomes absolute if and only if it is a letter.
LEMMA DriveAbsolute ==
    ASSUME Environment, NEW s \in Seq(Character), NEW m \in Seq(Character), NEW stale \in PathByte,
           IsDrive(s, m)
    PROVE  Absolute(Canon(s, stale, m)) <=> ~OddDrive(s, m)
<1>1. PICK x \in PathByte : x = At(s, DriveAt(s)) /\ Drive(s, m) = <<toupper(x), ":", Sep>>
  BY DriveType
<1>2. PICK y \in PathByte : y = toupper(x)
  BY <1>1, toupperFacts
<1>3. PICK d \in Seq(PathByte) :
           d = <<y, ":", Sep>> /\ Len(d) = 3 /\ d[1] = y /\ d[2] = ":" /\ d[3] = Sep
  <2>1. <<y, ":", Sep>> \in Seq(PathByte)
    BY CharacterFacts
  <2> QED BY <2>1
<1>4. PICK v \in Seq(PathByte) : Bytes(s, stale, m) = d \o v
  <2>1. Bytes(s, stale, m) = Drive(s, m) \o
             (IF UnderRoot(Behind(s, m))
              THEN MW_CYGWIN_ROOT \o <<Zero, Sep>> \o Rest(Tail(Behind(s, m)), stale)
              ELSE Rest(Capital(Behind(s, m)), stale))
    BY Zenon DEF Bytes
  <2>2. Behind(s, m) \in Seq(Character)
    BY DriveType
  <2>3. CASE UnderRoot(Behind(s, m))
    <3>1. PICK r \in Seq(PathByte) : r = MW_CYGWIN_ROOT
      BY <2>3, EnvironmentType, StringBytes DEF UnderRoot
    <3>2. PICK q \in Seq(PathByte) : q = Rest(Tail(Behind(s, m)), stale)
      BY <2>2, <2>3, BehindRoot, RestType
    <3>3. <<Zero, Sep>> \in Seq(PathByte)
      BY CharacterFacts DEF PathByte
    <3>4. r \o <<Zero, Sep>> \o q \in Seq(PathByte)
      BY <3>3
    <3> QED BY <1>1, <1>2, <1>3, <2>1, <2>3, <3>1, <3>2, <3>4
  <2>4. CASE ~UnderRoot(Behind(s, m))
    <3>1. Behind(s, m) \in Seq(PathByte) /\ PathByte \in {Character, PathByte}
      BY <2>2, StringBytes
    <3>2. Rest(Capital(Behind(s, m)), stale) \in Seq(PathByte)
      BY <3>1, CapitalType, RestType
    <3> QED BY <1>1, <1>2, <1>3, <2>1, <2>4, <3>2
  <2> QED BY <2>3, <2>4
<1>5. PICK w \in Seq(PathByte) :
           /\ w = d \o v /\ Len(w) = 3 + Len(v) /\ w[1] = y /\ w[2] = ":" /\ w[3] = Sep
  <2>1. d \o v \in Seq(PathByte) /\ Len(d \o v) = 3 + Len(v)
    BY <1>3
  <2>2. (d \o v)[1] = d[1] /\ (d \o v)[2] = d[2] /\ (d \o v)[3] = d[3]
    BY <1>3
  <2> QED BY <1>3, <2>1, <2>2
<1>6. PICK p \in Seq(Character) :
           /\ p = Canon(s, stale, m) /\ p = Seen(w)
           /\ Len(p) <= Len(w) /\ \A k \in 1..Len(p) : p[k] = w[k]
  BY <1>4, <1>5, SeenType DEF Canon
<1>7. OddDrive(s, m) <=> x \notin Letters
  BY <1>1 DEF OddDrive
<1>8. CASE x = Zero
  <2>1. y = Zero
    BY <1>2, <1>8 DEF toupper, Zero
  <2>2. \A k \in 1..Len(p) : w[k] # Zero
    BY <1>6, StringBytes
  <2>3. Len(p) = 0
    <3>1. 1 \notin 1..Len(p)
      BY <1>5, <2>1, <2>2
    <3> QED BY <3>1
  <2>4. At(p, 0) = Zero
    BY <2>3 DEF At
  <2>5. ~Absolute(p)
    BY <2>4, CharacterFacts DEF Absolute
  <2>6. x \notin Letters
    BY <1>8, CharacterFacts
  <2> QED BY <1>6, <1>7, <2>5, <2>6
<1>9. CASE x # Zero
  <2>1. y # Zero
    BY <1>2, <1>9, toupperFacts
  <2>2. \A k \in 1..3 : k = 1 \/ k = 2 \/ k = 3
    OBVIOUS
  <2>3. 3 \in 0..Len(w) /\ \A k \in 1..3 : w[k] # Zero
    BY <1>5, <2>1, <2>2, CharacterFacts
  <2>4. 3 <= Len(p)
    BY <1>6, <2>3, SeenStart
  <2>5. At(p, 0) = y /\ At(p, 1) = ":" /\ At(p, 2) = Sep
    <3>1. 1 \in 1..Len(p) /\ 2 \in 1..Len(p) /\ 3 \in 1..Len(p)
      BY <2>4
    <3>2. p[1] = y /\ p[2] = ":" /\ p[3] = Sep
      BY <1>5, <1>6, <3>1
    <3> QED BY <2>4, <3>2 DEF At
  <2>6. y \in Letters <=> x \in Letters
    BY <1>2, toupperFacts
  <2>7. Absolute(p) <=> y \in Letters
    BY <2>5, CharacterFacts DEF Absolute
  <2> QED BY <1>6, <1>7, <2>6, <2>7
<1> QED BY <1>8, <1>9

LEMMA AbsoluteHolds ==
    ASSUME Environment, NEW s \in Seq(Character), NEW m \in Seq(Character), NEW stale \in PathByte,
           Absolute(s) \/ IsDrive(s, m)
    PROVE  Absolute(Canon(s, stale, m)) <=> ~OddDrive(s, m)
<1>1. CASE IsDrive(s, m)
  BY <1>1, DriveAbsolute
<1>2. CASE ~IsDrive(s, m)
  BY <1>2, AbsoluteStays DEF OddDrive
<1> QED BY <1>1, <1>2

\* A canonical form without a slash is canonical but for the letter of its drive.
LEMMA FormHolds ==
    ASSUME Environment, NEW p \in Seq(Character), NEW m \in Seq(Character), NEW stale \in PathByte,
           "/" \notin Range(p), ~IsDrive(p, m)
    PROVE  /\ OS_EqualPath(Canon(p, stale, m), p)
           /\ At(p, 0) # "c" => Canon(p, stale, m) = p
<1>1. \A k \in 1..Len(p) : p[k] # "/"
  BY RangeIs
<1>2. Canon(p, stale, m) = Capital(p)
  BY <1>1, CanonOfClean
<1>3. Capital(p) \in Seq(PathByte) /\ p \in Seq(PathByte) /\ Same(Capital(p), p)
  BY CapitalType, StringBytes
<1>4. OS_EqualPath(Capital(p), p)
  BY <1>3, SameFold DEF OS_EqualPath
<1>5. ASSUME At(p, 0) # "c" PROVE Capital(p) = p
  <2>1. CASE At(p, 0) \in Letters /\ At(p, 1) = ":"
    <3>1. At(p, 0) = "C" /\ At(p, 0) # Zero
      BY <1>5, <2>1 DEF Letters, Zero
    <3>2. 0 < Len(p) /\ p[1] = "C"
      BY <3>1 DEF At
    <3>3. Capital(p) = [p EXCEPT ![1] = toupper(p[1])] /\ toupper(p[1]) = p[1]
      BY <2>1, <3>2 DEF Capital, toupper
    <3>4. [p EXCEPT ![1] = p[1]] = p
      BY <3>2
    <3> QED BY <3>3, <3>4
  <2>2. CASE ~(At(p, 0) \in Letters /\ At(p, 1) = ":")
    BY <2>2 DEF Capital
  <2> QED BY <2>1, <2>2
<1> QED BY <1>2, <1>4, <1>5

-----------------------------------------------------------------------------
\* What the last call has made of the path that it was given.
IsCanonOf(s, m) ==
    /\ s \in Seq(Character) /\ m \in Seq(Character) /\ ~TooLong(s, m)
    /\ \E stale \in Stale : path = Canon(s, stale, m)

PathsInv ==
    /\ Environment /\ PathTypeOK
    /\ Canonised => IsCanonOf(request.from, request.memory)

LEMMA StaleBytes == Stale \subseteq PathByte
BY PathAssumption DEF PathByte

LEMMA LengthOfThree ==
    ASSUME NEW S, NEW a \in Seq(S), NEW b \in Seq(S), NEW c \in Seq(S)
    PROVE  Len(a \o b \o c) = Len(a) + Len(b) + Len(c)
OBVIOUS

LEMMA JoinedType ==
    ASSUME NEW vol \in Parts, NEW dir \in Parts, ~JoinedTooLong(vol, dir)
    PROVE  Len(Joined(vol, dir)) + 1 \in 0..MaxJoined
<1>1. MaxJoined \in Nat /\ MaxJoined > 3
  BY PathAssumption
<1>2. \A part \in Parts : part # Unset => part \in Seq(Character)
  BY PathAssumption
<1>3. PICK v \in Nat, d \in Nat :
           /\ v = LengthOf(vol) /\ d = LengthOf(dir) /\ v + d + 2 <= MaxJoined
  <2>1. \A part \in Parts : LengthOf(part) \in Nat
    <3>1. \A part \in Seq(Character) : Len(part) \in Nat
      OBVIOUS
    <3> QED BY <1>2, <3>1 DEF LengthOf
  <2> QED BY <1>1, <2>1 DEF JoinedTooLong
<1>4. /\ vol # Unset => vol \in Seq(Character) /\ v = Len(vol)
      /\ dir # Unset => dir \in Seq(Character) /\ d = Len(dir)
  BY <1>2, <1>3 DEF LengthOf
<1>5. CASE vol = Unset /\ dir = Unset
  <2>1. Joined(vol, dir) = <<".">>
    BY <1>5 DEF Joined
  <2> QED BY <1>1, <2>1
<1>6. CASE vol = Unset /\ dir # Unset
  <2>1. Len(Joined(vol, dir)) = d
    BY <1>4, <1>6 DEF Joined
  <2> QED BY <1>1, <1>3, <2>1
<1>7. CASE vol # Unset
  <2> DEFINE from == IF dir = Unset THEN <<"/">> ELSE dir
  <2>1. from \in Seq(Character) /\ Len(from) <= d + 1
    <3>1. CASE dir = Unset
      <4>1. from = <<"/">> /\ "/" \in Character
        BY <3>1, CharacterFacts
      <4>2. <<"/">> \in Seq(Character) /\ Len(<<"/">>) <= d + 1
        BY <4>1
      <4> QED BY <4>1, <4>2
    <3>2. CASE dir # Unset
      BY <3>2, <1>3, <1>4
    <3> QED BY <3>1, <3>2
  <2>2. PICK f \in Seq(Character) : f = from /\ Len(f) <= d + 1
    BY <2>1
  <2>3. vol \in Seq(Character) /\ v = Len(vol)
    BY <1>4, <1>7
  <2>4. CASE vol = <<>>
    <3>1. Joined(vol, dir) = f
      BY <1>7, <2>2, <2>4 DEF Joined
    <3>2. Len(f) \in Nat
      OBVIOUS
    <3> QED BY <1>1, <1>3, <2>2, <3>1, <3>2
  <2>5. CASE vol # <<>> /\ Len(vol) = 1
    <3>1. Joined(vol, dir) = vol \o <<":">> \o f
      BY <1>7, <2>2, <2>5 DEF Joined
    <3>2. <<":">> \in Seq(Character) /\ Len(<<":">>) = 1 /\ Len(f) \in Nat
      BY CharacterFacts
    <3>3. Len(vol \o <<":">> \o f) = Len(vol) + Len(<<":">>) + Len(f)
      BY <2>3, <3>2, LengthOfThree
    <3>4. Len(Joined(vol, dir)) = 2 + Len(f)
      BY <2>5, <3>1, <3>2, <3>3
    <3>5. CASE dir = Unset
      <4>1. f = <<"/">>
        BY <3>5, <2>2
      <4> QED BY <1>1, <3>4, <4>1
    <3>6. CASE dir # Unset
      <4>1. Len(f) = d
        BY <1>4, <2>2, <3>6
      <4> QED BY <1>1, <1>3, <2>3, <2>5, <3>4, <4>1
    <3> QED BY <3>5, <3>6
  <2>6. CASE vol # <<>> /\ Len(vol) # 1 /\ dir = Unset
    <3>1. Joined(vol, dir) = vol
      BY <1>7, <2>6 DEF Joined
    <3> QED BY <1>1, <1>3, <2>3, <3>1
  <2>7. CASE vol # <<>> /\ Len(vol) # 1 /\ dir # Unset
    <3> DEFINE sep == IF At(dir, 0) = Sep THEN <<Sep>> ELSE <<>>
    <3>1. sep \in Seq(Character) /\ Len(sep) \in {0, 1}
      <4>1. Sep \in Character
        BY CharacterFacts
      <4>2. <<Sep>> \in Seq(Character) /\ Len(<<Sep>>) = 1
        BY <4>1
      <4> QED BY <4>2
    <3>2. PICK g \in Seq(Character) : g = sep /\ Len(g) \in {0, 1}
      BY <3>1
    <3>3. Joined(vol, dir) = vol \o g \o dir
      BY <1>7, <2>7, <3>2 DEF Joined
    <3>4. Len(vol \o g \o dir) = Len(vol) + Len(g) + Len(dir)
      BY <1>4, <2>3, <2>7, LengthOfThree
    <3> QED BY <1>1, <1>3, <1>4, <2>3, <2>7, <3>2, <3>3, <3>4
  <2> QED BY <2>4, <2>5, <2>6, <2>7
<1> QED BY <1>5, <1>6, <1>7

LEMMA JoinedString ==
    ASSUME NEW vol \in Parts, NEW dir \in Parts
    PROVE  Joined(vol, dir) \in Seq(Character)
<1>1. \A part \in Parts : part # Unset => part \in Seq(Character)
  BY PathAssumption
<1>2. /\ <<"/">> \in Seq(Character) /\ <<".">> \in Seq(Character) /\ <<":">> \in Seq(Character)
      /\ <<Sep>> \in Seq(Character) /\ <<>> \in Seq(Character)
  BY DEF Character, Sep
<1>3. \A a, b, c \in Seq(Character) : a \o b \o c \in Seq(Character)
  OBVIOUS
<1> QED BY <1>1, <1>2, <1>3, Zenon DEF Joined

\* What may be read behind a path is a string.
LEMMA BeyondType == \A s : Beyond(s) \subseteq Seq(Character)
<1>1. Memory \subseteq Seq(Character) /\ <<>> \in Seq(Character)
  BY PathAssumption
<1> QED BY <1>1 DEF Beyond

\* The excess is of the environment and the request only.
LEMMA ExtentOfCanon ==
    ASSUME Environment, NEW s \in Seq(Character), NEW m \in Seq(Character),
           UNCHANGED environment, request'.from = s, request'.memory = m,
           NEW k \in Nat, k <= MAX_PATH + Excess(s, m)
    PROVE  k \in 0..(MAX_PATH + Excess(request.from, request.memory)')
<1>1. Excess(request.from, request.memory)' = Excess(s, m)
  BY DEF Excess, IsDrive, Matches, DriveAt, Following, environment
<1>2. Excess(s, m) \in Nat /\ MAX_PATH \in Nat
  BY ExcessType, PathAssumption
<1> QED BY <1>1, <1>2

LEMMA NothingWritten ==
    ASSUME NEW s \in Seq(Character), NEW m \in Seq(Character)
    PROVE  0 <= MAX_PATH + Excess(s, m)
<1>1. PICK e \in Nat : e = Excess(s, m)
  <2>1. Excess(s, m) \in Nat
    BY ExcessType
  <2> QED BY <2>1
<1>2. MAX_PATH \in Nat
  BY PathAssumption
<1> QED BY <1>1, <1>2

LEMMA PathsInit == ASSUME PathInit PROVE PathsInv
<1>1. Environment /\ path \in Seq(Character)
  <2>1. Strings \subseteq Seq(Character)
    BY PathAssumption
  <2> QED BY <2>1 DEF PathInit, Environment
<1>2. /\ extent.canon = 0 /\ extent.joined = 0 /\ extent.spec = 0 /\ extent.name = 0
      /\ request.op = "none" /\ request.from = <<>> /\ request.memory = <<>>
  BY DEF PathInit, Writes
<1>3. {MAX_PATH, MaxJoined, MaxName, NameSize} \subseteq Nat
  BY PathAssumption
<1>4. <<>> \in Seq(Character) /\ Excess(<<>>, <<>>) \in Nat
  <2>1. <<>> \in Seq(Character)
    OBVIOUS
  <2> QED BY <2>1, ExcessType
<1>5. 0 \in 0..(MAX_PATH + Excess(<<>>, <<>>)) /\ \A n \in Nat : 0 \in 0..n
  BY <1>3, <1>4
<1>6. MaxName + 1 \in Nat
  BY <1>3
<1>7. PathTypeOK
  BY <1>1, <1>2, <1>3, <1>5, <1>6 DEF PathTypeOK
<1> QED BY <1>1, <1>2, <1>7 DEF PathsInv, Canonised

LEMMA PathsStep == ASSUME PathsInv, [PathNext]_pathVars PROVE PathsInv'
<1>0. PICK s \in Seq(Character) : s = path
  BY DEF PathsInv, PathTypeOK
<1>1. /\ MAX_PATH \in Nat /\ MAX_PATH > 3 /\ MaxJoined \in Nat /\ MaxName \in Nat
      /\ NameSize \in Nat /\ NameSize > 0
  BY PathAssumption
<1>2. Environment
  BY DEF PathsInv
<1>3. ASSUME UNCHANGED environment PROVE Environment'
  BY <1>2, <1>3 DEF Environment, environment
\* What one call writes, of the path that it was given and the memory that it read.
<1>4. ASSUME UNCHANGED environment, path' \in Seq(Character),
             NEW from \in Seq(Character), NEW m \in Seq(Character),
             request'.from = from, request'.memory = m,
             NEW canon \in Nat, NEW joined \in Nat, NEW spec \in Nat, NEW name \in Nat,
             extent' = Writes(canon, joined, spec, name),
             canon <= MAX_PATH + Excess(from, m), joined <= MaxJoined,
             spec <= IF request'.op = "unmade" THEN Len(m) + 1 ELSE MAX_PATH,
             name <= IF Len(from) < NameSize THEN NameSize ELSE MaxName + 1
      PROVE  PathTypeOK'
  <2>1. /\ extent'.canon = canon /\ extent'.joined = joined
        /\ extent'.spec = spec /\ extent'.name = name
    BY <1>4 DEF Writes
  <2>2. canon \in 0..(MAX_PATH + Excess(request.from, request.memory)')
    BY <1>2, <1>4, ExtentOfCanon
  <2>3. joined \in 0..MaxJoined
    BY <1>1, <1>4
  <2>4. spec \in 0..(IF request'.op = "unmade" THEN Len(m) + 1 ELSE MAX_PATH)
    BY <1>1, <1>4
  <2>5. name \in 0..(IF Len(from) < NameSize THEN NameSize ELSE MaxName + 1)
    BY <1>1, <1>4
  <2> QED BY <1>4, <2>1, <2>2, <2>3, <2>4, <2>5 DEF PathTypeOK
<1>5. CASE OS_CanonPath
  <2>1. PICK m \in Seq(Character) :
             /\ request' = [op |-> "canon", from |-> s, err |-> CanonErr(s, m), memory |-> m]
             /\ IF TooLong(s, m) THEN path' = s
                ELSE \E stale \in Stale : path' = Canon(s, stale, m)
             /\ extent' = Writes(CanonWrites(s, m), 0, 0, 0)
    <3>1. PICK m \in Beyond(s) :
             /\ request' = [op |-> "canon", from |-> s, err |-> CanonErr(s, m), memory |-> m]
             /\ IF TooLong(s, m) THEN path' = s
                ELSE \E stale \in Stale : path' = Canon(s, stale, m)
             /\ extent' = Writes(CanonWrites(s, m), 0, 0, 0)
      BY <1>0, <1>5, Zenon DEF OS_CanonPath, PathAnswer
    <3>2. m \in Seq(Character)
      BY BeyondType
    <3> QED BY <3>1, <3>2
  <2>2. UNCHANGED environment
    BY <1>5 DEF OS_CanonPath
  <2>3. path' \in Seq(Character)
    <3>1. CASE TooLong(s, m)
      BY <2>1, <3>1
    <3>2. CASE ~TooLong(s, m)
      <4>1. PICK stale \in Stale : path' = Canon(s, stale, m)
        BY <2>1, <3>2
      <4>2. stale \in PathByte
        BY StaleBytes
      <4> QED BY <1>2, <4>1, <4>2, CanonType
    <3> QED BY <3>1, <3>2
  <2>4. request'.from = s /\ request'.memory = m /\ request'.op = "canon" /\ request'.err = CanonErr(s, m)
    BY <2>1
  <2>5. PathTypeOK'
    <3>1. PICK n \in Nat : n = CanonWrites(s, m) /\ n <= MAX_PATH + Excess(s, m)
      <4>1. CanonWrites(s, m) \in 0..(MAX_PATH + Excess(s, m)) /\ Excess(s, m) \in Nat
        BY <1>2, CanonWritesType, ExcessType
      <4> QED BY <1>1, <4>1
    <3>2. extent' = Writes(n, 0, 0, 0)
      BY <2>1, <3>1
    <3>3. 0 <= IF request'.op = "unmade" THEN Len(m) + 1 ELSE MAX_PATH
      BY <1>1
    <3>4. 0 <= (IF Len(s) < NameSize THEN NameSize ELSE MaxName + 1)
      BY <1>1
    <3>5. 0 \in Nat /\ 0 <= MaxJoined
      BY <1>1
    <3> QED BY <1>4, <2>2, <2>3, <2>4, <3>1, <3>2, <3>3, <3>4, <3>5
  <2>6. Canonised' => IsCanonOf(request.from, request.memory)'
    <3>1. SUFFICES ASSUME Canonised' PROVE IsCanonOf(request.from, request.memory)'
      OBVIOUS
    <3>2. ~TooLong(s, m)
      BY <2>4, <3>1 DEF Canonised, CanonErr
    <3>3. PICK stale \in Stale : path' = Canon(s, stale, m)
      BY <2>1, <3>2
    <3>4. TooLong(request.from, request.memory)' = TooLong(s, m)
      BY <2>2, <2>4
         DEF TooLong, UnderRoot, Behind, IsDrive, Matches, DriveAt, Following, environment
    <3>5. Canon(request.from, stale, request.memory)' = Canon(s, stale, m)
      BY <2>2, <2>4
         DEF Canon, Bytes, Drive, UnderRoot, Behind, IsDrive, Matches, DriveAt, Following, environment
    <3> QED BY <2>4, <3>2, <3>3, <3>4, <3>5 DEF IsCanonOf
  <2> QED BY <1>3, <2>2, <2>5, <2>6 DEF PathsInv
<1>6. CASE OS_MakeSpec
  <2>1. PICK m \in Seq(Character) :
             /\ request'.op = "spec" /\ request'.from = s /\ request'.memory = m
             /\ extent' = Writes(CanonWrites(s, m), 0, 1, 0)
    <3>1. PICK m \in Beyond(s) :
             /\ request' = [op |-> "spec", from |-> s, err |-> CanonErr(s, m), memory |-> m]
             /\ extent' = Writes(CanonWrites(s, m), 0, 1, 0)
      BY <1>0, <1>6, Zenon DEF OS_MakeSpec, PathAnswer
    <3>2. m \in Seq(Character)
      BY BeyondType
    <3> QED BY <3>1, <3>2
  <2>2. UNCHANGED environment /\ path' = <<>> /\ <<>> \in Seq(Character)
    BY <1>6 DEF OS_MakeSpec
  <2>3. PICK n \in Nat : n = CanonWrites(s, m) /\ n <= MAX_PATH + Excess(s, m)
    <3>1. CanonWrites(s, m) \in 0..(MAX_PATH + Excess(s, m)) /\ Excess(s, m) \in Nat
      BY <1>2, CanonWritesType, ExcessType
    <3> QED BY <1>1, <3>1
  <2>4. extent' = Writes(n, 0, 1, 0)
    BY <2>1, <2>3
  <2>5. 1 <= IF request'.op = "unmade" THEN Len(m) + 1 ELSE MAX_PATH
    BY <1>1, <2>1
  <2>6. 0 <= (IF Len(s) < NameSize THEN NameSize ELSE MaxName + 1)
    BY <1>1
  <2>7. 0 \in Nat /\ 1 \in Nat /\ 0 <= MaxJoined /\ path' \in Seq(Character)
    BY <1>1, <2>2
  <2>8. PathTypeOK'
    BY <1>4, <2>1, <2>2, <2>3, <2>4, <2>5, <2>6, <2>7
  <2> QED BY <1>3, <2>1, <2>2, <2>8 DEF PathsInv, Canonised
<1>7. CASE OS_MakeNameSpec
  <2>1. PICK err :
             /\ request' = [op |-> "namespec", from |-> s, err |-> err, memory |-> <<>>]
             /\ path' = (IF err = "none" THEN s ELSE <<>>)
             /\ extent' = Writes(0, 0, 0, Len(path') + 1)
             /\ err = "none" => ~(MaxName < Len(s))
    <3>1. PICK err : err = IF MaxName < Len(s) THEN "ERROR_BUFFER_OVERFLOW"
                           ELSE IF Sep \in Range(s) THEN "ERROR_ACCESS_DENIED"
                           ELSE IF {":", "/"} \cap Range(s) # {} THEN "ERROR_INVALID_NAME" ELSE "none"
      OBVIOUS
    <3>2. MaxName < Len(s) => err # "none"
      BY <3>1
    <3>3. /\ request' = [op |-> "namespec", from |-> s, err |-> err, memory |-> <<>>]
          /\ path' = (IF request'.err = "none" THEN s ELSE <<>>)
          /\ extent' = Writes(0, 0, 0, Len(path') + 1)
      BY <1>0, <1>7, <3>1, Zenon DEF OS_MakeNameSpec, PathAnswer
    <3>4. request'.err = err
      BY <3>3
    <3> QED BY <3>2, <3>3, <3>4
  <2>2. UNCHANGED environment
    BY <1>7 DEF OS_MakeNameSpec
  <2>3. path' \in Seq(Character) /\ <<>> \in Seq(Character)
    BY <2>1
  <2>4. PICK n \in Nat : n = Len(path') + 1
    BY <2>3
  <2>5. n <= IF Len(s) < NameSize THEN NameSize ELSE MaxName + 1
    <3>1. Len(s) \in Nat /\ Len(<<>>) = 0
      OBVIOUS
    <3>2. CASE err = "none"
      BY <1>1, <2>1, <2>4, <3>1, <3>2
    <3>3. CASE err # "none"
      BY <1>1, <2>1, <2>4, <3>1, <3>3
    <3> QED BY <3>2, <3>3
  <2>6. extent' = Writes(0, 0, 0, n)
    BY <2>1, <2>4
  <2>7. request'.from = s /\ request'.memory = <<>> /\ request'.op = "namespec"
    BY <2>1
  <2>8. 0 <= MAX_PATH + Excess(s, <<>>)
    BY <2>3, NothingWritten
  <2>9. 0 <= (IF request'.op = "unmade" THEN Len(<<>>) + 1 ELSE MAX_PATH) /\ 0 \in Nat /\ 0 <= MaxJoined
    BY <1>1
  <2>10. PathTypeOK'
    BY <1>4, <2>2, <2>3, <2>5, <2>6, <2>7, <2>8, <2>9
  <2> QED BY <1>3, <2>2, <2>7, <2>10 DEF PathsInv, Canonised
\* The others have no name to copy and are not asked for the canonical form.
<1>8. ASSUME UNCHANGED environment, path' \in Seq(Character),
             NEW from \in Seq(Character), NEW m \in Seq(Character),
             request'.from = from, request'.memory = m, request'.op # "canon",
             NEW canon \in Nat, NEW joined \in Nat, NEW spec \in Nat,
             extent' = Writes(canon, joined, spec, 0),
             canon <= MAX_PATH + Excess(from, m), joined <= MaxJoined,
             spec <= IF request'.op = "unmade" THEN Len(m) + 1 ELSE MAX_PATH
      PROVE  PathsInv'
  <2>1. 0 \in Nat /\ 0 <= (IF Len(from) < NameSize THEN NameSize ELSE MaxName + 1)
    BY <1>1
  <2>2. PathTypeOK'
    BY <1>4, <1>8, <2>1
  <2> QED BY <1>3, <1>8, <2>2 DEF PathsInv, Canonised
<1>9. ASSUME NEW vol \in Parts, NEW dir \in Parts, NEW follow, NEW lenient,
             OS_MakePathSpec(vol, dir, follow, lenient)
      PROVE  PathsInv'
  <2>0. UNCHANGED environment
    BY <1>9 DEF OS_MakePathSpec
  <2>1. <<>> \in Seq(Character) /\ 0 \in Nat /\ 0 <= MaxJoined /\ 0 <= MAX_PATH + Excess(<<>>, <<>>)
    <3>1. <<>> \in Seq(Character)
      OBVIOUS
    <3>2. 0 <= MAX_PATH + Excess(<<>>, <<>>)
      BY <3>1, NothingWritten
    <3> QED BY <1>1, <3>1, <3>2
  <2>2. CASE JoinedTooLong(vol, dir)
    <3>1. /\ request'.op = "pathspec" /\ request'.from = <<>> /\ request'.memory = <<>>
          /\ extent' = Writes(0, 0, 0, 0) /\ path' = s
      BY <1>0, <1>9, <2>2 DEF OS_MakePathSpec, PathAnswer
    <3>2. 0 <= IF request'.op = "unmade" THEN Len(<<>>) + 1 ELSE MAX_PATH
      BY <1>1, <3>1
    <3> QED BY <1>8, <2>0, <2>1, <3>1, <3>2
  <2>3. CASE ~JoinedTooLong(vol, dir)
    <3>1. PICK buf \in Seq(Character) : buf = Joined(vol, dir)
      BY JoinedString
    <3>2. PICK n \in Nat : n = Len(buf) + 1 /\ n <= MaxJoined
      <4>1. Len(Joined(vol, dir)) + 1 \in 0..MaxJoined
        BY <2>3, JoinedType
      <4> QED BY <3>1, <4>1
    <3>3. CASE \E m \in Beyond(buf) :
                  /\ request'.op = "pathspec" /\ request'.from = buf /\ request'.memory = m
                  /\ extent' = Writes(CanonWrites(buf, m), Len(buf) + 1, 1, 0) /\ path' = <<>>
      <4>1. PICK m \in Seq(Character) :
                  /\ request'.op = "pathspec" /\ request'.from = buf /\ request'.memory = m
                  /\ extent' = Writes(CanonWrites(buf, m), Len(buf) + 1, 1, 0) /\ path' = <<>>
        BY <3>3, BeyondType
      <4>2. PICK k \in Nat : k = CanonWrites(buf, m) /\ k <= MAX_PATH + Excess(buf, m)
        <5>1. CanonWrites(buf, m) \in 0..(MAX_PATH + Excess(buf, m)) /\ Excess(buf, m) \in Nat
          BY <1>2, CanonWritesType, ExcessType
        <5> QED BY <1>1, <5>1
      <4>3. extent' = Writes(k, n, 1, 0)
        BY <3>2, <4>1, <4>2
      <4>4. 1 \in Nat /\ 1 <= IF request'.op = "unmade" THEN Len(m) + 1 ELSE MAX_PATH
        BY <1>1, <4>1
      <4> QED BY <1>8, <2>0, <2>1, <3>2, <4>1, <4>2, <4>3, <4>4
    <3>4. CASE /\ path' \in Memory /\ request'.op = "unmade" /\ request'.from = buf
               /\ request'.memory = path' /\ extent' = Writes(0, Len(buf) + 1, Len(path') + 1, 0)
      <4>1. PICK m \in Seq(Character) : m = path'
        BY <3>4, PathAssumption
      <4>2. PICK k \in Nat : k = Len(m) + 1
        OBVIOUS
      <4>3. extent' = Writes(0, n, k, 0) /\ 0 <= MAX_PATH + Excess(buf, m)
        BY <3>2, <3>4, <4>1, <4>2, NothingWritten
      <4>4. request'.op # "canon" /\ k <= IF request'.op = "unmade" THEN Len(m) + 1 ELSE MAX_PATH
        BY <3>4, <4>2
      <4> QED BY <1>8, <2>0, <2>1, <3>2, <3>4, <4>1, <4>3, <4>4
    <3> QED BY <1>9, <2>3, <3>1, <3>3, <3>4 DEF OS_MakePathSpec, PathAnswer
  <2> QED BY <2>2, <2>3
<1>10. ASSUME NEW cwd \in CWDs, OS_GetCWD(cwd) PROVE PathsInv'
  <2>1. PICK c \in Seq(Character) : c = cwd /\ Absolute(c) /\ Len(c) <= MAX_PATH - 2
    BY PathAssumption DEF CWDs
  <2>2. Len(c) > 0
    <3>1. At(c, 0) # Zero
      BY <2>1, CharacterFacts DEF Absolute
    <3> QED BY <3>1 DEF At
  <2>3. WithSep(c) \in Seq(Character) /\ Len(WithSep(c)) <= Len(c) + 1
    BY CharacterFacts DEF WithSep
  <2>4. PICK n \in Nat : n = Len(WithSep(c)) + 1 /\ n <= MAX_PATH
    <3>1. Len(WithSep(c)) \in Nat /\ Len(c) \in Nat
      BY <2>3
    <3> QED BY <1>1, <2>1, <2>3, <3>1
  <2>5. UNCHANGED environment
    BY <1>10 DEF OS_GetCWD
  <2>6. /\ request'.op = "cwd" /\ request'.from = <<>> /\ request'.memory = <<>>
        /\ path' \in Seq(Character) /\ \E k \in {0, n} : extent' = Writes(0, 0, k, 0)
    BY <1>0, <1>10, <2>1, <2>3, <2>4 DEF OS_GetCWD, PathAnswer
  <2>7. PICK k \in Nat : extent' = Writes(0, 0, k, 0) /\ k <= MAX_PATH
    BY <1>1, <2>4, <2>6
  <2>8. k <= IF request'.op = "unmade" THEN Len(<<>>) + 1 ELSE MAX_PATH
    BY <2>6, <2>7
  <2>9. <<>> \in Seq(Character) /\ 0 \in Nat /\ 0 <= MaxJoined /\ 0 <= MAX_PATH + Excess(<<>>, <<>>)
    <3>1. <<>> \in Seq(Character)
      OBVIOUS
    <3>2. 0 <= MAX_PATH + Excess(<<>>, <<>>)
      BY <3>1, NothingWritten
    <3> QED BY <1>1, <3>1, <3>2
  <2> QED BY <1>8, <2>5, <2>6, <2>7, <2>8, <2>9
<1>11. CASE UNCHANGED pathVars
  <2>1. UNCHANGED <<path, extent, request>> /\ UNCHANGED environment
    BY <1>11 DEF pathVars, environment
  <2>2. PathTypeOK' /\ (Canonised' <=> Canonised)
    BY <2>1
       DEF PathsInv, PathTypeOK, Canonised, Excess, IsDrive, Matches, DriveAt, Following, environment
  <2>3. Canonised => IsCanonOf(request.from, request.memory)'
    BY <2>1
       DEF PathsInv, IsCanonOf, environment, TooLong, UnderRoot, Behind,
           IsDrive, Drive, Canon, Bytes, DriveAt, Matches, Following
  <2> QED BY <1>3, <2>1, <2>2, <2>3 DEF PathsInv
<1> QED BY <1>5, <1>6, <1>7, <1>9, <1>10, <1>11 DEF PathNext

LEMMA CanonicalFromInv == ASSUME PathsInv PROVE CanonicalPaths
<1>1. SUFFICES ASSUME Canonised PROVE CanonicalPaths
  BY DEF CanonicalPaths, AbsoluteKept, SureUpToSlash, CaseIsIgnored, FormIsKept
<1>2. Environment /\ Stale \subseteq PathByte
  BY StaleBytes DEF PathsInv
<1>3. PICK s \in Seq(Character), m \in Seq(Character) :
           s = request.from /\ m = request.memory /\ IsCanonOf(s, m)
  BY <1>1 DEF PathsInv, IsCanonOf
<1>4. PICK stale \in PathByte : path = Canon(s, stale, m)
  BY <1>2, <1>3 DEF IsCanonOf
<1>5. path \in Seq(Character)
  BY DEF PathsInv, PathTypeOK
<1>6. AbsoluteKept
  <2>1. SUFFICES ASSUME Absolute(s) \/ IsDrive(s, m)
                 PROVE  /\ Absolute(path) <=> ~OddDrive(s, m)
                        /\ Absolute(path) => /\ OS_IsFullPath(path)
                                             /\ At(path, OS_GetDirPtr(path)) \in {Sep, Zero}
    BY <1>3 DEF AbsoluteKept
  <2>2. Absolute(path) <=> ~OddDrive(s, m)
    BY <1>2, <1>4, <2>1, AbsoluteHolds
  <2>3. Absolute(path) => OS_IsFullPath(path) /\ At(path, OS_GetDirPtr(path)) \in {Sep, Zero}
    BY <1>5, DirOfAbsolute
  <2> QED BY <2>2, <2>3
<1>7. SureUpToSlash
  <2>1. /\ IsPrefix(Sure(s, m), path)
        /\ UnderRoot(Behind(s, m)) \/ "/" \notin Range(Behind(s, m)) => path = Sure(s, m)
    BY <1>2, <1>4, SureHolds
  <2> QED BY <1>3, <2>1 DEF SureUpToSlash
<1>8. CaseIsIgnored
  <2>1. ASSUME NEW b \in Stale, path = Canon(s, b, m)
        PROVE  ~TooLong(Fold(s), m) /\ OS_EqualPath(Canon(Fold(s), b, m), path)
    <3>1. b \in PathByte /\ ~TooLong(s, m)
      BY <1>2, <1>3 DEF IsCanonOf
    <3> QED BY <1>2, <2>1, <3>1, FoldedCanon
  <2> QED BY <1>3, <2>1 DEF CaseIsIgnored
<1>9. FormIsKept
  <2>1. ~UnderRoot(Behind(s, m)) /\ At(path, 1) = ":" => At(path, 0) # "c"
    BY <1>2, <1>4, DriveIsCapital
  <2>2. ASSUME "/" \notin Range(path), NEW n \in Beyond(path), ~IsDrive(path, n), NEW b \in Stale
        PROVE  /\ OS_EqualPath(Canon(path, b, n), path)
               /\ At(path, 0) # "c" => Canon(path, b, n) = path
    <3>1. n \in Seq(Character) /\ b \in PathByte
      BY <1>2, BeyondType
    <3> QED BY <1>2, <1>5, <2>2, <3>1, FormHolds
  <2> QED BY <1>3, <2>1, <2>2 DEF FormIsKept
<1> QED BY <1>6, <1>7, <1>8, <1>9 DEF CanonicalPaths

(***************************************************************************)
(* Under any values of the two variables of the environment, the empty     *)
(* prefix too, with any paths, volumes and directories, and whatever lies  *)
(* behind a path or in a spec that was never made: OS_CanonPath,           *)
(* OS_MakeSpec, OS_MakePathSpec, OS_MakeNameSpec and OS_GetCWD write each  *)
(* buffer no further than PathTypeOK says.  That is to its end for the     *)
(* joined path, and for the spec of a path that was made; for the others   *)
(* it bounds how far the code goes beyond it.                              *)
(***************************************************************************)
THEOREM PathsStayInBuffers == PathSpec => []PathTypeOK
<1>1. PathInit => PathsInv
  BY PathsInit
<1>2. PathsInv /\ [PathNext]_pathVars => PathsInv'
  BY PathsStep
<1>3. PathsInv => PathTypeOK
  BY DEF PathsInv
<1> QED BY <1>1, <1>2, <1>3, PTL DEF PathSpec

(***************************************************************************)
(* The same for what OS_CanonPath makes of a path: an absolute path, or    *)
(* one under the prefix, becomes absolute if and only if its drive is a    *)
(* letter; up to the first slash, and under the root to its end, the form  *)
(* is what the path says, whatever the buffer held; paths that differ in   *)
(* case have forms that differ in case; and a form without a slash is kept *)
(* when it is taken again.                                                 *)
(***************************************************************************)
THEOREM PathsAreCanonical == PathSpec => []CanonicalPaths
<1>1. PathInit => PathsInv
  BY PathsInit
<1>2. PathsInv /\ [PathNext]_pathVars => PathsInv'
  BY PathsStep
<1>3. PathsInv => CanonicalPaths
  BY CanonicalFromInv
<1> QED BY <1>1, <1>2, <1>3, PTL DEF PathSpec
=============================================================================
