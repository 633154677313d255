------------------------- MODULE OSResourcesProofs -------------------------
(***************************************************************************)
(* For any number of OSHandles, blocks and handles of the system, and any  *)
(* even width of a reference: whatever fails, what is allocated or open is *)
(* somebody's, and references that are given out differ.                   *)
(***************************************************************************)
EXTENDS OSResources, SequenceTheorems, TLAPS

\* The parts of the invariant, by the variables they are about.
StartOK ==
    /\ phase \in {"new", "started", "running", "stopped"}
    /\ argv \in Seq(STRING \cup {NULL}) /\ argc \in 0..Len(argv) - 1

MemoryTyped == heap \in [Block -> Sizes \cup {0}] /\ hand \in [Hand -> OSHandle]

ObjectsTyped ==
    /\ open \subseteq Handle /\ held \subseteq open
    /\ map \in [ref : Handle \cup {Null}, view : BOOLEAN]
    /\ task.op \in {"none", "gettime", "settime", "islink", "resolve"}
    /\ task.ref \in Handle \cup {Null} /\ (task = NoTask <=> task.ref = Null)

ReplyTyped ==
    reply.op = "reftomac" => reply.value \in -(Word16 \div 2)..Word16 \div 2 - 1

\* What one step may do to the handles that nobody has.
LosesTwo ==
    \A f \in open' \ Owned' :
        \/ f \in open \ Owned
        \/ f \notin open /\ reply'.op = "open" /\ reply'.failed = "SetFilePointer"
        \/ f = task.ref /\ reply'.op = task.op /\ reply'.failed = "CloseHandle"

ObjectsOK == ObjectsTyped /\ OwnersApart
MemoryOK == MemoryTyped /\ HandsOwnTheirBlocks

\* Each part is inductive by itself but for its own types.
IInv == StartOK /\ MemoryOK /\ ObjectsOK /\ ReplyTyped

LEMMA IInvGivesTypes == IInv <=> TypeOK /\ HandsOwnTheirBlocks /\ OwnersApart
BY DEF IInv, StartOK, MemoryOK, MemoryTyped, ObjectsOK, ObjectsTyped, ReplyTyped, TypeOK

-----------------------------------------------------------------------------
\* Arithmetic on the references.
LEMMA ModSmall ==
    ASSUME NEW W \in Nat \ {0}, NEW n \in Nat, n < W
    PROVE  n % W = n
BY SMT

LEMMA ModNegative ==
    ASSUME NEW W \in Nat \ {0}, NEW n \in Int, n < 0, -n <= W
    PROVE  n % W = n + W
BY SMT

LEMMA HalfWord == Word16 = 2 * (Word16 \div 2) /\ Word16 \div 2 \in Nat \ {0}
<1>1. Word16 \in Nat \ {0} /\ Word16 % 2 = 0
  BY ResourcesAssumption
<1> QED BY <1>1, SMT

LEMMA Signed16Of ==
    ASSUME NEW n \in Int, NEW m \in Nat, n % Word16 = m
    PROVE  Signed16(n) = IF m < Word16 \div 2 THEN m ELSE m - Word16
BY Zenon DEF Signed16

\* What a reference is: the handle and one, or that less the width.
LEMMA RefToMacIs ==
    ASSUME NEW f \in Nat \ {0}, f < Word16 - 1
    PROVE  RefToMac(f) = IF f + 1 < Word16 \div 2 THEN f + 1 ELSE f + 1 - Word16
<1>1. Word16 \in Nat \ {0} /\ Word16 \div 2 \in Nat \ {0}
  BY HalfWord, ResourcesAssumption
<1>2. f \in Nat /\ f + 1 \in Nat /\ f < Word16 /\ f + 1 < Word16
  BY <1>1
<1>3. f % Word16 = f /\ (f + 1) % Word16 = f + 1
  BY <1>1, <1>2, ModSmall
<1>4. Signed16(f) = IF f < Word16 \div 2 THEN f ELSE f - Word16
  BY <1>2, <1>3, Signed16Of
<1>5. (Signed16(f) + 1) % Word16 = f + 1 /\ Signed16(f) + 1 \in Int
  <2>1. CASE f < Word16 \div 2
    BY <1>2, <1>3, <1>4, <2>1
  <2>2. CASE ~(f < Word16 \div 2)
    <3>1. f - Word16 + 1 \in Int /\ f - Word16 + 1 < 0 /\ -(f - Word16 + 1) <= Word16
      BY <1>1, <1>2
    <3>2. (f - Word16 + 1) % Word16 = f - Word16 + 1 + Word16
      BY <1>1, <3>1, ModNegative
    <3>3. f - Word16 + 1 + Word16 = f + 1
      BY <1>1, <1>2
    <3>4. Signed16(f) = f - Word16
      BY <1>4, <2>2
    <3> QED BY <3>1, <3>2, <3>3, <3>4
  <2> QED BY <2>1, <2>2
<1>6. Signed16(Signed16(f) + 1) = IF f + 1 < Word16 \div 2 THEN f + 1 ELSE f + 1 - Word16
  BY <1>1, <1>2, <1>5, Signed16Of
<1> QED BY <1>6, Zenon DEF RefToMac

-----------------------------------------------------------------------------
\* Where memory is left alone and no size is answered, it stays as it should.
LEMMA MemoryKept ==
    ASSUME MemoryOK, UNCHANGED memory, reply'.op # "size" \/ UNCHANGED reply
    PROVE  MemoryOK'
BY DEF MemoryOK, MemoryTyped, HandsOwnTheirBlocks, memory, OS_ValidHandle

LEMMA ObjectsKept ==
    ASSUME ObjectsOK, UNCHANGED objects
    PROVE  ObjectsOK' /\ LosesTwo
<1>1. open' = open /\ held' = held /\ map' = map /\ task' = task
  BY DEF objects
<1>2. ObjectsOK'
  BY <1>1 DEF ObjectsOK, ObjectsTyped, OwnersApart, Owned
<1>3. LosesTwo
  BY <1>1 DEF LosesTwo, Owned
<1> QED BY <1>2, <1>3

LEMMA StartKept ==
    ASSUME StartOK, UNCHANGED <<phase, start>>
    PROVE  StartOK'
BY DEF StartOK, start

\* What a handle of a block looks like.
LEMMA HandFields ==
    ASSUME MemoryTyped, NEW h \in Hand
    PROVE  /\ hand[h].addr \in Block \cup {Null} /\ hand[h].used \in Sizes \cup {0}
           /\ hand[h] = [addr |-> hand[h].addr, used |-> hand[h].used]
           /\ OS_ValidHandle(h) => hand[h].addr \in Block
           /\ Null \notin Block /\ 0 \notin Sizes /\ Sizes \subseteq Nat
BY ResourcesAssumption DEF MemoryTyped, OSHandle, OS_ValidHandle, Null

-----------------------------------------------------------------------------
(***************************************************************************)
(* Memory.  For each operation: the structures still own their blocks, and *)
(* a block that is left without a structure was lost by a resize.          *)
(***************************************************************************)
Lost == \E b \in Block : heap'[b] # 0 /\ ~Named(b)' /\ (heap[b] = 0 \/ Named(b))
LostByResize == Lost => reply'.op = "resize" /\ reply'.failed # "none"

LEMMA NothingLost ==
    ASSUME UNCHANGED memory
    PROVE  LostByResize
BY DEF LostByResize, Lost, Named, memory

LEMMA NewHandle ==
    ASSUME MemoryOK, NEW h \in Hand, NEW size \in Sizes, OS_NewHandle(h, size)
    PROVE  MemoryOK' /\ LostByResize
<1>1. reply'.op = "new"
  BY DEF OS_NewHandle, Reply
<1>2. hand[h].addr = Null /\ size > 0 /\ size \in Nat /\ Null \notin Block
  BY HandFields, ResourcesAssumption DEF OS_NewHandle, OS_ValidHandle, MemoryOK, Null
<1>3. CASE hand' = [hand EXCEPT ![h] = [addr |-> Null, used |-> size]] /\ UNCHANGED heap
  <2>1. MemoryTyped'
    BY <1>3 DEF MemoryOK, MemoryTyped, OSHandle
  <2>2. HandsOwnTheirBlocks'
    BY <1>1, <1>2, <1>3 DEF MemoryOK, MemoryTyped, HandsOwnTheirBlocks, OS_ValidHandle
  <2>3. ~Lost
    BY <1>2, <1>3 DEF Lost, Named, MemoryOK, MemoryTyped
  <2> QED BY <2>1, <2>2, <2>3 DEF MemoryOK, LostByResize
<1>4. ASSUME NEW b \in Block, heap[b] = 0,
             hand' = [hand EXCEPT ![h] = [addr |-> b, used |-> size]],
             heap' = [heap EXCEPT ![b] = size]
      PROVE  MemoryOK' /\ LostByResize
  <2>1. MemoryTyped'
    BY <1>4 DEF MemoryOK, MemoryTyped, OSHandle
  <2>2. \A g \in Hand : OS_ValidHandle(g) => hand[g].addr # b
    BY <1>4, HandFields DEF MemoryOK, HandsOwnTheirBlocks
  <2>3. HandsOwnTheirBlocks'
    BY <1>1, <1>2, <1>4, <2>2, HandFields DEF MemoryOK, MemoryTyped, HandsOwnTheirBlocks, OS_ValidHandle
  <2>4. ~Lost
    BY <1>2, <1>4 DEF Lost, Named, MemoryOK, MemoryTyped
  <2> QED BY <2>1, <2>3, <2>4 DEF MemoryOK, LostByResize
<1> QED BY <1>3, <1>4 DEF OS_NewHandle

LEMMA ResizeHandle ==
    ASSUME MemoryOK, NEW h \in Hand, NEW size \in Sizes, OS_ResizeHandle(h, size)
    PROVE  MemoryOK' /\ LostByResize
<1>1. reply'.op = "resize"
  BY DEF OS_ResizeHandle, Reply
<1>2. size > 0 /\ size \in Nat /\ Null \notin Block
  BY HandFields, ResourcesAssumption DEF MemoryOK, Null
<1>3. CASE hand' = [hand EXCEPT ![h] = NoHandle] /\ UNCHANGED heap /\ reply'.failed # "none"
  <2>1. MemoryTyped'
    BY <1>3 DEF MemoryOK, MemoryTyped, OSHandle, NoHandle
  <2>2. HandsOwnTheirBlocks'
    BY <1>1, <1>2, <1>3 DEF MemoryOK, MemoryTyped, HandsOwnTheirBlocks, OS_ValidHandle, NoHandle
  <2> QED BY <1>1, <1>3, <2>1, <2>2 DEF MemoryOK, LostByResize
<1>4. ASSUME NEW b \in Block, OS_ValidHandle(h), heap[b] = 0 \/ b = hand[h].addr,
             hand' = [hand EXCEPT ![h] = [addr |-> b, used |-> size]],
             heap' = [heap EXCEPT ![hand[h].addr] = 0, ![b] = size]
      PROVE  MemoryOK' /\ LostByResize
  <2> DEFINE old == hand[h].addr
  <2>1. old \in Block /\ \A g \in Hand : hand[g].addr \in Block \cup {Null}
    BY <1>4, HandFields DEF MemoryOK
  <2>2. MemoryTyped'
    BY <1>4 DEF MemoryOK, MemoryTyped, OSHandle
  <2>3. \A g \in Hand \ {h} : OS_ValidHandle(g) => hand[g].addr # b /\ hand[g].addr # old
    BY <1>4, HandFields DEF MemoryOK, HandsOwnTheirBlocks
  <2>4. \A c \in Block : heap'[c] = IF c = b THEN size ELSE IF c = old THEN 0 ELSE heap[c]
    BY <1>4, <2>1 DEF MemoryOK, MemoryTyped
  <2>5. hand'[h] = [addr |-> b, used |-> size] /\ \A g \in Hand \ {h} : hand'[g] = hand[g]
    BY <1>4 DEF MemoryOK, MemoryTyped
  <2> HIDE DEF old
  <2>6. HandsOwnTheirBlocks'
    <3>1. ASSUME NEW g \in Hand, hand'[g].addr # Null
          PROVE  /\ hand'[g].used > 0 /\ heap'[hand'[g].addr] = hand'[g].used
                 /\ \A k \in Hand \ {g} : hand'[k].addr # hand'[g].addr
      <4>1. CASE g = h
        BY <1>2, <2>1, <2>3, <2>4, <2>5, <3>1, <4>1 DEF OS_ValidHandle
      <4>2. CASE g # h
        <5>1. hand[g].addr # Null /\ hand[g].addr \in Block /\ hand[g].addr # b /\ hand[g].addr # old
          BY <2>1, <2>3, <2>5, <3>1, <4>2 DEF OS_ValidHandle
        <5>2. /\ hand[g].used > 0 /\ heap[hand[g].addr] = hand[g].used
              /\ \A k \in Hand \ {g} : hand[k].addr # hand[g].addr
          BY <5>1 DEF MemoryOK, HandsOwnTheirBlocks, OS_ValidHandle
        <5> QED BY <2>4, <2>5, <4>2, <5>1, <5>2
      <4> QED BY <4>1, <4>2
    <3> QED BY <1>1, <3>1 DEF HandsOwnTheirBlocks, OS_ValidHandle
  <2>7. ~Lost
    <3> SUFFICES ASSUME NEW c \in Block, heap'[c] # 0, ~Named(c)', heap[c] = 0 \/ Named(c)
                 PROVE  FALSE
      BY DEF Lost
    <3>1. c # b
      BY <2>5 DEF Named
    <3>2. c # old /\ heap'[c] = heap[c]
      BY <2>4, <3>1
    <3>3. PICK g \in Hand : hand[g].addr = c
      BY <3>2 DEF Named
    <3>4. g # h
      BY <3>2, <3>3 DEF old
    <3> QED BY <2>5, <3>3, <3>4 DEF Named
  <2> QED BY <2>2, <2>6, <2>7 DEF MemoryOK, LostByResize
<1> QED BY <1>3, <1>4 DEF OS_ResizeHandle, Reply

LEMMA FreeHandle ==
    ASSUME MemoryOK, NEW h \in Hand, OS_FreeHandle(h), ~UNCHANGED memory
    PROVE  MemoryOK' /\ LostByResize
<1>1. /\ heap' = [b \in Block |-> IF b = hand[h].addr THEN 0 ELSE heap[b]]
      /\ hand' = [hand EXCEPT ![h] = NoHandle] /\ reply'.op = "free"
  BY DEF OS_FreeHandle, Reply
<1>2. MemoryTyped'
  BY <1>1 DEF MemoryOK, MemoryTyped, OSHandle, NoHandle
<1>3. hand'[h] = NoHandle /\ \A g \in Hand \ {h} : hand'[g] = hand[g]
  BY <1>1 DEF MemoryOK, MemoryTyped
<1>4. HandsOwnTheirBlocks'
  <2>1. ASSUME NEW g \in Hand, hand'[g].addr # Null
        PROVE  /\ hand'[g].used > 0 /\ heap'[hand'[g].addr] = hand'[g].used
               /\ \A k \in Hand \ {g} : hand'[k].addr # hand'[g].addr
    <3>1. g # h
      BY <1>3, <2>1 DEF NoHandle
    <3>2. hand[g].addr # Null /\ hand[g].addr \in Block
      BY <1>3, <2>1, <3>1, HandFields DEF MemoryOK
    <3>3. /\ hand[g].used > 0 /\ heap[hand[g].addr] = hand[g].used
          /\ \A k \in Hand \ {g} : hand[k].addr # hand[g].addr
      BY <3>2 DEF MemoryOK, HandsOwnTheirBlocks, OS_ValidHandle
    <3> QED BY <1>1, <1>3, <3>1, <3>2, <3>3 DEF NoHandle
  <2> QED BY <1>1, <2>1 DEF HandsOwnTheirBlocks, OS_ValidHandle
<1>5. ~Lost
  <2> SUFFICES ASSUME NEW c \in Block, heap'[c] # 0, ~Named(c)', heap[c] = 0 \/ Named(c)
               PROVE  FALSE
    BY DEF Lost
  <2>1. c # hand[h].addr /\ heap'[c] = heap[c]
    BY <1>1
  <2>2. PICK g \in Hand : hand[g].addr = c
    BY <2>1 DEF Named
  <2> QED BY <1>3, <2>1, <2>2 DEF Named
<1> QED BY <1>2, <1>4, <1>5 DEF MemoryOK, LostByResize

LEMMA InvalidateHandle ==
    ASSUME MemoryOK, NEW h \in Hand, NEW copy \in Hand, OS_InvalidateHandle(h, copy)
    PROVE  MemoryOK' /\ LostByResize
<1>1. /\ hand[copy].addr = Null /\ copy # h /\ heap' = heap /\ reply'.op = "invalidate"
      /\ hand' = [hand EXCEPT ![h] = NoHandle, ![copy] = hand[h]]
  BY DEF OS_InvalidateHandle, OS_ValidHandle, Reply
<1>2. MemoryTyped'
  BY <1>1 DEF MemoryOK, MemoryTyped, OSHandle, NoHandle
<1>3. /\ hand'[h] = NoHandle /\ hand'[copy] = hand[h]
      /\ \A g \in Hand \ {h, copy} : hand'[g] = hand[g]
  BY <1>1 DEF MemoryOK, MemoryTyped
<1>4. HandsOwnTheirBlocks'
  <2>1. ASSUME NEW g \in Hand, hand'[g].addr # Null
        PROVE  /\ hand'[g].used > 0 /\ heap'[hand'[g].addr] = hand'[g].used
               /\ \A k \in Hand \ {g} : hand'[k].addr # hand'[g].addr
    <3> DEFINE was(k) == IF k = copy THEN h ELSE k
    <3>1. \A k \in Hand : k # h => hand'[k] = hand[was(k)]
      BY <1>3
    <3>2. g # h
      BY <1>3, <2>1 DEF NoHandle
    <3>3. \A k \in Hand \ {g} : k # h => was(k) # was(g)
      BY <3>2
    <3>4. /\ hand[was(g)].used > 0 /\ heap[hand[was(g)].addr] = hand[was(g)].used
          /\ \A k \in Hand \ {was(g)} : hand[k].addr # hand[was(g)].addr
      BY <2>1, <3>1, <3>2 DEF MemoryOK, HandsOwnTheirBlocks, OS_ValidHandle
    <3>5. was(g) \in Hand /\ \A k \in Hand : was(k) \in Hand
      OBVIOUS
    <3>6. hand'[g].used > 0 /\ heap'[hand'[g].addr] = hand'[g].used
      BY <1>1, <3>1, <3>2, <3>4
    <3> HIDE DEF was
    <3>7. ASSUME NEW k \in Hand \ {g}, k # h
          PROVE  hand'[k].addr # hand'[g].addr
      BY <3>1, <3>2, <3>3, <3>4, <3>5, <3>7
    <3>8. hand'[h].addr # hand'[g].addr
      BY <1>3, <2>1 DEF NoHandle
    <3> QED BY <3>6, <3>7, <3>8
  <2> QED BY <1>1, <2>1 DEF HandsOwnTheirBlocks, OS_ValidHandle
<1>5. ~Lost
  <2> SUFFICES ASSUME NEW c \in Block, heap'[c] # 0, ~Named(c)', heap[c] = 0 \/ Named(c)
               PROVE  FALSE
    BY DEF Lost
  <2>1. PICK g \in Hand : hand[g].addr = c
    BY <1>1 DEF Named
  <2>2. g # copy
    BY <1>1, <2>1, HandFields DEF MemoryOK
  <2> QED BY <1>3, <2>1, <2>2 DEF Named
<1> QED BY <1>2, <1>4, <1>5 DEF MemoryOK, LostByResize

LEMMA GetHandleSize ==
    ASSUME MemoryOK, NEW h \in Hand, OS_GetHandleSize(h)
    PROVE  MemoryOK'
<1>1. /\ UNCHANGED memory /\ reply'.op = "size" /\ reply'.arg = h
      /\ reply'.value = IF Allocated(hand[h].addr) THEN hand[h].used ELSE 0
  BY DEF OS_GetHandleSize, Reply
<1>2. reply'.value = IF OS_ValidHandle(h) THEN heap[hand[h].addr] ELSE 0
  BY <1>1 DEF Allocated, MemoryOK, HandsOwnTheirBlocks, OS_ValidHandle
<1> QED BY <1>1, <1>2 DEF MemoryOK, MemoryTyped, HandsOwnTheirBlocks, OS_ValidHandle, memory

-----------------------------------------------------------------------------
\* Handles.  One that the system gives was not open before.
LEMMA SpareIsNew == Spare \subseteq Handle \ open
BY DEF Spare

LEMMA HandleNumbers == Handle \subseteq Nat \ {0} /\ Null \notin Handle
BY ResourcesAssumption DEF Null

LEMMA TaskFields ==
    ASSUME NEW op, NEW arg, NEW ref, NEW used, NEW failed, NEW value
    PROVE  /\ Task(op, arg, ref, used, failed, value).op = op
           /\ Task(op, arg, ref, used, failed, value).ref = ref
           /\ NoTask.op = "none" /\ NoTask.ref = Null
           /\ Task(op, arg, ref, used, failed, value) = NoTask => ref = Null
BY DEF Task, NoTask

\* What has to be seen of the state after a step.
LEMMA ObjectsAfter ==
    ASSUME open' \subseteq Handle, held' \subseteq open',
           map' \in [ref : Handle \cup {Null}, view : BOOLEAN],
           task'.op \in {"none", "gettime", "settime", "islink", "resolve"},
           task' = NoTask <=> task'.ref = Null,
           map'.ref \in open' \cup {Null}, task'.ref \in open' \cup {Null},
           map'.ref \notin held', task'.ref \notin held',
           map'.ref = task'.ref => map'.ref = Null
    PROVE  ObjectsOK' /\ Owned' = held' \cup ({map'.ref, task'.ref} \ {Null})
<1>1. Owned' = held' \cup ({map'.ref, task'.ref} \ {Null})
  BY DEF Owned
<1>2. ObjectsTyped'
  BY HandleNumbers DEF ObjectsTyped
<1>3. OwnersApart'
  BY <1>1 DEF OwnersApart
<1> QED BY <1>1, <1>2, <1>3 DEF ObjectsOK

\* What is known before a step.
LEMMA ObjectsBefore ==
    ASSUME ObjectsOK
    PROVE  /\ open \subseteq Handle /\ held \subseteq open /\ Null \notin open
           /\ map \in [ref : Handle \cup {Null}, view : BOOLEAN]
           /\ task.op \in {"none", "gettime", "settime", "islink", "resolve"}
           /\ task = NoTask <=> task.ref = Null
           /\ map.ref \in open \cup {Null} /\ task.ref \in open \cup {Null}
           /\ map.ref \notin held /\ task.ref \notin held
           /\ map.ref = task.ref => map.ref = Null
           /\ Owned = held \cup ({map.ref, task.ref} \ {Null})
BY HandleNumbers DEF ObjectsOK, ObjectsTyped, OwnersApart, Owned

LEMMA OpenStep ==
    ASSUME ObjectsOK, NEW append \in BOOLEAN, OS_Open(append)
    PROVE  ObjectsOK' /\ LosesTwo
<1>1. map' = map /\ task' = task
  BY DEF OS_Open
<1>2. CASE open' = open /\ held' = held
  BY <1>1, <1>2, ObjectsKept DEF objects
<1>3. ASSUME NEW f \in Spare, open' = open \cup {f},
             held' = held \cup {f} \/
             (held' = held /\ reply'.op = "open" /\ reply'.failed = "SetFilePointer")
      PROVE  ObjectsOK' /\ LosesTwo
  <2>1. f \in Handle /\ f \notin open /\ f # Null
    BY SpareIsNew, HandleNumbers
  <2>2. ObjectsOK' /\ Owned' = held' \cup ({map.ref, task.ref} \ {Null})
    BY <1>1, <1>3, <2>1, ObjectsBefore, ObjectsAfter
  <2>3. LosesTwo
    BY <1>3, <2>1, <2>2, ObjectsBefore DEF LosesTwo
  <2> QED BY <2>2, <2>3
<1>4. \/ open' = open /\ held' = held
      \/ \E f \in Spare : /\ open' = open \cup {f}
                          /\ \/ held' = held \cup {f}
                             \/ held' = held /\ reply'.op = "open" /\ reply'.failed = "SetFilePointer"
  BY DEF OS_Open, Reply
<1> QED BY <1>2, <1>3, <1>4

LEMMA CloseStep ==
    ASSUME ObjectsOK, NEW f \in Handle, OS_Close(f)
    PROVE  ObjectsOK' /\ LosesTwo
<1>1. f # Null /\ (f \in held \/ f = map.ref) /\ task' = task
  BY HandleNumbers DEF OS_Close
<1>2. CASE open' = open /\ held' = held /\ map' = map
  BY <1>1, <1>2, ObjectsKept DEF objects
<1>3. CASE /\ open' = open \ {f} /\ held' = held \ {f}
           /\ map' = IF f = map.ref THEN NoView ELSE map
  <2>1. /\ map'.ref = IF f = map.ref THEN Null ELSE map.ref
        /\ map' \in [ref : Handle \cup {Null}, view : BOOLEAN]
    BY <1>3, ObjectsBefore DEF NoView
  <2>2. task.ref # f
    BY <1>1, ObjectsBefore
  <2>3. ObjectsOK' /\ Owned' = held' \cup ({map'.ref, task.ref} \ {Null})
    BY <1>1, <1>3, <2>1, <2>2, ObjectsBefore, ObjectsAfter
  <2>4. LosesTwo
    BY <1>3, <2>1, <2>3, ObjectsBefore DEF LosesTwo
  <2> QED BY <2>3, <2>4
<1> QED BY <1>2, <1>3 DEF OS_Close

LEMMA OpensStep ==
    ASSUME ObjectsOK, NEW op \in {"gettime", "settime", "islink", "resolve"}, NEW arg, NEW no,
           task = NoTask, Opens(op, arg, no), UNCHANGED <<held, map>>
    PROVE  ObjectsOK' /\ LosesTwo
<1>1. CASE UNCHANGED <<open, task>>
  BY <1>1, ObjectsKept DEF objects
<1>2. ASSUME NEW f \in Spare, open' = open \cup {f},
             task' = Task(op, arg, f, FALSE, "none", no)
      PROVE  ObjectsOK' /\ LosesTwo
  <2>1. f \in Handle /\ f \notin open /\ f # Null
    BY SpareIsNew, HandleNumbers
  <2>2. task'.op = op /\ task'.ref = f /\ task' # NoTask /\ task.ref = Null
    BY <1>2, <2>1 DEF Task, NoTask
  <2>3. ObjectsOK' /\ Owned' = held \cup ({map.ref, f} \ {Null})
    BY <1>2, <2>1, <2>2, ObjectsBefore, ObjectsAfter
  <2>4. LosesTwo
    BY <1>2, <2>1, <2>2, <2>3, ObjectsBefore DEF LosesTwo
  <2> QED BY <2>3, <2>4
<1> QED BY <1>1, <1>2 DEF Opens

LEMMA UsesStep ==
    ASSUME ObjectsOK, NEW op \in {"gettime", "settime", "islink", "resolve"},
           NEW failed, NEW value, Uses(op, failed, value)
    PROVE  ObjectsOK' /\ LosesTwo
<1>1. /\ task.op = op /\ open' = open /\ held' = held /\ map' = map
      /\ task' = Task(op, task.arg, task.ref, TRUE, failed, value)
  BY DEF Uses
<1>2. task # NoTask /\ task.ref # Null
  <2>1. task # NoTask
    BY <1>1, TaskFields
  <2> QED BY <2>1, ObjectsBefore
<1>3. task'.op = op /\ task'.ref = task.ref /\ task' # NoTask
  BY <1>1, <1>2 DEF Task, NoTask
<1>4. ObjectsOK' /\ Owned' = held \cup ({map.ref, task.ref} \ {Null})
  BY <1>1, <1>2, <1>3, ObjectsBefore, ObjectsAfter
<1>5. LosesTwo
  BY <1>1, <1>4, ObjectsBefore DEF LosesTwo
<1> QED BY <1>4, <1>5

LEMMA FinishStep ==
    ASSUME ObjectsOK, Finish
    PROVE  ObjectsOK' /\ LosesTwo
<1>1. held' = held /\ map' = map /\ task' = NoTask /\ reply'.op = task.op
  BY DEF Finish, Reply
<1>2. open' = open \ {task.ref} \/ (open' = open /\ reply'.failed = "CloseHandle")
  BY DEF Finish, Reply
<1>3. task'.op = "none" /\ task'.ref = Null
  BY <1>1, TaskFields
<1>4. /\ open' \subseteq Handle /\ held \subseteq open'
      /\ map.ref \in open' \cup {Null}
  BY <1>2, ObjectsBefore
<1>5. ObjectsOK' /\ Owned' = held \cup ({map.ref, Null} \ {Null})
  BY <1>1, <1>3, <1>4, ObjectsBefore, ObjectsAfter
<1>6. LosesTwo
  BY <1>1, <1>2, <1>5, ObjectsBefore DEF LosesTwo
<1> QED BY <1>5, <1>6

LEMMA MapStep ==
    ASSUME ObjectsOK, NEW readonly \in BOOLEAN, OS_MapFile(readonly)
    PROVE  ObjectsOK' /\ LosesTwo
<1>1. map.ref = Null /\ held' = held /\ task' = task
  BY DEF OS_MapFile
<1>2. CASE UNCHANGED <<open, map>>
  BY <1>1, <1>2, ObjectsKept DEF objects
<1>3. ASSUME NEW f \in Spare, NEW view \in BOOLEAN,
             open' = open \cup {f}, map' = [ref |-> f, view |-> view]
      PROVE  ObjectsOK' /\ LosesTwo
  <2>1. f \in Handle /\ f \notin open /\ f # Null /\ map'.ref = f
        /\ map' \in [ref : Handle \cup {Null}, view : BOOLEAN]
    BY <1>3, SpareIsNew, HandleNumbers
  <2>2. ObjectsOK' /\ Owned' = held \cup ({f, task.ref} \ {Null})
    BY <1>1, <1>3, <2>1, ObjectsBefore, ObjectsAfter
  <2>3. LosesTwo
    BY <1>1, <1>3, <2>1, <2>2, ObjectsBefore DEF LosesTwo
  <2> QED BY <2>2, <2>3
<1> QED BY <1>2, <1>3 DEF OS_MapFile

LEMMA UnMapStep ==
    ASSUME ObjectsOK, OS_UnMapFile
    PROVE  ObjectsOK' /\ LosesTwo
<1>1. held' = held /\ map.ref # Null /\ task' = task
  BY DEF OS_UnMapFile
<1>2. CASE open' = open /\ map' = map
  BY <1>1, <1>2, ObjectsKept DEF objects
<1>3. CASE map' = NoView /\ open' = open \ {map.ref}
  <2>1. map'.ref = Null /\ map' \in [ref : Handle \cup {Null}, view : BOOLEAN]
    BY <1>3 DEF NoView
  <2>2. ObjectsOK' /\ Owned' = held \cup ({Null, task.ref} \ {Null})
    BY <1>1, <1>3, <2>1, ObjectsBefore, ObjectsAfter
  <2>3. LosesTwo
    BY <1>1, <1>3, <2>2, ObjectsBefore DEF LosesTwo
  <2> QED BY <2>2, <2>3
<1>4. CASE open' = open /\ map' = [map EXCEPT !.view = FALSE]
  <2>1. map'.ref = map.ref /\ map' \in [ref : Handle \cup {Null}, view : BOOLEAN]
    BY <1>4, ObjectsBefore
  <2>2. ObjectsOK' /\ Owned' = held \cup ({map.ref, task.ref} \ {Null})
    BY <1>1, <1>4, <2>1, ObjectsBefore, ObjectsAfter
  <2>3. LosesTwo
    BY <1>1, <1>4, <2>2, ObjectsBefore DEF LosesTwo
  <2> QED BY <2>2, <2>3
<1> QED BY <1>2, <1>3, <1>4 DEF OS_UnMapFile

-----------------------------------------------------------------------------
\* The start: moving the arguments down keeps them a list.
LEMMA InitProgramStep ==
    ASSUME StartOK, OS_InitProgram
    PROVE  StartOK'
<1> DEFINE Args == STRING \cup {NULL}
<1>1. argv \in Seq(Args) /\ argc \in 0..Len(argv) - 1 /\ phase' = "started"
  BY DEF StartOK, OS_InitProgram
<1>2. CASE UNCHANGED <<argv, argc>>
  BY <1>1, <1>2 DEF StartOK
<1>3. CASE argv' = MovedDown(argv, argc) /\ argc' = argc - 1 /\ argc > 1
  <2>1. /\ DOMAIN argv = 1..Len(argv) /\ Len(argv) \in Nat
        /\ \A k \in 1..Len(argv) : argv[k] \in Args
    BY <1>1
  <2>2. argv' = [k \in 1..Len(argv) |-> IF k \in 2..argc THEN argv[k + 1] ELSE argv[k]]
    BY <1>3, <2>1 DEF MovedDown
  <2>3. \A k \in 2..argc : k + 1 \in 1..Len(argv)
    BY <1>1, <2>1
  <2> HIDE DEF Args
  <2>4. argv' \in Seq(Args) /\ Len(argv') = Len(argv)
    BY <2>1, <2>2, <2>3
  <2> QED BY <1>1, <1>3, <2>1, <2>4 DEF StartOK, Args
<1> QED BY <1>2, <1>3 DEF OS_InitProgram

LEMMA MainReadsStep ==
    ASSUME MainReads
    PROVE  StartOK'
<1>1. phase' = "running" /\ argc' = 0 /\ argv' = <<NULL>>
  BY DEF MainReads
<1>2. <<NULL>> \in Seq(STRING \cup {NULL}) /\ Len(<<NULL>>) = 1
  BY NULL \in STRING \cup {NULL}
<1> QED BY <1>1, <1>2 DEF StartOK

-----------------------------------------------------------------------------
(***************************************************************************)
(* Every step keeps the invariant, and loses a block or a handle only as   *)
(* it may.                                                                 *)
(***************************************************************************)
Step == IInv' /\ LostByResize /\ LosesTwo

\* Operations that leave memory and the start alone.
LEMMA OnlyObjects ==
    ASSUME IInv, UNCHANGED <<phase, start>>, UNCHANGED memory, ObjectsOK', LosesTwo,
           reply'.op \notin {"size", "reftomac"} \/ UNCHANGED reply
    PROVE  Step
BY StartKept, MemoryKept, NothingLost DEF Step, IInv, ReplyTyped

\* Operations on memory.
LEMMA OnlyMemory ==
    ASSUME IInv, UNCHANGED <<phase, start>>, UNCHANGED objects, MemoryOK', LostByResize,
           reply'.op # "reftomac"
    PROVE  Step
BY StartKept, ObjectsKept DEF Step, IInv, ReplyTyped

LEMMA MemorySteps ==
    ASSUME IInv, Running, NEW h \in Hand, Memory(h)
    PROVE  Step
<1> USE DEF Running
<1>1. ASSUME NEW size \in Sizes, OS_NewHandle(h, size) PROVE Step
  BY <1>1, NewHandle, OnlyMemory DEF IInv, OS_NewHandle, Reply
<1>2. ASSUME NEW size \in Sizes, OS_ResizeHandle(h, size) PROVE Step
  BY <1>2, ResizeHandle, OnlyMemory DEF IInv, OS_ResizeHandle, Reply
<1>3. CASE OS_LockHandle(h)
  <2>1. reply'.op = "lock" /\ UNCHANGED memory /\ UNCHANGED objects
    BY <1>3 DEF OS_LockHandle, Reply
  <2> QED BY <2>1, ObjectsKept, OnlyObjects DEF IInv
<1>4. CASE OS_GetHandleSize(h)
  <2>1. reply'.op = "size" /\ UNCHANGED memory /\ UNCHANGED objects
    BY <1>4 DEF OS_GetHandleSize, Reply
  <2> QED BY <1>4, <2>1, GetHandleSize, NothingLost, OnlyMemory DEF IInv
<1>5. CASE OS_FreeHandle(h)
  <2>1. reply'.op = "free" /\ UNCHANGED objects
    BY <1>5 DEF OS_FreeHandle, Reply
  <2>2. CASE UNCHANGED memory
    BY <2>1, <2>2, ObjectsKept, OnlyObjects DEF IInv
  <2>3. CASE ~UNCHANGED memory
    BY <1>5, <2>1, <2>3, FreeHandle, OnlyMemory DEF IInv
  <2> QED BY <2>2, <2>3
<1>6. ASSUME NEW copy \in Hand, OS_InvalidateHandle(h, copy) PROVE Step
  <2>1. reply'.op = "invalidate" /\ UNCHANGED objects
    BY <1>6 DEF OS_InvalidateHandle, Reply
  <2> QED BY <1>6, <2>1, InvalidateHandle, OnlyMemory DEF IInv
<1> QED BY <1>1, <1>2, <1>3, <1>4, <1>5, <1>6 DEF Memory

LEMMA FileSteps ==
    ASSUME IInv, Running, Files
    PROVE  Step
<1> USE DEF Running, Returned
<1>1. ASSUME NEW append \in BOOLEAN, OS_Open(append) PROVE Step
  <2>1. reply'.op = "open" /\ UNCHANGED memory
    BY <1>1 DEF OS_Open, Reply
  <2> QED BY <1>1, <2>1, OpenStep, OnlyObjects DEF IInv
<1>2. CASE OS_GetFileTime
  <2>1. Opens("gettime", Null, 0) /\ UNCHANGED <<held, map>> /\ UNCHANGED memory
    BY <1>2 DEF OS_GetFileTime, memory
  <2>2. reply'.op = "gettime" \/ UNCHANGED reply
    <3>1. \/ reply' = [op |-> "gettime", arg |-> Null, failed |-> "CreateFile", value |-> 0]
          \/ reply' = reply
      BY <2>1, Zenon DEF Opens, Reply
    <3> QED BY <3>1
  <2> QED BY <2>1, <2>2, OpensStep, OnlyObjects DEF IInv
<1>3. CASE OS_SetFileTime
  <2>1. Opens("settime", Null, 0) /\ UNCHANGED <<held, map>> /\ UNCHANGED memory
    BY <1>3 DEF OS_SetFileTime, memory
  <2>2. reply'.op = "settime" \/ UNCHANGED reply
    <3>1. \/ reply' = [op |-> "settime", arg |-> Null, failed |-> "CreateFile", value |-> 0]
          \/ reply' = reply
      BY <2>1, Zenon DEF Opens, Reply
    <3> QED BY <3>1
  <2> QED BY <2>1, <2>2, OpensStep, OnlyObjects DEF IInv
<1>4. CASE OS_UnMapFile
  <2>1. reply'.op = "unmap" /\ UNCHANGED memory
    BY <1>4 DEF OS_UnMapFile, Reply
  <2> QED BY <1>4, <2>1, UnMapStep, OnlyObjects DEF IInv
<1>5. CASE OS_LoadMacResourceFork
  <2>1. reply'.op = "fork" /\ UNCHANGED memory /\ UNCHANGED objects
    BY <1>5 DEF OS_LoadMacResourceFork, Reply
  <2> QED BY <2>1, ObjectsKept, OnlyObjects DEF IInv
<1>6. ASSUME NEW f \in Handle, OS_Close(f) PROVE Step
  <2>1. reply'.op = "close" /\ UNCHANGED memory
    BY <1>6 DEF OS_Close, Reply
  <2> QED BY <1>6, <2>1, CloseStep, OnlyObjects DEF IInv
<1>7. ASSUME NEW readonly \in BOOLEAN, OS_MapFile(readonly) PROVE Step
  <2>1. reply'.op = "map" /\ UNCHANGED memory
    BY <1>7 DEF OS_MapFile, Reply
  <2> QED BY <1>7, <2>1, MapStep, OnlyObjects DEF IInv
<1> QED BY <1>1, <1>2, <1>3, <1>4, <1>5, <1>6, <1>7 DEF Files

LEMMA LinkSteps ==
    ASSUME IInv, Running, NEW f \in LinkFile, OS_IsLink(f) \/ OS_ResolveLink(f)
    PROVE  Step
<1>1. UNCHANGED memory /\ UNCHANGED <<held, map>> /\ task = NoTask
  BY DEF OS_IsLink, OS_ResolveLink, memory, Running, Returned
<1>4. reply'.op \in {"islink", "resolve"} \/ UNCHANGED reply
  <2>1. CASE OS_IsLink(f)
    <3>1. \E failed, value : reply' = [op |-> "islink", arg |-> f, failed |-> failed, value |-> value]
          \/ reply' = reply
      BY <2>1, Zenon DEF OS_IsLink, OpenSoftlink, Opens, Reply
    <3> QED BY <3>1
  <2>2. CASE OS_ResolveLink(f)
    <3>1. \E failed, value : reply' = [op |-> "resolve", arg |-> f, failed |-> failed, value |-> value]
          \/ reply' = reply
      BY <2>2, Zenon DEF OS_ResolveLink, OpenSoftlink, Opens, Reply
    <3> QED BY <3>1
  <2> QED BY <2>1, <2>2
<1>2. \/ UNCHANGED <<open, task>>
      \/ \E op \in {"islink", "resolve"} : Opens(op, f, NoSoftlink(op))
  BY DEF OS_IsLink, OS_ResolveLink, OpenSoftlink
<1>3. ObjectsOK' /\ LosesTwo
  <2>1. CASE UNCHANGED <<open, task>>
    BY <1>1, <2>1, ObjectsKept DEF objects, IInv
  <2>2. ASSUME NEW op \in {"islink", "resolve"}, Opens(op, f, NoSoftlink(op))
        PROVE  ObjectsOK' /\ LosesTwo
    BY <1>1, <2>2, OpensStep DEF IInv
  <2> QED BY <1>2, <2>1, <2>2
<1> QED BY <1>1, <1>3, <1>4, OnlyObjects DEF IInv, Running

\* The rest of an operation that has opened a file.
LEMMA ContinueSteps ==
    ASSUME IInv, Continue, UNCHANGED <<phase, start>>
    PROVE  Step
<1>1. ASSUME NEW op \in {"gettime", "settime", "islink", "resolve"},
             NEW failed, NEW value, Uses(op, failed, value)
      PROVE  Step
  <2>1. UNCHANGED memory /\ UNCHANGED reply
    BY <1>1 DEF Uses, memory
  <2> QED BY <1>1, <2>1, UsesStep, OnlyObjects DEF IInv
<1>2. CASE GetTime
  BY <1>1, <1>2 DEF GetTime
<1>3. CASE SetTime
  BY <1>1, <1>3 DEF SetTime
<1>4. CASE ReadCygwinSoftlinkSpec
  BY <1>1, <1>4 DEF ReadCygwinSoftlinkSpec
<1>5. CASE Finish
  <2>1. UNCHANGED memory /\ reply'.op = task.op
    BY <1>5 DEF Finish, Reply, memory
  <2>2. task.op \in {"none", "gettime", "settime", "islink", "resolve"}
    BY DEF IInv, ObjectsOK, ObjectsTyped
  <2> QED BY <1>5, <2>1, <2>2, FinishStep, OnlyObjects DEF IInv
<1> QED BY <1>2, <1>3, <1>4, <1>5 DEF Continue

\* The first half of the range is where a reference is small, or negative.
LEMMA RefInRange ==
    ASSUME NEW f \in Nat \ {0}, f < Word16 - 1
    PROVE  RefToMac(f) \in -(Word16 \div 2)..Word16 \div 2 - 1
<1>1. Word16 = 2 * (Word16 \div 2) /\ Word16 \div 2 \in Nat \ {0} /\ Word16 \in Nat
  BY HalfWord, ResourcesAssumption
<1> QED BY <1>1, RefToMacIs

LEMMA RefStep ==
    ASSUME IInv, NEW f \in held, OS_RefToMac(f)
    PROVE  Step
<1>1. f \in Nat \ {0}
  BY HandleNumbers DEF IInv, ObjectsOK, ObjectsTyped
<1>2. ReplyTyped'
  <2>1. CASE f < Word16 - 1
    BY <1>1, <2>1, RefInRange DEF OS_RefToMac, Reply, ReplyTyped
  <2>2. CASE ~(f < Word16 - 1)
    <3>1. reply'.value = 0
      BY <2>2 DEF OS_RefToMac, Reply
    <3> QED BY <3>1, HalfWord DEF ReplyTyped
  <2> QED BY <2>1, <2>2
<1>3. UNCHANGED memory /\ UNCHANGED objects /\ reply'.op = "reftomac"
  BY DEF OS_RefToMac, Reply
<1>4. StartOK'
  BY DEF OS_RefToMac, IInv, StartOK, start
<1> QED BY <1>2, <1>3, <1>4, MemoryKept, ObjectsKept, NothingLost DEF Step, IInv

LEMMA MutexStep ==
    ASSUME IInv, OS_CreateMutex
    PROVE  Step
<1>1. UNCHANGED memory /\ UNCHANGED objects /\ reply'.op = "mutex"
  BY DEF OS_CreateMutex, Reply
<1>2. StartOK'
  BY DEF OS_CreateMutex, IInv, StartOK, start
<1> QED BY <1>1, <1>2, MemoryKept, ObjectsKept, NothingLost DEF Step, IInv, ReplyTyped

LEMMA StartSteps ==
    ASSUME IInv, OS_InitProgram \/ MainReads \/ UNCHANGED vars
    PROVE  Step
<1>1. UNCHANGED memory /\ UNCHANGED objects /\ UNCHANGED reply
  BY DEF OS_InitProgram, MainReads, vars
<1>2. StartOK'
  BY InitProgramStep, MainReadsStep, StartKept DEF IInv, vars
<1> QED BY <1>1, <1>2, MemoryKept, ObjectsKept, NothingLost DEF Step, IInv, ReplyTyped

LEMMA StepKeeps ==
    ASSUME IInv, [Next]_vars
    PROVE  Step
<1>1. CASE OS_InitProgram \/ MainReads \/ UNCHANGED vars
  BY <1>1, StartSteps
<1>2. ASSUME Running, NEW h \in Hand, Memory(h) PROVE Step
  BY <1>2, MemorySteps
<1>3. CASE Running /\ Files
  BY <1>3, FileSteps
<1>4. ASSUME Running, NEW f \in LinkFile, OS_IsLink(f) \/ OS_ResolveLink(f) PROVE Step
  BY <1>4, LinkSteps
<1>5. ASSUME NEW f \in held, OS_RefToMac(f) PROVE Step
  BY <1>5, RefStep
<1>7. CASE Continue /\ UNCHANGED <<phase, start>>
  BY <1>7, ContinueSteps
<1>6. CASE OS_CreateMutex
  BY <1>6, MutexStep
<1> QED BY <1>1, <1>2, <1>3, <1>4, <1>5, <1>6, <1>7 DEF Next

LEMMA InitHolds == Init => IInv
<1> SUFFICES ASSUME Init PROVE IInv
  OBVIOUS
<1>1. StartOK
  <2>1. PICK v \in Argv : argc = Len(v) /\ argv = Append(v, NULL)
    BY DEF Init
  <2>2. v \in Seq(STRING) /\ Len(v) \in Nat
    BY ResourcesAssumption
  <2>3. v \in Seq(STRING \cup {NULL})
    BY <2>2
  <2>4. Append(v, NULL) \in Seq(STRING \cup {NULL}) /\ Len(Append(v, NULL)) = Len(v) + 1
    BY <2>3, NULL \in STRING \cup {NULL}
  <2> QED BY <2>1, <2>2, <2>4 DEF Init, StartOK
<1>2. MemoryOK
  BY DEF Init, MemoryOK, MemoryTyped, HandsOwnTheirBlocks, OSHandle, NoHandle, OS_ValidHandle
<1>3. ObjectsOK
  BY TaskFields DEF Init, ObjectsOK, ObjectsTyped, OwnersApart, Owned, NoView, NoTask, Task
<1> QED BY <1>1, <1>2, <1>3 DEF Init, IInv, ReplyTyped

-----------------------------------------------------------------------------
(***************************************************************************)
(* In every state the types are right, each valid OSHandle owns the block  *)
(* it names, and whoever has a handle has one that is open and his alone.  *)
(***************************************************************************)
THEOREM InvariantHolds == Spec => []IInv
<1>1. IInv /\ [Next]_vars => IInv'
  BY StepKeeps DEF Step
<1> QED BY InitHolds, <1>1, PTL DEF Spec

(***************************************************************************)
(* Whatever fails: a block that is allocated stays with an OSHandle until  *)
(* it is freed, unless its resizing fails, and a handle that is open stays *)
(* with who can close it, unless the seek of an OS_Open fails or the       *)
(* CloseHandle of an operation that has opened a file for itself.          *)
(***************************************************************************)
THEOREM EverythingIsOwned == Spec => ResourcesOwned
<1>1. IInv => TypeOK /\ HandsOwnTheirBlocks /\ OwnersApart
  BY IInvGivesTypes
<1>2. IInv /\ [Next]_vars =>
         [\A b \in Block :
             heap'[b] # 0 /\ ~Named(b)' /\ (heap[b] = 0 \/ Named(b)) =>
                 reply'.op = "resize" /\ reply'.failed # "none"]_vars
  BY StepKeeps DEF Step, LostByResize, Lost
<1>3. IInv /\ [Next]_vars =>
         [\A f \in open' \ Owned' :
             \/ f \in open \ Owned
             \/ f \notin open /\ reply'.op = "open" /\ reply'.failed = "SetFilePointer"
             \/ f = task.ref /\ reply'.op = task.op /\ reply'.failed = "CloseHandle"]_vars
  BY StepKeeps DEF Step, LosesTwo
<1>4. Spec => [](TypeOK /\ HandsOwnTheirBlocks /\ OwnersApart)
  BY <1>1, InvariantHolds, PTL
<1>5. Spec => BlocksLostOnlyByResize
  BY <1>2, InvariantHolds, PTL DEF Spec, BlocksLostOnlyByResize
<1>6. Spec => HandlesLostOnlyByTwo
  BY <1>3, InvariantHolds, PTL DEF Spec, HandlesLostOnlyByTwo
<1> QED BY <1>4, <1>5, <1>6 DEF ResourcesOwned

(***************************************************************************)
(* References of open files that are small enough for the assertion are    *)
(* not 0, are different, and lead back to the handle, for every width of a *)
(* reference that is even.                                                 *)
(***************************************************************************)
THEOREM ReferencesAreDistinct == Spec => []RefsDistinct
<1>1. IInv => RefsDistinct
  <2> SUFFICES ASSUME IInv, NEW f \in held, f < Word16 - 1
               PROVE  /\ RefToMac(f) # 0
                      /\ \A g \in held \ {f} : g < Word16 - 1 => RefToMac(f) # RefToMac(g)
                      /\ MacToRef(RefToMac(f)) \in {f, f - Word16}
                      /\ f < Word16 \div 2 - 1 => MacToRef(RefToMac(f)) = f
    BY DEF RefsDistinct
  <2> DEFINE half == Word16 \div 2
  <2>1. Word16 \in Nat \ {0} /\ half \in Nat \ {0} /\ Word16 = 2 * half
    BY HalfWord, ResourcesAssumption
  <2>2. \A g \in held : g \in Nat \ {0}
    BY HandleNumbers DEF IInv, ObjectsOK, ObjectsTyped
  <2>3. \A g \in held : g < Word16 - 1 =>
           RefToMac(g) = IF g + 1 < half THEN g + 1 ELSE g + 1 - Word16
    BY <2>2, RefToMacIs
  <2> HIDE DEF half
  <2>4. RefToMac(f) # 0 /\ RefToMac(f) \in Int
    BY <2>1, <2>2, <2>3
  <2>5. ASSUME NEW g \in held \ {f}, g < Word16 - 1 PROVE RefToMac(f) # RefToMac(g)
    BY <2>1, <2>2, <2>3, <2>5
  <2>6. MacToRef(RefToMac(f)) = RefToMac(f) - 1
    BY <2>4 DEF MacToRef
  <2>7. f < half - 1 => MacToRef(RefToMac(f)) = f
    BY <2>1, <2>2, <2>3, <2>6
  <2>8. MacToRef(RefToMac(f)) \in {f, f - Word16}
    BY <2>1, <2>2, <2>3, <2>6
  <2> QED BY <2>4, <2>5, <2>7, <2>8 DEF half
<1> QED BY <1>1, InvariantHolds, PTL
-----------------------------------------------------------------------------
(***************************************************************************)
(* The arguments.  Until OS_InitProgram has looked at them they are those  *)
(* that were given; then they are kept until main reads them.              *)
(***************************************************************************)
Unread == phase = "new" => given \in Argv /\ argc = Len(given) /\ argv = Append(given, NULL)
ArgsInv == Unread /\ ArgumentsKept

\* No step but the first two touches the arguments.
LEMMA OthersLeaveStart ==
    ASSUME [Next]_vars, ~OS_InitProgram, ~MainReads
    PROVE  UNCHANGED start /\ (phase' = phase \/ phase' = "stopped")
BY DEF Next, vars, Running, Returned, OS_RefToMac, OS_CreateMutex

LEMMA OptionIsTaken ==
    ASSUME Unread, OS_InitProgram
    PROVE  ArgsInv'
<1>1. phase = "new" /\ phase' = "started" /\ given' = given
  BY DEF OS_InitProgram
<1>2. PICK v, n : v = given /\ n = Len(v)
  OBVIOUS
<1>3. /\ v \in Seq(STRING) /\ n \in Nat /\ DOMAIN v = 1..n
      /\ argc = n /\ argv = Append(v, NULL)
  BY <1>1, <1>2, ResourcesAssumption DEF Unread
<1>4. /\ v \in Seq(STRING \cup {NULL}) /\ DOMAIN argv = 1..n + 1 /\ Len(argv) = n + 1
      /\ argv \in Seq(STRING \cup {NULL})
      /\ \A k \in 1..n + 1 : argv[k] = IF k = n + 1 THEN NULL ELSE v[k]
  <2>1. v \in Seq(STRING \cup {NULL}) /\ NULL \in STRING \cup {NULL}
    BY <1>3
  <2> QED BY <1>2, <1>3, <2>1
<1>5. CASE ~(argc > 1 /\ argv[2] = Option)
  <2>1. argv' = argv /\ argc' = argc /\ old_cygwin_softlinks' = FALSE
    BY <1>5 DEF OS_InitProgram
  <2>2. SubSeq(argv, 1, n) = v
    BY <1>2, <1>3, <1>4
  <2>3. Append(SubSeq(argv, 1, n), NULL) = SubSeq(argv, 1, n + 1)
    BY <1>3, <1>4, <2>2
  <2>4. ~(n > 1 /\ v[2] = Option)
    BY <1>3, <1>4, <1>5
  <2> QED BY <1>1, <1>2, <1>3, <2>1, <2>2, <2>3, <2>4 DEF ArgsInv, Unread, ArgumentsKept
<1>6. CASE argc > 1 /\ argv[2] = Option
  <2>1. argv' = MovedDown(argv, argc) /\ argc' = argc - 1 /\ old_cygwin_softlinks' = TRUE
    BY <1>6 DEF OS_InitProgram
  <2>2. PICK w, m : w = argv' /\ m = n - 1
    OBVIOUS
  <2>3. m \in Nat /\ n = m + 1 /\ m \in 1..n
    BY <1>3, <1>6, <2>2
  <2>4. w = [k \in 1..n + 1 |-> IF k \in 2..n THEN argv[k + 1] ELSE argv[k]]
    BY <1>3, <1>4, <2>1, <2>2 DEF MovedDown
  <2>5. \A k \in 1..n + 1 : w[k] = IF k = 1 THEN v[1] ELSE IF k \in 2..m THEN v[k + 1] ELSE NULL
    BY <1>3, <1>4, <2>3, <2>4
  <2>6. w \in Seq(STRING \cup {NULL}) /\ Len(w) = n + 1
    <3>1. \A k \in 1..n + 1 : w[k] \in STRING \cup {NULL}
      BY <1>3, <1>4, <2>3, <2>4
    <3> QED BY <1>3, <2>4, <3>1
  <2>7. SubSeq(w, 1, m) = SubSeq(v, 1, 1) \o SubSeq(v, 3, n)
    <3>1. /\ SubSeq(w, 1, m) = [k \in 1..m |-> w[k]]
          /\ SubSeq(w, 1, m) \in Seq(STRING \cup {NULL}) /\ Len(SubSeq(w, 1, m)) = m
      BY <2>3, <2>6
    <3>2. PICK a, b : a = SubSeq(v, 1, 1) /\ b = SubSeq(v, 3, n)
      OBVIOUS
    <3>3. a \in Seq(STRING \cup {NULL}) /\ Len(a) = 1 /\ a[1] = v[1]
      BY <1>3, <1>4, <2>3, <3>2
    <3>4. /\ b \in Seq(STRING \cup {NULL}) /\ Len(b) = m - 1
          /\ \A k \in 1..m - 1 : b[k] = v[k + 2]
      BY <1>3, <1>4, <2>3, <3>2
    <3>5. /\ a \o b \in Seq(STRING \cup {NULL}) /\ Len(a \o b) = m
          /\ \A k \in 1..m : (a \o b)[k] = IF k = 1 THEN a[1] ELSE b[k - 1]
      <4> DEFINE Args == STRING \cup {NULL}
      <4>1. a \in Seq(Args) /\ b \in Seq(Args)
        BY <3>3, <3>4
      <4> HIDE DEF Args
      <4>2. /\ a \o b \in Seq(Args) /\ Len(a \o b) = Len(a) + Len(b)
            /\ \A k \in 1..Len(a) + Len(b) :
                  (a \o b)[k] = IF k <= Len(a) THEN a[k] ELSE b[k - Len(a)]
        BY <4>1, ConcatProperties, Zenon
      <4>3. Len(a \o b) = m
        BY <2>3, <3>3, <3>4, <4>2
      <4>4. ASSUME NEW k \in 1..m PROVE (a \o b)[k] = IF k = 1 THEN a[1] ELSE b[k - 1]
        BY <2>3, <3>3, <3>4, <4>2
      <4> QED BY <4>2, <4>3, <4>4 DEF Args
    <3>6. ASSUME NEW k \in 1..m PROVE (a \o b)[k] = w[k]
      <4>1. CASE k = 1
        <5>1. 1 \in 1..n + 1 /\ 1 \in 1..m
          BY <1>3, <4>1
        <5>2. w[1] = v[1] /\ (a \o b)[1] = a[1]
          BY <2>5, <3>5, <5>1
        <5> QED BY <3>3, <4>1, <5>2
      <4>2. CASE k # 1
        <5>1. k - 1 \in 1..m - 1 /\ k \in 2..m /\ k \in 1..n + 1 /\ (k - 1) + 2 = k + 1
          BY <2>3, <4>2
        <5>2. (a \o b)[k] = b[k - 1] /\ b[k - 1] = v[(k - 1) + 2]
          BY <3>4, <3>5, <4>2, <5>1
        <5> QED BY <2>5, <4>2, <5>1, <5>2
      <4> QED BY <4>1, <4>2
    <3>7. PICK x, y : x = SubSeq(w, 1, m) /\ y = a \o b
      OBVIOUS
    <3>8. x \in Seq(STRING \cup {NULL}) /\ y \in Seq(STRING \cup {NULL}) /\ Len(x) = Len(y)
          /\ \A k \in 1..Len(x) : x[k] = y[k]
      BY <3>1, <3>5, <3>6, <3>7
    <3>9. x = y
      BY <3>8, SeqEqual
    <3> QED BY <3>2, <3>7, <3>9
  <2>8. Append(SubSeq(w, 1, m), NULL) = SubSeq(w, 1, m + 1)
    <3>1. w[m + 1] = NULL
      BY <2>3, <2>5
    <3> QED BY <2>3, <2>6, <3>1
  <2>9. n > 1 /\ v[2] = Option
    BY <1>3, <1>4, <1>6
  <2> QED BY <1>1, <1>2, <1>3, <2>1, <2>2, <2>7, <2>8, <2>9 DEF ArgsInv, Unread, ArgumentsKept
<1> QED BY <1>5, <1>6

\* Whatever main was given: OS_InitProgram notices its option exactly if it is the
\* first argument, takes it out, keeps the rest in order, and NULL is still the end.
THEOREM ArgumentsAreKept == Spec => []ArgumentsKept
<1>1. Init => ArgsInv
  BY DEF Init, ArgsInv, Unread, ArgumentsKept
<1>2. ArgsInv /\ [Next]_vars => ArgsInv'
  <2> SUFFICES ASSUME ArgsInv, [Next]_vars PROVE ArgsInv'
    OBVIOUS
  <2>1. CASE OS_InitProgram
    BY <2>1, OptionIsTaken DEF ArgsInv
  <2>2. CASE MainReads
    BY <2>2 DEF MainReads, ArgsInv, Unread, ArgumentsKept
  <2>3. CASE ~OS_InitProgram /\ ~MainReads
    <3>1. UNCHANGED start /\ (phase' = phase \/ phase' = "stopped")
      BY <2>3, OthersLeaveStart
    <3> QED BY <3>1 DEF start, ArgsInv, Unread, ArgumentsKept
  <2> QED BY <2>1, <2>2, <2>3
<1> QED BY <1>1, <1>2, PTL DEF Spec, ArgsInv

-----------------------------------------------------------------------------
(***************************************************************************)
(* Links.  The answer of OS_IsLink says how the file is a link, and that   *)
(* does not change any more once OS_InitProgram has read the option.  A    *)
(* file that is open for one of the two readers is one that is no shortcut.*)
(***************************************************************************)
SaidToBeLink(f, old) == IsShortcut(f) \/ (~f.lnk /\ old /\ CygwinSoftlinkSpec(f))

AnswerRight(r, old) == r.op = "islink" /\ r.value = TRUE => SaidToBeLink(r.arg, old)

TaskRight(t, old) ==
    /\ t.op = "islink" => ~t.arg.lnk /\ old
    /\ t.op = "islink" /\ t.used /\ t.value = TRUE => CygwinSoftlinkSpec(t.arg)
    /\ t.op = "resolve" => ~IsShortcut(t.arg)
    /\ t.op = "resolve" /\ t.used /\ t.failed = "none" /\ CygwinSoftlinkSpec(t.arg) => t.value = "target"

LinkInv ==
    /\ phase = "new" => reply.op = "none" /\ task = NoTask
    /\ AnswerRight(reply, old_cygwin_softlinks) /\ TaskRight(task, old_cygwin_softlinks)

\* What LinksResolve asks of one step.
Resolves ==
    /\ reply.op = "islink" /\ reply.value = TRUE
    /\ reply'.op = "resolve" /\ reply'.arg = reply.arg /\ reply'.failed = "none"
    => reply'.value = "target"

LEMMA LinkFields ==
    ASSUME NEW f \in LinkFile
    PROVE  f.lnk \in BOOLEAN /\ f.shortcut \in BOOLEAN /\ f.appended \in BOOLEAN
BY LinksAssumption DEF Links

LEMMA NoTaskIs == NoTask.op = "none" /\ NoTask.used = FALSE
BY DEF NoTask, Task

\* Steps that say nothing about links, and whose open file is not one.
LEMMA LinkInvKept ==
    ASSUME LinkInv, phase' # "new", UNCHANGED old_cygwin_softlinks,
           reply' = reply \/ reply'.op \notin {"islink", "resolve"},
           task' = task \/ task'.op \notin {"islink", "resolve"}
    PROVE  LinkInv'
<1>1. AnswerRight(reply', old_cygwin_softlinks)
  BY DEF LinkInv, AnswerRight
<1>2. TaskRight(task', old_cygwin_softlinks)
  BY DEF LinkInv, TaskRight
<1> QED BY <1>1, <1>2 DEF LinkInv

LEMMA KeptResolves ==
    ASSUME reply' = reply \/ reply'.op # "resolve"
    PROVE  Resolves
BY DEF Resolves

\* The file is opened for one of the two, or the answer is there at once.
LEMMA IsLinkStep ==
    ASSUME LinkInv, Running, NEW f \in LinkFile, OS_IsLink(f)
    PROVE  LinkInv' /\ Resolves
<1>1. /\ phase' # "new" /\ old_cygwin_softlinks' = old_cygwin_softlinks
      /\ AnswerRight(reply, old_cygwin_softlinks) /\ TaskRight(task, old_cygwin_softlinks)
  BY DEF Running, Returned, start, LinkInv
<1>2. CASE /\ reply' = [op |-> "islink", arg |-> f, failed |-> "none", value |-> IsShortcut(f)]
           /\ task' = task
  <2>1. AnswerRight(reply', old_cygwin_softlinks)
    BY <1>2 DEF AnswerRight, SaidToBeLink
  <2> QED BY <1>1, <1>2, <2>1 DEF LinkInv, Resolves
<1>3. CASE /\ reply' = [op |-> "islink", arg |-> f, failed |-> "CreateFile", value |-> FALSE]
           /\ task' = task
  <2>1. AnswerRight(reply', old_cygwin_softlinks)
    BY <1>3 DEF AnswerRight
  <2> QED BY <1>1, <1>3, <2>1 DEF LinkInv, Resolves
<1>4. ASSUME reply' = reply, ~f.lnk, old_cygwin_softlinks, NEW ref,
             task' = Task("islink", f, ref, FALSE, "none", FALSE)
      PROVE  LinkInv' /\ Resolves
  <2>1. TaskRight(task', old_cygwin_softlinks)
    BY <1>4 DEF TaskRight, Task
  <2> QED BY <1>1, <1>4, <2>1 DEF LinkInv, Resolves
<1> QED BY <1>2, <1>3, <1>4 DEF OS_IsLink, OpenSoftlink, Opens, NoSoftlink, Reply

LEMMA ResolveStep ==
    ASSUME LinkInv, Running, NEW f \in LinkFile, OS_ResolveLink(f)
    PROVE  LinkInv' /\ Resolves
<1>1. /\ phase' # "new" /\ old_cygwin_softlinks' = old_cygwin_softlinks
      /\ AnswerRight(reply, old_cygwin_softlinks) /\ TaskRight(task, old_cygwin_softlinks)
  BY DEF Running, Returned, start, LinkInv
<1>2. CASE /\ reply' = [op |-> "resolve", arg |-> f, failed |-> "none",
                        value |-> IF IsShortcut(f) THEN "target" ELSE "itself"]
           /\ task' = task /\ (IsShortcut(f) \/ ~old_cygwin_softlinks)
  <2>1. AnswerRight(reply', old_cygwin_softlinks)
    BY <1>2 DEF AnswerRight
  <2>2. Resolves
    BY <1>1, <1>2 DEF Resolves, AnswerRight, SaidToBeLink
  <2> QED BY <1>1, <1>2, <2>1, <2>2 DEF LinkInv
<1>3. CASE /\ reply' = [op |-> "resolve", arg |-> f, failed |-> "CreateFile", value |-> "unset"]
           /\ task' = task
  <2>1. AnswerRight(reply', old_cygwin_softlinks)
    BY <1>3 DEF AnswerRight
  <2> QED BY <1>1, <1>3, <2>1 DEF LinkInv, Resolves
<1>4. ASSUME reply' = reply, ~IsShortcut(f), NEW ref,
             task' = Task("resolve", f, ref, FALSE, "none", "unset")
      PROVE  LinkInv' /\ Resolves
  <2>1. TaskRight(task', old_cygwin_softlinks)
    BY <1>4 DEF TaskRight, Task
  <2> QED BY <1>1, <1>4, <2>1 DEF LinkInv, Resolves
<1> QED BY <1>2, <1>3, <1>4 DEF OS_ResolveLink, OpenSoftlink, Opens, NoSoftlink, Reply

\* What is read is the file that was opened.
LEMMA ReadStep ==
    ASSUME LinkInv, phase' # "new", UNCHANGED old_cygwin_softlinks, ReadCygwinSoftlinkSpec
    PROVE  LinkInv' /\ Resolves
<1>1. PICK op \in {"islink", "resolve"}, failed \in {"none", "ReadFile", "GetFileSize"},
           value \in {TRUE, FALSE, "target", "unset"} :
         /\ value \in {Softlink(op), NoSoftlink(op)} /\ Uses(op, failed, value)
         /\ value = Softlink(op) => CygwinSoftlinkSpec(task.arg)
         /\ failed = "none" /\ CygwinSoftlinkSpec(task.arg) => value = Softlink(op)
  <2>1. \A op \in {"islink", "resolve"} : Softlink(op) # NoSoftlink(op)
    BY DEF Softlink, NoSoftlink
  <2> QED BY <2>1 DEF ReadCygwinSoftlinkSpec, Softlink, NoSoftlink
<1>2. /\ reply' = reply /\ task.op = op
      /\ task' = Task(op, task.arg, task.ref, TRUE, failed, value)
      /\ TaskRight(task, old_cygwin_softlinks)
  BY <1>1 DEF Uses, LinkInv
<1>3. /\ task'.op = op /\ task'.arg = task.arg /\ task'.failed = failed /\ task'.value = value
  BY <1>2 DEF Task
<1>4. Softlink("islink") = TRUE /\ Softlink("resolve") = "target"
  BY DEF Softlink
<1>5. TaskRight(task', old_cygwin_softlinks)
  BY <1>1, <1>2, <1>3, <1>4 DEF TaskRight
<1> QED BY <1>2, <1>5 DEF LinkInv, Resolves

\* What is answered is what was found in that file.
LEMMA AnswerStep ==
    ASSUME LinkInv, phase' # "new", UNCHANGED old_cygwin_softlinks, Finish
    PROVE  LinkInv' /\ Resolves
<1>1. /\ task.used /\ task' = NoTask /\ TaskRight(task, old_cygwin_softlinks)
      /\ AnswerRight(reply, old_cygwin_softlinks)
      /\ reply'.op = task.op /\ reply'.arg = task.arg /\ reply'.value = task.value
      /\ reply'.failed \in {task.failed, "CloseHandle"}
  BY DEF Finish, Reply, LinkInv
<1>2. TaskRight(task', old_cygwin_softlinks)
  BY <1>1, NoTaskIs DEF TaskRight
<1>3. AnswerRight(reply', old_cygwin_softlinks)
  BY <1>1 DEF AnswerRight, TaskRight, SaidToBeLink
<1>4. Resolves
  BY <1>1 DEF Resolves, TaskRight, AnswerRight, SaidToBeLink
<1> QED BY <1>2, <1>3, <1>4 DEF LinkInv

\* Operations that are not about links.
LEMMA MemorySays ==
    ASSUME NEW h \in Hand, Memory(h)
    PROVE  reply'.op \notin {"islink", "resolve"} /\ task' = task
BY DEF Memory, OS_NewHandle, OS_ResizeHandle, OS_LockHandle, OS_GetHandleSize, OS_FreeHandle,
       OS_InvalidateHandle, Reply, objects

LEMMA FilesSay ==
    ASSUME Files
    PROVE  /\ reply' = reply \/ reply'.op \notin {"islink", "resolve"}
           /\ task' = task \/ task'.op \notin {"islink", "resolve"}
<1>1. ASSUME NEW append \in BOOLEAN, OS_Open(append) PROVE reply'.op = "open" /\ task' = task
  BY <1>1 DEF OS_Open, Reply
<1>2. CASE OS_GetFileTime \/ OS_SetFileTime
  BY <1>2 DEF OS_GetFileTime, OS_SetFileTime, Opens, Reply, Task
<1>3. CASE OS_UnMapFile \/ OS_LoadMacResourceFork
  BY <1>3 DEF OS_UnMapFile, OS_LoadMacResourceFork, Reply, objects
<1>4. ASSUME NEW f \in Handle, OS_Close(f) PROVE reply'.op = "close" /\ task' = task
  BY <1>4 DEF OS_Close, Reply
<1>5. ASSUME NEW readonly \in BOOLEAN, OS_MapFile(readonly) PROVE reply'.op = "map" /\ task' = task
  BY <1>5 DEF OS_MapFile, Reply
<1> QED BY <1>1, <1>2, <1>3, <1>4, <1>5 DEF Files

LEMMA LinkStep ==
    ASSUME LinkInv, [Next]_vars
    PROVE  LinkInv' /\ Resolves
<1>1. CASE UNCHANGED vars
  BY <1>1, KeptResolves DEF vars, start, objects, LinkInv
<1>2. CASE OS_InitProgram
  <2>1. reply' = reply /\ task' = task /\ reply.op = "none" /\ task = NoTask /\ phase' # "new"
    BY <1>2 DEF OS_InitProgram, objects, LinkInv
  <2>2. AnswerRight(reply', old_cygwin_softlinks') /\ TaskRight(task', old_cygwin_softlinks')
    BY <2>1, NoTaskIs DEF AnswerRight, TaskRight
  <2> QED BY <2>1, <2>2, KeptResolves DEF LinkInv
<1>3. CASE MainReads
  <2>1. reply' = reply /\ task' = task /\ phase' # "new" /\ UNCHANGED old_cygwin_softlinks
    BY <1>3 DEF MainReads, objects
  <2> QED BY <2>1, LinkInvKept, KeptResolves
<1>4. ASSUME Running, NEW h \in Hand, Memory(h) PROVE LinkInv' /\ Resolves
  <2>1. phase' # "new" /\ UNCHANGED old_cygwin_softlinks
    BY <1>4 DEF Running, Returned, start
  <2> QED BY <1>4, <2>1, MemorySays, LinkInvKept, KeptResolves
<1>5. CASE Running /\ Files
  <2>1. phase' # "new" /\ UNCHANGED old_cygwin_softlinks
    BY <1>5 DEF Running, Returned, start
  <2> QED BY <1>5, <2>1, FilesSay, LinkInvKept, KeptResolves
<1>6. ASSUME Running, NEW f \in LinkFile, OS_IsLink(f) \/ OS_ResolveLink(f)
      PROVE  LinkInv' /\ Resolves
  BY <1>6, IsLinkStep, ResolveStep
<1>7. CASE Continue /\ UNCHANGED <<phase, start>>
  <2>1. phase' = phase /\ UNCHANGED old_cygwin_softlinks
    BY <1>7 DEF start
  <2>2. ASSUME NEW op \in {"gettime", "settime", "islink", "resolve"}, NEW failed, NEW value,
               Uses(op, failed, value)
        PROVE  task # NoTask /\ reply' = reply /\ task'.op = op
    BY <2>2, NoTaskIs DEF Uses, Task
  <2>3. task # NoTask
    BY <1>7, <2>2, NoTaskIs DEF Continue, GetTime, SetTime, ReadCygwinSoftlinkSpec, Finish
  <2>4. phase' # "new"
    BY <2>1, <2>3 DEF LinkInv
  <2>5. CASE GetTime \/ SetTime
    <3>1. reply' = reply /\ task'.op \in {"gettime", "settime"}
      BY <2>2, <2>5 DEF GetTime, SetTime
    <3> QED BY <2>1, <2>4, <3>1, LinkInvKept, KeptResolves
  <2>6. CASE ReadCygwinSoftlinkSpec
    BY <2>1, <2>4, <2>6, ReadStep
  <2>7. CASE Finish
    BY <2>1, <2>4, <2>7, AnswerStep
  <2> QED BY <1>7, <2>5, <2>6, <2>7 DEF Continue
<1>8. ASSUME NEW f \in held, OS_RefToMac(f) PROVE LinkInv' /\ Resolves
  <2>1. /\ phase' # "new" /\ UNCHANGED old_cygwin_softlinks
        /\ reply'.op = "reftomac" /\ task' = task
    BY <1>8 DEF OS_RefToMac, Returned, Reply, start, objects
  <2> QED BY <2>1, LinkInvKept, KeptResolves
<1>9. CASE OS_CreateMutex
  <2>1. /\ phase' # "new" /\ UNCHANGED old_cygwin_softlinks
        /\ reply'.op = "mutex" /\ task' = task
    BY <1>9 DEF OS_CreateMutex, Returned, Reply, start, objects
  <2> QED BY <2>1, LinkInvKept, KeptResolves
<1> QED BY <1>1, <1>2, <1>3, <1>4, <1>5, <1>6, <1>7, <1>8, <1>9 DEF Next

(***************************************************************************)
(* What OS_IsLink takes for a link, OS_ResolveLink resolves next, if its   *)
(* calls succeed: for any files, whatever the lengths of what is in them.  *)
(***************************************************************************)
THEOREM LinksDoResolve == Spec => LinksResolve
<1>1. Init => LinkInv
  BY NoTaskIs DEF Init, LinkInv, AnswerRight, TaskRight
<1>2. LinkInv /\ [Next]_vars =>
         [/\ reply.op = "islink" /\ reply.value = TRUE
          /\ reply'.op = "resolve" /\ reply'.arg = reply.arg /\ reply'.failed = "none"
          => reply'.value = "target"]_vars
  BY LinkStep DEF Resolves
<1> QED BY <1>1, <1>2, LinkStep, PTL DEF Spec, LinksResolve
=============================================================================
