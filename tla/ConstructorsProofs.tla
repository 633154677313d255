------------------------- MODULE ConstructorsProofs -------------------------
(***************************************************************************)
(* For any kinds of base and member and classes of any size: when a        *)
(* function that the compiler writes itself is done, the compiler is where *)
(* it was before; what a constructor does on each of its paths; and, for   *)
(* hierarchies of any size, that what it stores into the pointers to the   *)
(* virtual bases is where an access looks for it.                          *)
(***************************************************************************)
EXTENDS Constructors, VBasePointers, Recursion, FiniteSetTheorems, FunctionTheorems, SequenceTheorems

(***************************************************************************)
(* The inductive invariant.  While a function is generated the compiler is *)
(* in it, and what it was at is known only to saved: nothing on the way    *)
(* may write that.  In a function of the user's the compiler is where the  *)
(* rest of it is.  The errors may be other ones at each step.              *)
(***************************************************************************)
Generated == ~Idle /\ func.kind # "user"

CInv ==
    /\ ~Generated => compiler = With(outer, compiler.anyerrors)
    /\ Generated => saved = With(outer, saved.anyerrors)

LEMMA CInvInit == Init => CInv
BY DEF Init, CInv, Generated, Idle, With

LEMMA CInvImplies == CInv => CompilerRestored
BY DEF CInv, CompilerRestored, Generated

\* A record of With with another answer to whether there were errors.
LEMMA OtherErrors ==
    ASSUME NEW state, NEW errors, NEW others
    PROVE  /\ [With(state, errors) EXCEPT !.anyerrors = others] = With(state, others)
           /\ With(state, errors).anyerrors = errors
BY DEF With

-----------------------------------------------------------------------------
\* A step of the translation: it may report an error and leaves the rest alone.
Works ==
    /\ ~Idle /\ ~Idle' /\ UNCHANGED <<func, saved, outer>>
    /\ \/ UNCHANGED compiler
       \/ \E bad : compiler' = [compiler EXCEPT !.anyerrors = bad]

LEMMA TransConstructorWorks == ASSUME TransConstructor PROVE Works
<1> USE DEF Works, Idle, Goto
<1>1. CASE Prologue
  BY <1>1 DEF Prologue
<1>2. CASE Guard
  BY <1>2 DEF Guard
<1>3. CASE ConstructVBase
  BY <1>3 DEF ConstructVBase, Complain
<1>4. CASE VBasesDone
  BY <1>4 DEF VBasesDone
<1>5. CASE SkipBase
  BY <1>5 DEF SkipBase
<1>6. CASE ConstructBase
  BY <1>6 DEF ConstructBase
<1>7. CASE BadBase
  BY <1>7 DEF BadBase, Stop, translation
<1>8. CASE BasesDone
  BY <1>8 DEF BasesDone
<1>9. CASE ConstructMember
  BY <1>9 DEF ConstructMember, Complain
<1>10. CASE BadMember
  BY <1>10 DEF BadMember, Stop, translation
<1>11. CASE MembersDone
  BY <1>11 DEF MembersDone
<1>12. CASE Returns
  BY <1>12 DEF Returns
<1> QED BY <1>1, <1>2, <1>3, <1>4, <1>5, <1>6, <1>7, <1>8, <1>9, <1>10, <1>11, <1>12
       DEF TransConstructor

LEMMA AssignmentWorks == ASSUME Assignment PROVE Works
<1> USE DEF Works, Idle, Goto
<1>1. CASE AssignWhole
  BY <1>1 DEF AssignWhole
<1>2. CASE AssignVirtual
  BY <1>2 DEF AssignVirtual
<1>3. CASE AssignOther
  BY <1>3 DEF AssignOther
<1>4. CASE AssignFails
  BY <1>4 DEF AssignFails, Stop, translation
<1>5. CASE AssignDone
  BY <1>5 DEF AssignDone
<1> QED BY <1>1, <1>2, <1>3, <1>4, <1>5 DEF Assignment

LEMMA DestructorWorks == ASSUME Destructor PROVE Works
BY DEF Destructor, Works, Idle, Goto

LEMMA WorksStep == ASSUME CInv, Works PROVE CInv'
<1>1. /\ UNCHANGED <<func, saved, outer>>
      /\ Generated' <=> Generated
  BY DEF Works, Generated
<1>2. CASE Generated
  BY <1>1, <1>2 DEF CInv
<1>3. CASE ~Generated
  <2>1. compiler = With(outer, compiler.anyerrors)
    BY <1>3 DEF CInv
  <2>2. CASE UNCHANGED compiler
    <3>1. compiler' = With(outer', compiler'.anyerrors)
      BY <1>1, <2>1, <2>2
    <3> QED BY <1>1, <1>3, <3>1 DEF CInv
  <2>3. CASE \E bad : compiler' = [compiler EXCEPT !.anyerrors = bad]
    <3>1. PICK bad : compiler' = [compiler EXCEPT !.anyerrors = bad]
      BY <2>3
    <3>2. compiler' = With(outer, bad)
      BY <2>1, <3>1, OtherErrors
    <3>3. compiler' = With(outer', compiler'.anyerrors)
      BY <1>1, <3>2, OtherErrors
    <3> QED BY <1>1, <1>3, <3>3 DEF CInv
  <2> QED BY <2>2, <2>3 DEF Works
<1> QED BY <1>2, <1>3

-----------------------------------------------------------------------------
LEMMA FinishConstructorStep ==
    ASSUME CInv, NEW c, NEW copy, NEW try, NEW chain, FinishConstructor(c, copy, try, chain)
    PROVE  CInv'
<1>1. /\ ~Generated /\ UNCHANGED <<compiler, saved, outer>> /\ func'.kind = "user"
  BY DEF FinishConstructor, Start, Generated
<1>2. ~Generated'
  BY <1>1 DEF Generated
<1> QED BY <1>1, <1>2 DEF CInv, With

LEMMA MakeDefaultStep ==
    ASSUME CInv, NEW c, NEW kind \in {"constructor", "copy", "assignment", "destructor"},
           MakeDefault(c, kind)
    PROVE  CInv'
<1>1. /\ Idle /\ saved' = compiler /\ UNCHANGED outer /\ func'.kind = kind
  BY DEF MakeDefault, Start
<1>2. Generated'
  <2>1. func'.kind # "user" /\ phase' # "idle"
    BY <1>1 DEF MakeDefault, Start, Goto
  <2> QED BY <2>1 DEF Generated, Idle
<1>3. saved' = With(outer', saved'.anyerrors)
  <2>1. compiler = With(outer, compiler.anyerrors)
    BY <1>1 DEF CInv, Generated
  <2> QED BY <1>1, <2>1
<1> QED BY <1>2, <1>3 DEF CInv

LEMMA BeginStep == ASSUME CInv, Begin PROVE CInv'
<1>1. PICK c \in Classes :
        \/ \E copy, try \in BOOLEAN, chain \in Chains(c) : FinishConstructor(c, copy, try, chain)
        \/ \E kind \in {"constructor", "copy", "assignment", "destructor"} : MakeDefault(c, kind)
  BY DEF Begin, MakeDefaultConstructor, MakeDefaultCopyConstructor,
         MakeDefaultAssignmentOperator, MakeDefaultDestructor
<1>2. CASE \E copy, try \in BOOLEAN, chain \in Chains(c) : FinishConstructor(c, copy, try, chain)
  BY <1>2, FinishConstructorStep
<1>3. CASE \E kind \in {"constructor", "copy", "assignment", "destructor"} : MakeDefault(c, kind)
  BY <1>3, MakeDefaultStep
<1> QED BY <1>1, <1>2, <1>3

LEMMA GenerateStep == ASSUME CInv, Generate PROVE CInv'
<1>1. ~Idle /\ Idle' /\ UNCHANGED outer
  BY DEF Generate, Idle, Goto
<1>2. compiler' = With(outer, compiler.anyerrors)
  <2>1. CASE func.kind = "user"
    BY <2>1 DEF Generate, CInv, Generated
  <2>2. CASE func.kind # "user"
    <3>1. saved = With(outer, saved.anyerrors)
      BY <1>1, <2>2 DEF CInv, Generated
    <3>2. compiler' = [saved EXCEPT !.anyerrors = compiler.anyerrors]
      BY <2>2 DEF Generate
    <3> QED BY <3>1, <3>2, OtherErrors
  <2> QED BY <2>1, <2>2
<1>3. compiler' = With(outer, compiler'.anyerrors)
  BY <1>2, OtherErrors
<1> QED BY <1>1, <1>3 DEF CInv, Generated, With

LEMMA ElsewhereStep == ASSUME CInv, NEW state, Elsewhere(state) PROVE CInv'
<1>1. Idle' /\ compiler' = With(outer', compiler.anyerrors)
  BY DEF Elsewhere, Idle
<1>2. compiler' = With(outer', compiler'.anyerrors)
  BY <1>1, OtherErrors
<1> QED BY <1>1, <1>2 DEF CInv, Generated, With

(***************************************************************************)
(* After a constructor, destructor or assignment operator that the         *)
(* compiler wrote (CABI_MakeDefault...), however the translation went, the *)
(* scope, the instances of templates and filesyminfo are those that the    *)
(* rest of the compiler had.                                               *)
(***************************************************************************)
THEOREM CompilerIsRestored == Spec => []CompilerRestored
<1>1. CInv /\ [Next]_vars => CInv'
  <2> SUFFICES ASSUME CInv, [Next]_vars PROVE CInv'
    OBVIOUS
  <2>1. CASE UNCHANGED vars
    BY <2>1 DEF vars, CInv, Generated, Idle, With
  <2> QED BY <2>1, BeginStep, TransConstructorWorks, AssignmentWorks, DestructorWorks,
             WorksStep, GenerateStep, ElsewhereStep DEF Next
<1> QED BY CInvInit, CInvImplies, <1>1, PTL DEF Spec

-----------------------------------------------------------------------------
(***************************************************************************)
(* The statements of a constructor.  Those the user has written, a head    *)
(* and a tail, are where they were; what was added between them comes in   *)
(* zones: the pointers to virtual bases and these, which a jump passes     *)
(* over; the other bases; the virtual tables, and the members.             *)
(***************************************************************************)
Nop == Stmt("NOP", <<"nothing">>)
ConstructorKinds == {"user", "constructor", "copy"}

Words == {"null", "undefined", "nothing", "ctorinit", "body", "this", "new", "noflag", "garbage",
          "vtable", "copies", "assigned", "destroyed"}
Parts == {"pointer", "vbase", "base", "member", "assigned"}
Types == {"NOP", "EXPRESSION", "BEGINCATCH", "RETURN", "IFGOTO", "LABEL"}
Labels == {"none", "allocated", "nobases"}

Expr == { <<w>> : w \in Words } \cup (Parts \X Nat)
Statement == [type : Types, expr : Expr, label : Labels]

\* How many statements the constructor has before and after what is added.
First == IF func.chain = {} THEN 1 ELSE 2
HeadLen == First + (IF cls.handle THEN 4 ELSE 0) + (IF func.try THEN 1 ELSE 0)
TailLen == IF func.kind = "user" THEN 2 ELSE 1

\* Its returns return r.
HeadRight(c, r) ==
    /\ \A k \in 1..First : c[k] = Nop
    /\ cls.handle => /\ c[First + 1] = Jump(<<"this">>, "allocated")
                     /\ c[First + 2] = Jump(<<"new">>, "allocated")
                     /\ c[First + 3] = Stmt("RETURN", r)
                     /\ c[First + 4] = Label("allocated")
    /\ func.try => c[HeadLen] = Stmt("BEGINCATCH", <<"nothing">>)

TailRight(c, m, r) ==
    /\ Len(c) = m + TailLen
    /\ func.kind = "user" => c[m + 1] = Stmt("EXPRESSION", <<"body">>)
    /\ c[m + TailLen] = Stmt("RETURN", r)

NV == Len(cls.vbases)
VStart == HeadLen + 1 + NV
VBaseStmt(v) == Stmt("EXPRESSION", <<"vbase", v>>)
VBaseMade(v) == VBaseExpr(v) # Null

OnceBetween(c, x, k, m) == \E p \in k..m : \A q \in k..m : c[q] = x <=> q = p

\* Up to m: the jump, the pointers, and the virtual bases before the j-th.
VBaseZone(c, m, j) ==
    /\ VStart <= m
    /\ c[HeadLen + 1] = Jump(<<"noflag">>, "nobases")
    /\ \A k \in 1..NV : c[HeadLen + 1 + k] = Stmt("EXPRESSION", <<"pointer", k>>)
    /\ \A k \in VStart + 1 .. m : \E v \in 1..j - 1 : VBaseMade(v) /\ c[k] = VBaseStmt(v)
    /\ \A v \in 1..j - 1 : VBaseMade(v) => OnceBetween(c, VBaseStmt(v), VStart + 1, m)

VirtualsRight(c, v) ==
    IF NV = 0 THEN v = HeadLen ELSE VBaseZone(c, v - 1, NV + 1) /\ c[v] = Label("nobases")

\* A handle class without virtual bases, not copied: each other base allocates.
Reallocates == cls.handle /\ cls.vbases = <<>> /\ ~func.copy

\* What a base that is not virtual may be constructed by: see `expr'.
NewStmt == Stmt("EXPRESSION", <<"new">>)
BaseStmts ==
    IF Reallocates THEN {NewStmt}
    ELSE { Stmt("EXPRESSION", <<"garbage">>) } \cup { VBaseStmt(v) : v \in 1..NV }

OthersBefore(j) == { k \in 1..j - 1 : ~cls.bases[k].virtual }

BaseZone(c, v, b, j) ==
    /\ v <= b
    /\ \A k \in v + 1 .. b : c[k] \in BaseStmts
    /\ (\A k \in 1..j - 1 : cls.bases[k].virtual) => b = v
    /\ Reallocates => b = v + Cardinality(OthersBefore(j))

ObjectExprs == { <<"vtable">>, <<"copies">>, <<"nothing">> } \cup ({"member"} \X Nat)

ObjectZone(c, b, m) ==
    /\ b <= m
    /\ \A k \in b + 1 .. m :
          /\ c[k].type = "EXPRESSION" /\ c[k].expr \in ObjectExprs
          /\ k # b + 1 => c[k].expr # <<"vtable">>

Value(p) == IF p = "generate" THEN <<"this">> ELSE <<"nothing">>

\* In phase p, at turn j of its loop.
Zones(p, j, c, m) ==
    /\ p = "guard" => m = HeadLen /\ NV > 0
    /\ p = "vbases" => NV > 0 /\ j \in 1..NV + 1 /\ VBaseZone(c, m, j)
    /\ p = "bases" => \E v \in Nat : VirtualsRight(c, v) /\ BaseZone(c, v, m, j)
    /\ p \in {"members", "returns", "generate"} =>
          \E v, b \in Nat : /\ VirtualsRight(c, v) /\ BaseZone(c, v, b, Len(cls.bases) + 1)
                            /\ ObjectZone(c, b, m)

\* What the exceptions were told: of what has been added up to m.
Told(c, m, r) ==
    /\ r.at \in 1..m
    /\ r.part[1] = "member" => c[r.at].type = "EXPRESSION" /\ c[r.at].expr \in {r.part, <<"nothing">>}
    /\ r.part[1] = "vbase" => NV > 0 /\ HeadLen + 1 < r.at /\ r.flag

CleanupRight(c, m, list) ==
    /\ \A k, n \in DOMAIN list : k < n => list[k].at <= list[n].at
    /\ \A k \in DOMAIN list : Told(c, m, list[k])

Whole(p, j, c, m, list) ==
    /\ HeadLen <= m
    /\ HeadRight(c, Value(p)) /\ TailRight(c, m, Value(p))
    /\ Zones(p, j, c, m) /\ CleanupRight(c, m, list)

Constructing == func.kind \in ConstructorKinds /\ phase \notin {"idle", "prologue", "stopped"}

StatementsRight == Constructing => Whole(phase, i, code, at, cleanup)

Phases == {"idle", "prologue", "guard", "vbases", "bases", "members", "returns",
           "assignment", "destructor", "generate", "stopped"}
Registered == [part : Expr, at : Nat, flag : BOOLEAN]

TypesRight ==
    /\ phase \in Phases
    /\ code \in Seq(Statement) /\ at \in 0..Len(code) /\ i \in Nat
    /\ cleanup \in Seq(Registered)
    /\ cls.vbases \in Seq(Subs) /\ cls.bases \in Seq(UNION { Bases(n) : n \in Nat })
    /\ cls.ivars \in Seq(Members) /\ cls.handle \in BOOLEAN /\ cls.vtable \in BOOLEAN
    /\ func.copy \in BOOLEAN /\ func.try \in BOOLEAN
    /\ func.kind \in ConstructorKinds \cup {"none", "assignment", "destructor"}
    /\ func.kind # "user" => func.chain = {} /\ ~func.try

Translating == {"guard", "vbases", "bases", "members", "returns"}

\* What expr holds once the virtual bases are done.
Values == {Undefined, Null, <<"garbage">>} \cup { <<"vbase", k>> : k \in 1..NV }
ExprRight(e) == ~func.copy => e \in IF Reallocates THEN {<<"new">>} ELSE Values

LocalsRight ==
    /\ phase \in Translating => func.kind \in ConstructorKinds
    /\ phase = "prologue" =>
          /\ func.kind \in ConstructorKinds /\ code = Written(func) /\ at = 1 /\ cleanup = <<>>
          /\ vbase = Undefined /\ expr = Undefined
    /\ phase = "bases" => i \in 1..Len(cls.bases) + 1
    /\ phase = "assignment" => i > 0 /\ (vbase = Undefined \/ \E k \in Nat : vbase = <<"vbase", k>>)
    /\ phase = "vbases" /\ i > 1 => expr \in Values
    /\ phase = "bases" => ExprRight(expr)
    /\ phase \in {"assignment", "destructor"} => func.kind = phase
    /\ phase = "generate" => func.kind # "none"
    /\ func.kind \in {"assignment", "destructor"} =>
          at > 0 /\ cleanup = <<>> /\ \A k \in DOMAIN code : code[k].type # "IFGOTO"

SInv == TypesRight /\ StatementsRight /\ LocalsRight

-----------------------------------------------------------------------------
LEMMA ExprTypes ==
    /\ \A w \in Words : <<w>> \in Expr
    /\ \A w \in Parts, k \in Nat : <<w, k>> \in Expr
    /\ Null \in Expr /\ Undefined \in Expr
<1>1. ASSUME NEW w \in Words PROVE <<w>> \in Expr
  BY <1>1 DEF Expr
<1>2. ASSUME NEW w \in Parts, NEW k \in Nat PROVE <<w, k>> \in Expr
  BY DEF Expr
<1>3. "null" \in Words /\ "undefined" \in Words
  BY DEF Words
<1> QED BY <1>1, <1>2, <1>3 DEF Null, Undefined

LEMMA StatementTypes ==
    /\ \A t \in Types, e \in Expr : Stmt(t, e) \in Statement
    /\ \A w \in Words, l \in Labels : Jump(<<w>>, l) \in Statement
    /\ \A l \in Labels : Label(l) \in Statement
    /\ Nop \in Statement
<1>1. <<"nothing">> \in Expr /\ \A w \in Words : <<w>> \in Expr
  <2>1. "nothing" \in Words
    BY DEF Words
  <2> QED BY <2>1, ExprTypes
<1>2. \A t \in Types, e \in Expr, l \in Labels : [type |-> t, expr |-> e, label |-> l] \in Statement
  BY DEF Statement
<1>3. "none" \in Labels /\ {"NOP", "IFGOTO", "LABEL"} \subseteq Types
  BY DEF Labels, Types
<1> QED BY <1>1, <1>2, <1>3 DEF Stmt, Jump, Label, Nop

\* Up to m two lists are the same.
SameTo(c, d, m) == \A k \in 1..m : d[k] = c[k]

\* What CFunc_InsertStatement does to a list: d is c with s behind the a-th.
Inserted(c, a, s, d) ==
    /\ Len(d) = Len(c) + Len(s) /\ SameTo(c, d, a)
    /\ \A k \in 1..Len(s) : d[a + k] = s[k]
    /\ \A k \in a + 1 .. Len(c) : d[k + Len(s)] = c[k]

LEMMA InsertedBetween ==
    ASSUME NEW T, NEW c \in Seq(T), NEW a \in 0..Len(c), NEW s \in Seq(T)
    PROVE  /\ SubSeq(c, 1, a) \o s \o SubSeq(c, a + 1, Len(c)) \in Seq(T)
           /\ Inserted(c, a, s, SubSeq(c, 1, a) \o s \o SubSeq(c, a + 1, Len(c)))
<1> DEFINE x == SubSeq(c, 1, a)
           y == SubSeq(c, a + 1, Len(c))
           d == x \o s \o y
<1>1. x \in Seq(T) /\ Len(x) = a /\ \A k \in 1..a : x[k] = c[k]
  OBVIOUS
<1>2. y \in Seq(T) /\ Len(y) = Len(c) - a /\ \A k \in 1..Len(y) : y[k] = c[a + k]
  OBVIOUS
<1> HIDE DEF x, y
<1>3. /\ x \o s \in Seq(T) /\ Len(x \o s) = a + Len(s)
      /\ \A k \in 1..a : (x \o s)[k] = c[k]
      /\ \A k \in 1..Len(s) : (x \o s)[a + k] = s[k]
  BY <1>1
<1>4. d \in Seq(T) /\ Len(d) = Len(c) + Len(s)
  <2>1. d \in Seq(T) /\ Len(d) = Len(x \o s) + Len(y)
    <3>1. x \o s \in Seq(T) /\ y \in Seq(T)
      BY <1>2, <1>3
    <3> QED BY <3>1
  <2>2. Len(c) \in Nat /\ Len(s) \in Nat /\ a \in Nat
    OBVIOUS
  <2>3. Len(d) = a + Len(s) + (Len(c) - a)
    BY <1>2, <1>3, <2>1
  <2>4. Len(d) = Len(c) + Len(s)
    BY <2>2, <2>3
  <2> QED BY <2>1, <2>4
<1>5. \A k \in 1..a + Len(s) : d[k] = (x \o s)[k]
  BY <1>2, <1>3
<1>6. \A k \in 1..Len(y) : d[a + Len(s) + k] = y[k]
  BY <1>2, <1>3
<1>7. ASSUME NEW k \in a + 1 .. Len(c) PROVE d[k + Len(s)] = c[k]
  <2>1. k - a \in 1..Len(y) /\ a + Len(s) + (k - a) = k + Len(s) /\ a + (k - a) = k
    BY <1>2
  <2> QED BY <1>2, <1>6, <2>1
<1>8. \A k \in 1..a : d[k] = c[k]
  BY <1>3, <1>5
<1>9. \A k \in 1..Len(s) : d[a + k] = s[k]
  BY <1>3, <1>5
<1> QED BY <1>4, <1>7, <1>8, <1>9 DEF Inserted, SameTo, x, y

LEMMA InsertStep ==
    ASSUME code \in Seq(Statement), at \in 0..Len(code), NEW s \in Seq(Statement), Insert(s)
    PROVE  /\ code' \in Seq(Statement) /\ at' = at + Len(s) /\ at' \in 0..Len(code')
           /\ Inserted(code, at, s, code')
<1>1. code' \in Seq(Statement) /\ Inserted(code, at, s, code')
  BY InsertedBetween DEF Insert
<1>2. at' = at + Len(s) /\ Len(code') = Len(code) + Len(s)
  BY <1>1 DEF Insert, Inserted
<1>3. Len(code) \in Nat /\ Len(s) \in Nat
  OBVIOUS
<1> QED BY <1>1, <1>2, <1>3

-----------------------------------------------------------------------------
LEMMA Numbers ==
    ASSUME TypesRight
    PROVE  /\ First \in 1..2 /\ HeadLen \in Nat /\ First <= HeadLen
           /\ TailLen \in 1..2 /\ NV \in Nat /\ VStart \in Nat /\ VStart = HeadLen + 1 + NV
           /\ cls.handle => First + 4 <= HeadLen
           /\ func.try => First + 1 <= HeadLen
           /\ Len(code) \in Nat /\ at \in Nat /\ at <= Len(code)
<1>1. First \in 1..2 /\ TailLen \in 1..2
  BY DEF First, TailLen
<1>2. PICK a, b : /\ a = (IF cls.handle THEN 4 ELSE 0) /\ b = (IF func.try THEN 1 ELSE 0)
  OBVIOUS
<1>3. a \in {0, 4} /\ b \in {0, 1} /\ (cls.handle => a = 4) /\ (func.try => b = 1)
  BY <1>2
<1>4. HeadLen = First + a + b
  BY <1>2 DEF HeadLen
<1>5. HeadLen \in Nat /\ First <= HeadLen /\ (cls.handle => First + 4 <= HeadLen)
      /\ (func.try => First + 1 <= HeadLen)
  BY <1>1, <1>3, <1>4
<1>6. cls.vbases \in Seq(Subs) /\ code \in Seq(Statement) /\ at \in 0..Len(code)
  BY DEF TypesRight
<1>7. NV \in Nat /\ Len(code) \in Nat /\ at \in Nat /\ at <= Len(code)
  BY <1>6 DEF NV
<1>8. VStart \in Nat /\ VStart = HeadLen + 1 + NV
  BY <1>5, <1>7 DEF VStart
<1> QED BY <1>1, <1>5, <1>7, <1>8

\* What is said of a list up to m holds of one that is the same up to m.
LEMMA HeadKept ==
    ASSUME TypesRight, NEW c, NEW d, NEW r, NEW m \in Nat, HeadLen <= m, SameTo(c, d, m), HeadRight(c, r)
    PROVE  HeadRight(d, r)
<1>1. /\ First \in 1..2 /\ HeadLen \in Nat /\ First <= HeadLen
      /\ cls.handle => First + 4 <= HeadLen
      /\ func.try => First + 1 <= HeadLen
  BY Numbers
<1>2. \A k \in 1..HeadLen : d[k] = c[k]
  BY <1>1 DEF SameTo
<1>3. \A k \in 1..First : d[k] = Nop
  BY <1>1, <1>2 DEF HeadRight
<1>4. ASSUME cls.handle PROVE \A k \in 1..4 : d[First + k] = c[First + k]
  BY <1>1, <1>2, <1>4
<1>5. func.try => d[HeadLen] = c[HeadLen]
  BY <1>1, <1>2
<1> QED BY <1>3, <1>4, <1>5 DEF HeadRight

LEMMA TailKept ==
    ASSUME TypesRight, NEW c, NEW d, NEW s, NEW a \in Nat, NEW r, Len(s) \in Nat,
           Inserted(c, a, s, d), TailRight(c, a, r)
    PROVE  TailRight(d, a + Len(s), r)
<1>1. TailLen \in 1..2 /\ (func.kind = "user" => TailLen = 2)
  BY Numbers DEF TailLen
<1>2. PICK n : n = Len(s)
  OBVIOUS
<1>3. \A k \in a + 1 .. a + TailLen : d[k + n] = c[k]
  BY <1>1, <1>2 DEF Inserted, TailRight
<1>4. Len(d) = a + n + TailLen
  BY <1>1, <1>2 DEF Inserted, TailRight
<1>5. d[a + n + TailLen] = c[a + TailLen]
  <2>1. a + TailLen \in a + 1 .. a + TailLen /\ a + TailLen + n = a + n + TailLen
    BY <1>1, <1>2
  <2> QED BY <1>3, <2>1
<1>6. func.kind = "user" => d[a + n + 1] = c[a + 1]
  <2>1. a + 1 \in a + 1 .. a + TailLen /\ a + 1 + n = a + n + 1
    BY <1>1, <1>2
  <2> QED BY <1>3, <2>1
<1> QED BY <1>2, <1>4, <1>5, <1>6 DEF TailRight

LEMMA VBaseZoneBehindHead ==
    ASSUME TypesRight, NEW c, NEW d, NEW j, NEW m \in Nat, NEW n \in Nat, m <= n,
           \A k \in HeadLen + 1 .. n : d[k] = c[k], VBaseZone(c, m, j)
    PROVE  VBaseZone(d, m, j)
<1>1. HeadLen \in Nat /\ NV \in Nat /\ VStart = HeadLen + 1 + NV /\ VStart <= m
  BY Numbers DEF VBaseZone
<1>2. \A k \in HeadLen + 1 .. m : d[k] = c[k]
  BY <1>1
<1>3. d[HeadLen + 1] = c[HeadLen + 1] /\ \A k \in 1..NV : d[HeadLen + 1 + k] = c[HeadLen + 1 + k]
  BY <1>1, <1>2
<1>4. \A k \in VStart + 1 .. m : d[k] = c[k]
  BY <1>1, <1>2
<1>5. ASSUME NEW x, OnceBetween(c, x, VStart + 1, m) PROVE OnceBetween(d, x, VStart + 1, m)
  BY <1>4, <1>5 DEF OnceBetween
<1> QED BY <1>3, <1>4, <1>5 DEF VBaseZone

LEMMA VBaseZoneKept ==
    ASSUME TypesRight, NEW c, NEW d, NEW j, NEW m \in Nat, NEW n \in Nat, m <= n,
           SameTo(c, d, n), VBaseZone(c, m, j)
    PROVE  VBaseZone(d, m, j)
<1>1. \A k \in HeadLen + 1 .. n : d[k] = c[k]
  BY Numbers DEF SameTo
<1> QED BY <1>1, VBaseZoneBehindHead

LEMMA VirtualsBehindHead ==
    ASSUME TypesRight, NEW c, NEW d, NEW v \in Nat, NEW n \in Nat, v <= n,
           \A k \in HeadLen + 1 .. n : d[k] = c[k], VirtualsRight(c, v)
    PROVE  VirtualsRight(d, v)
<1>1. CASE NV = 0
  BY <1>1 DEF VirtualsRight
<1>2. CASE NV # 0
  <2>1. VBaseZone(c, v - 1, NV + 1) /\ c[v] = Label("nobases")
    BY <1>2 DEF VirtualsRight
  <2>2. VStart \in Nat /\ VStart > 0 /\ VStart <= v - 1
    BY <2>1, Numbers DEF VBaseZone
  <2>3. v - 1 \in Nat /\ v - 1 <= n /\ v \in HeadLen + 1 .. n
    BY <2>2, Numbers
  <2>4. d[v] = c[v]
    BY <2>3
  <2> QED BY <1>2, <2>1, <2>3, <2>4, VBaseZoneBehindHead DEF VirtualsRight
<1> QED BY <1>1, <1>2

LEMMA VirtualsKept ==
    ASSUME TypesRight, NEW c, NEW d, NEW v \in Nat, NEW n \in Nat, v <= n,
           SameTo(c, d, n), VirtualsRight(c, v)
    PROVE  VirtualsRight(d, v)
<1>1. \A k \in HeadLen + 1 .. n : d[k] = c[k]
  BY Numbers DEF SameTo
<1> QED BY <1>1, VirtualsBehindHead

LEMMA BaseZoneKept ==
    ASSUME NEW c, NEW d, NEW v \in Nat, NEW b \in Nat, NEW j, NEW n \in Nat, b <= n,
           SameTo(c, d, n), BaseZone(c, v, b, j)
    PROVE  BaseZone(d, v, b, j)
<1>1. \A k \in v + 1 .. b : d[k] = c[k]
  BY DEF SameTo
<1> QED BY <1>1 DEF BaseZone

LEMMA ObjectZoneKept ==
    ASSUME NEW c, NEW d, NEW b \in Nat, NEW m \in Nat, NEW n \in Nat, m <= n,
           SameTo(c, d, n), ObjectZone(c, b, m)
    PROVE  ObjectZone(d, b, m)
<1>1. \A k \in b + 1 .. m : d[k] = c[k]
  BY DEF SameTo
<1> QED BY <1>1 DEF ObjectZone

LEMMA CleanupKept ==
    ASSUME NEW c, NEW d, NEW m \in Nat, NEW n \in Nat, m <= n, NEW list,
           SameTo(c, d, m), CleanupRight(c, m, list)
    PROVE  CleanupRight(d, n, list)
<1>1. ASSUME NEW r, Told(c, m, r) PROVE Told(d, n, r)
  <2>1. r.at \in 1..m /\ r.at \in 1..n
    BY <1>1 DEF Told
  <2>2. d[r.at] = c[r.at]
    BY <2>1 DEF SameTo
  <2> QED BY <1>1, <2>1, <2>2 DEF Told
<1> QED BY <1>1 DEF CleanupRight

\* One more is told.
LEMMA CleanupAppended ==
    ASSUME NEW c, NEW m \in Nat, NEW T, NEW list \in Seq(T), NEW r \in T, r.at = m,
           CleanupRight(c, m, list), Told(c, m, r)
    PROVE  CleanupRight(c, m, Append(list, r))
<1> DEFINE new == Append(list, r)
<1>1. /\ DOMAIN new = 1..Len(list) + 1 /\ DOMAIN list = 1..Len(list) /\ Len(list) \in Nat
      /\ \A k \in 1..Len(list) : new[k] = list[k]
      /\ new[Len(list) + 1] = r
  OBVIOUS
<1> HIDE DEF new
<1>2. \A k \in DOMAIN new : k \in DOMAIN list \/ k = Len(list) + 1
  BY <1>1
<1>3. \A k \in DOMAIN new : Told(c, m, new[k])
  BY <1>1, <1>2 DEF CleanupRight
<1>4. ASSUME NEW k \in DOMAIN new, NEW n \in DOMAIN new, k < n PROVE new[k].at <= new[n].at
  <2>1. k \in DOMAIN list
    BY <1>1, <1>4
  <2>2. CASE n \in DOMAIN list
    BY <1>1, <1>4, <2>1, <2>2 DEF CleanupRight
  <2>3. CASE n = Len(list) + 1
    <3>1. new[n].at = m /\ new[k] = list[k] /\ Told(c, m, list[k])
      BY <1>1, <2>1, <2>3 DEF CleanupRight
    <3> QED BY <3>1 DEF Told
  <2> QED BY <1>2, <2>2, <2>3
<1> QED BY <1>3, <1>4 DEF CleanupRight, new

-----------------------------------------------------------------------------
(***************************************************************************)
(* The steps of the translation.                                           *)
(***************************************************************************)
\* What a step has to show of the list that it leaves.
LEMMA WholeReached ==
    ASSUME UNCHANGED <<cls, func>>, NEW p, NEW j, NEW d, NEW m, NEW list,
           p = phase', j = i', d = code', m = at', list = cleanup', Whole(p, j, d, m, list)
    PROVE  StatementsRight'
<1>1. /\ First' = First /\ HeadLen' = HeadLen /\ TailLen' = TailLen /\ NV' = NV /\ VStart' = VStart
      /\ BaseStmts' = BaseStmts /\ Reallocates' = Reallocates
  BY DEF HeadLen, First, TailLen, NV, VStart, BaseStmts, Reallocates
<1>2. ASSUME NEW v PROVE VBaseMade(v)' = VBaseMade(v)
  BY DEF VBaseMade, VBaseExpr
<1>3. ASSUME NEW r, HeadRight(d, r) PROVE HeadRight(d, r)'
  BY <1>1, <1>3 DEF HeadRight
<1>4. ASSUME NEW r, TailRight(d, m, r) PROVE TailRight(d, m, r)'
  BY <1>1, <1>4 DEF TailRight
<1>5. ASSUME NEW n, NEW k, VBaseZone(d, n, k) PROVE VBaseZone(d, n, k)'
  BY <1>1, <1>2, <1>5 DEF VBaseZone
<1>6. ASSUME NEW v, VirtualsRight(d, v) PROVE VirtualsRight(d, v)'
  BY <1>1, <1>5, <1>6 DEF VirtualsRight
<1>7. ASSUME NEW v, NEW b, NEW k, BaseZone(d, v, b, k) PROVE BaseZone(d, v, b, k)'
  BY <1>1, <1>7 DEF BaseZone, OthersBefore
<1>8. ASSUME CleanupRight(d, m, list) PROVE CleanupRight(d, m, list)'
  <2>1. ASSUME NEW r, Told(d, m, r) PROVE Told(d, m, r)'
    BY <1>1, <2>1 DEF Told
  <2> QED BY <1>8, <2>1 DEF CleanupRight
<1>9. ASSUME Zones(p, j, d, m) PROVE Zones(p, j, d, m)'
  <2>1. (p = "guard" => m = HeadLen /\ NV > 0)'
    BY <1>1, <1>9 DEF Zones
  <2>2. (p = "vbases" => NV > 0 /\ j \in 1..NV + 1 /\ VBaseZone(d, m, j))'
    BY <1>1, <1>5, <1>9 DEF Zones
  <2>3. (p = "bases" => \E v \in Nat : VirtualsRight(d, v) /\ BaseZone(d, v, m, j))'
    BY <1>6, <1>7, <1>9 DEF Zones
  <2>4. (p \in {"members", "returns", "generate"} =>
          \E v, b \in Nat : /\ VirtualsRight(d, v) /\ BaseZone(d, v, b, Len(cls.bases) + 1)
                            /\ ObjectZone(d, b, m))'
    <3> SUFFICES ASSUME p \in {"members", "returns", "generate"}
                 PROVE  \E v, b \in Nat : /\ VirtualsRight(d, v)'
                                          /\ BaseZone(d, v, b, Len(cls.bases) + 1)'
                                          /\ ObjectZone(d, b, m)
      OBVIOUS
    <3>1. PICK v \in Nat, b \in Nat : /\ VirtualsRight(d, v) /\ BaseZone(d, v, b, Len(cls.bases) + 1)
                                      /\ ObjectZone(d, b, m)
      BY <1>9 DEF Zones
    <3>2. VirtualsRight(d, v)' /\ BaseZone(d, v, b, Len(cls.bases) + 1)'
      BY <1>1, <1>6, <3>1 DEF BaseZone, OthersBefore
    <3> QED BY <3>1, <3>2
  <2> QED BY <2>1, <2>2, <2>3, <2>4 DEF Zones
<1>10. Whole(p, j, d, m, list)'
  BY <1>1, <1>3, <1>4, <1>8, <1>9 DEF Whole
<1> QED BY <1>10 DEF StatementsRight

LEMMA TypesReached ==
    ASSUME TypesRight, UNCHANGED <<cls, func>>, phase' \in Phases, i' \in Nat,
           code' \in Seq(Statement), at' \in 0..Len(code'), cleanup' \in Seq(Registered)
    PROVE  TypesRight'
BY DEF TypesRight

Added(s, d, m, r) ==
    /\ d \in Seq(Statement) /\ m \in 0..Len(d) /\ m \in Nat /\ m = at + Len(s)
    /\ HeadLen <= m /\ HeadRight(d, r) /\ TailRight(d, m, r)
    /\ SameTo(code, d, at) /\ \A k \in 1..Len(s) : d[at + k] = s[k]
    /\ CleanupRight(d, m, cleanup)

LEMMA InsertAdds ==
    ASSUME TypesRight, NEW s \in Seq(Statement), Insert(s), NEW r,
           HeadLen <= at, HeadRight(code, r), TailRight(code, at, r), CleanupRight(code, at, cleanup)
    PROVE  \E d, m : d = code' /\ m = at' /\ Added(s, d, m, r)
<1>1. code \in Seq(Statement) /\ at \in 0..Len(code) /\ at \in Nat /\ Len(s) \in Nat /\ HeadLen \in Nat
  BY Numbers DEF TypesRight
<1>2. PICK d, m : d = code' /\ m = at'
  OBVIOUS
<1>3. d \in Seq(Statement) /\ m = at + Len(s) /\ m \in 0..Len(d) /\ Inserted(code, at, s, d)
  BY <1>1, <1>2, InsertStep
<1>4. m \in Nat /\ HeadLen <= m /\ at <= m
  BY <1>1, <1>3
<1>5. SameTo(code, d, at) /\ \A k \in 1..Len(s) : d[at + k] = s[k]
  BY <1>3 DEF Inserted
<1>6. HeadRight(d, r)
  BY <1>1, <1>5, HeadKept
<1>7. TailRight(d, m, r)
  BY <1>1, <1>3, TailKept
<1>8. CleanupRight(d, m, cleanup)
  BY <1>1, <1>4, <1>5, CleanupKept
<1> QED BY <1>2, <1>3, <1>4, <1>5, <1>6, <1>7, <1>8 DEF Added

LEMMA Expressions ==
    ASSUME NEW e \in Expr
    PROVE  /\ Expression(e) \in Seq(Statement)
           /\ e = Null => Expression(e) = <<>> /\ Len(Expression(e)) = 0
           /\ e # Null => Len(Expression(e)) = 1 /\ Expression(e)[1] = Stmt("EXPRESSION", e)
<1>1. Stmt("EXPRESSION", e) \in Statement
  BY StatementTypes DEF Types
<1> HIDE DEF Null
<1> QED BY <1>1 DEF Expression

LEMMA TranslatingWhole ==
    ASSUME SInv, phase \in Translating
    PROVE  /\ func.kind \in ConstructorKinds /\ Whole(phase, i, code, at, cleanup)
           /\ HeadLen <= at /\ HeadRight(code, <<"nothing">>) /\ TailRight(code, at, <<"nothing">>)
           /\ CleanupRight(code, at, cleanup) /\ Zones(phase, i, code, at)
<1>1. func.kind \in ConstructorKinds
  BY DEF SInv, LocalsRight
<1>2. phase \notin {"idle", "prologue", "stopped", "generate"}
  BY DEF Translating
<1>3. Whole(phase, i, code, at, cleanup) /\ Value(phase) = <<"nothing">>
  BY <1>1, <1>2 DEF SInv, StatementsRight, Constructing, Value
<1> QED BY <1>1, <1>3 DEF Whole

LEMMA GuardStep == ASSUME SInv, Guard PROVE SInv'
<1> DEFINE pointers == [k \in DOMAIN cls.vbases |-> Stmt("EXPRESSION", <<"pointer", k>>)]
           jump == Jump(<<"noflag">>, "nobases")
           s == <<jump>> \o pointers
<1>1. /\ phase = "guard" /\ Insert(s) /\ phase' = "vbases" /\ i' = 1
      /\ UNCHANGED <<cls, func, vbase, cleanup>>
  BY DEF Guard, Goto
<1>2. TypesRight /\ phase \in Translating
  BY <1>1 DEF SInv, Translating
<1>3. /\ HeadLen <= at /\ HeadRight(code, <<"nothing">>) /\ TailRight(code, at, <<"nothing">>)
      /\ CleanupRight(code, at, cleanup) /\ at = HeadLen /\ NV > 0 /\ func.kind \in ConstructorKinds
  BY <1>1, <1>2, TranslatingWhole DEF Zones
<1>4. /\ s \in Seq(Statement) /\ Len(s) = 1 + NV /\ s[1] = jump
      /\ \A k \in 1..NV : s[1 + k] = Stmt("EXPRESSION", <<"pointer", k>>)
  <2>1. jump \in Statement
    BY StatementTypes DEF Words, Labels
  <2>2. DOMAIN cls.vbases = 1..NV /\ NV \in Nat
    BY <1>2, Numbers DEF TypesRight, NV
  <2>3. \A k \in 1..NV : Stmt("EXPRESSION", <<"pointer", k>>) \in Statement
    <3> TAKE k \in 1..NV
    <3>1. k \in Nat /\ "pointer" \in Parts /\ "EXPRESSION" \in Types
      BY <2>2 DEF Parts, Types
    <3> QED BY <3>1, StatementTypes, ExprTypes
  <2>4. pointers \in Seq(Statement) /\ Len(pointers) = NV
        /\ \A k \in 1..NV : pointers[k] = Stmt("EXPRESSION", <<"pointer", k>>)
    BY <2>2, <2>3
  <2> HIDE DEF pointers, jump
  <2>5. <<jump>> \in Seq(Statement) /\ Len(<<jump>>) = 1 /\ <<jump>>[1] = jump
    BY <2>1
  <2>6. /\ s \in Seq(Statement) /\ Len(s) = 1 + NV /\ s[1] = jump
        /\ \A k \in 1..NV : s[1 + k] = pointers[k]
    BY <2>2, <2>4, <2>5
  <2> QED BY <2>4, <2>6
<1> HIDE DEF s
<1>5. PICK d, m : d = code' /\ m = at' /\ Added(s, d, m, <<"nothing">>)
  BY <1>1, <1>2, <1>3, <1>4, InsertAdds
<1>6. VBaseZone(d, m, 1)
  <2>1. HeadLen \in Nat /\ NV \in Nat /\ VStart = HeadLen + 1 + NV /\ m = VStart /\ m \in Nat
    BY <1>2, <1>3, <1>4, <1>5, Numbers DEF Added
  <2>2. d[HeadLen + 1] = jump
    BY <1>3, <1>4, <1>5, <2>1 DEF Added
  <2>3. ASSUME NEW k \in 1..NV PROVE d[HeadLen + 1 + k] = Stmt("EXPRESSION", <<"pointer", k>>)
    <3>1. 1 + k \in 1..Len(s) /\ HeadLen + (1 + k) = HeadLen + 1 + k
      BY <1>4, <2>1
    <3>2. d[HeadLen + (1 + k)] = s[1 + k]
      BY <1>3, <1>5, <3>1 DEF Added
    <3> QED BY <1>4, <3>1, <3>2
  <2>4. VStart + 1 .. m = {} /\ 1..1 - 1 = {}
    BY <2>1
  <2> QED BY <2>1, <2>2, <2>3, <2>4 DEF VBaseZone
<1>7. Whole("vbases", 1, d, m, cleanup)
  <2>1. NV \in Nat
    BY <1>2, Numbers
  <2>2. Zones("vbases", 1, d, m)
    BY <1>3, <1>6, <2>1 DEF Zones
  <2> QED BY <1>5, <2>2 DEF Added, Whole, Value
<1>8. StatementsRight'
  BY <1>1, <1>5, <1>7, WholeReached
<1>9. TypesRight'
  BY <1>1, <1>2, <1>5, TypesReached DEF Added, Phases, TypesRight
<1>10. LocalsRight'
  <2>1. phase' = "vbases" /\ i' = 1
    BY <1>1
  <2>2. func'.kind \in ConstructorKinds /\ func'.kind \notin {"assignment", "destructor", "none"}
    BY <1>1, <1>3 DEF ConstructorKinds
  <2> HIDE DEF Null, Undefined
  <2> QED BY <2>1, <2>2 DEF LocalsRight, Translating
<1> QED BY <1>8, <1>9, <1>10 DEF SInv

LEMMA ConstructVBaseStep == ASSUME SInv, ConstructVBase PROVE SInv'
<1> DEFINE e == VBaseExpr(i)
           s == Expression(e)
<1>1. /\ phase = "vbases" /\ i <= Len(cls.vbases) /\ expr' = e /\ Insert(s)
      /\ phase' = "vbases" /\ i' = i + 1 /\ UNCHANGED <<cls, func, vbase>>
      /\ Register(cls.vbases[i].dtor, <<"vbase", i>>, TRUE)
  BY DEF ConstructVBase, Goto
<1>2. TypesRight /\ phase \in Translating
  BY <1>1 DEF SInv, Translating
<1>3. /\ HeadLen <= at /\ HeadRight(code, <<"nothing">>) /\ TailRight(code, at, <<"nothing">>)
      /\ CleanupRight(code, at, cleanup) /\ func.kind \in ConstructorKinds
      /\ NV > 0 /\ VBaseZone(code, at, i) /\ i \in 1..NV + 1
  BY <1>1, <1>2, TranslatingWhole DEF Zones
<1>4. /\ NV \in Nat /\ i \in 1..NV /\ HeadLen \in Nat /\ VStart = HeadLen + 1 + NV /\ VStart <= at
      /\ at \in Nat /\ i \in Nat
  BY <1>1, <1>2, <1>3, Numbers DEF NV, VBaseZone
<1>5. /\ (VBaseMade(i) <=> e # Null) /\ (VBaseMade(i) => e = <<"vbase", i>>)
  BY DEF VBaseMade, VBaseExpr
<1>6. e \in Expr /\ e \in {Null} \cup { <<"vbase", k>> : k \in 1..NV }
  <2>1. e = Null \/ e = <<"vbase", i>>
    BY DEF VBaseExpr
  <2>2. <<"vbase", i>> \in Expr /\ Null \in Expr
    BY <1>4, ExprTypes DEF Parts
  <2> QED BY <1>4, <2>1, <2>2
<1> HIDE DEF e
<1>7. /\ s \in Seq(Statement)
      /\ e = Null => s = <<>> /\ Len(s) = 0
      /\ e # Null => Len(s) = 1 /\ s[1] = Stmt("EXPRESSION", e)
  BY <1>6, Expressions
<1> HIDE DEF s
<1>8. PICK d, m : d = code' /\ m = at' /\ Added(s, d, m, <<"nothing">>)
  BY <1>1, <1>2, <1>3, <1>7, InsertAdds
<1>9. m \in Nat /\ at <= m /\ SameTo(code, d, at) /\ VBaseZone(d, at, i)
  <2>1. m \in Nat /\ SameTo(code, d, at) /\ m = at + Len(s) /\ Len(s) \in Nat
    BY <1>7, <1>8 DEF Added
  <2> QED BY <1>2, <1>3, <1>4, <2>1, VBaseZoneKept
<1>10. ASSUME NEW j, j = i + 1 PROVE VBaseZone(d, m, j)
  <2>0. /\ d[HeadLen + 1] = Jump(<<"noflag">>, "nobases")
        /\ \A k \in 1..NV : d[HeadLen + 1 + k] = Stmt("EXPRESSION", <<"pointer", k>>)
    BY <1>9 DEF VBaseZone
  <2>1. /\ \A k \in VStart + 1 .. at : \E v \in 1..i - 1 : VBaseMade(v) /\ d[k] = VBaseStmt(v)
        /\ \A v \in 1..i - 1 : VBaseMade(v) => OnceBetween(d, VBaseStmt(v), VStart + 1, at)
    BY <1>9 DEF VBaseZone
  <2>2. CASE ~VBaseMade(i)
    <3>1. m = at
      BY <1>4, <1>5, <1>7, <1>8, <2>2 DEF Added
    <3>2. \A v \in 1..j - 1 : VBaseMade(v) => v \in 1..i - 1
      BY <1>4, <1>10, <2>2
    <3>3. \A v \in 1..i - 1 : v \in 1..j - 1
      BY <1>4, <1>10
    <3>4. \A k \in VStart + 1 .. m : \E v \in 1..j - 1 : VBaseMade(v) /\ d[k] = VBaseStmt(v)
      BY <2>1, <3>1, <3>3
    <3>5. \A v \in 1..j - 1 : VBaseMade(v) => OnceBetween(d, VBaseStmt(v), VStart + 1, m)
      <4> SUFFICES ASSUME NEW v \in 1..j - 1, VBaseMade(v)
                   PROVE  OnceBetween(d, VBaseStmt(v), VStart + 1, m)
        OBVIOUS
      <4>1. v \in 1..i - 1
        BY <3>2
      <4>2. OnceBetween(d, VBaseStmt(v), VStart + 1, at)
        BY <1>9, <4>1 DEF VBaseZone
      <4> QED BY <3>1, <4>2
    <3>6. VStart <= m
      BY <1>4, <3>1
    <3> QED BY <2>0, <3>4, <3>5, <3>6 DEF VBaseZone
  <2>3. CASE VBaseMade(i)
    <3>1. m = at + 1 /\ d[m] = VBaseStmt(i)
      <4>1. Len(s) = 1 /\ s[1] = VBaseStmt(i)
        BY <1>5, <1>7, <2>3 DEF VBaseStmt
      <4>2. m = at + 1 /\ d[at + 1] = s[1]
        BY <1>4, <1>8, <4>1 DEF Added
      <4> QED BY <4>1, <4>2
    <3>2. ASSUME NEW k \in VStart + 1 .. m
          PROVE  \E v \in 1..j - 1 : VBaseMade(v) /\ d[k] = VBaseStmt(v)
      <4>1. CASE k = m
        BY <1>4, <1>10, <2>3, <3>1, <4>1
      <4>2. CASE k # m
        <5>1. k \in VStart + 1 .. at
          BY <1>4, <3>1, <4>2
        <5>2. PICK v \in 1..i - 1 : VBaseMade(v) /\ d[k] = VBaseStmt(v)
          BY <1>9, <5>1 DEF VBaseZone
        <5>3. v \in 1..j - 1
          BY <1>4, <1>10
        <5> QED BY <5>2, <5>3
      <4> QED BY <4>1, <4>2
    <3>3. ASSUME NEW v, NEW w, v # w PROVE VBaseStmt(v) # VBaseStmt(w)
      <4>1. VBaseStmt(v).expr = <<"vbase", v>> /\ VBaseStmt(w).expr = <<"vbase", w>>
        BY DEF VBaseStmt, Stmt
      <4>2. <<"vbase", v>>[2] = v /\ <<"vbase", w>>[2] = w
        OBVIOUS
      <4> QED BY <3>3, <4>1, <4>2
    <3>4. \A k \in VStart + 1 .. at : d[k] # VBaseStmt(i)
      <4> TAKE k \in VStart + 1 .. at
      <4>1. PICK v \in 1..i - 1 : d[k] = VBaseStmt(v)
        BY <1>9 DEF VBaseZone
      <4>2. v # i
        BY <1>4
      <4> QED BY <3>3, <4>1, <4>2
    <3>5. ASSUME NEW v \in 1..j - 1, VBaseMade(v)
          PROVE  OnceBetween(d, VBaseStmt(v), VStart + 1, m)
      <4>0. \A k \in VStart + 1 .. m : k = m \/ k \in VStart + 1 .. at
        BY <1>4, <3>1
      <4>00. m \in VStart + 1 .. m /\ \A k \in VStart + 1 .. at : k \in VStart + 1 .. m /\ k # m
        BY <1>4, <3>1
      <4>1. CASE v = i
        <5>1. \A k \in VStart + 1 .. m : d[k] = VBaseStmt(v) <=> k = m
          BY <3>1, <3>4, <4>0, <4>00, <4>1
        <5> QED BY <4>00, <5>1 DEF OnceBetween
      <4>2. CASE v # i
        <5>1. v \in 1..i - 1
          BY <1>4, <1>10, <4>2
        <5>2. OnceBetween(d, VBaseStmt(v), VStart + 1, at)
          BY <1>9, <3>5, <5>1 DEF VBaseZone
        <5>3. PICK p \in VStart + 1 .. at : \A q \in VStart + 1 .. at : d[q] = VBaseStmt(v) <=> q = p
          BY <5>2 DEF OnceBetween
        <5>4. d[m] # VBaseStmt(v)
          BY <3>1, <3>3, <4>2
        <5>5. p \in VStart + 1 .. m /\ \A q \in VStart + 1 .. m : d[q] = VBaseStmt(v) <=> q = p
          BY <4>0, <4>00, <5>3, <5>4
        <5> QED BY <5>5 DEF OnceBetween
      <4> QED BY <4>1, <4>2
    <3>6. VStart <= m
      BY <1>4, <3>1
    <3> QED BY <2>0, <3>2, <3>5, <3>6 DEF VBaseZone
  <2> QED BY <2>2, <2>3
<1>11. PICK list : list = cleanup'
  OBVIOUS
<1>12. list \in Seq(Registered) /\ CleanupRight(d, m, list)
  <2> DEFINE r == [part |-> <<"vbase", i>>, at |-> m, flag |-> TRUE]
  <2>1. list = IF cls.vbases[i].dtor THEN Append(cleanup, r) ELSE cleanup
    BY <1>1, <1>8, <1>11 DEF Register
  <2>2. cleanup \in Seq(Registered) /\ CleanupRight(d, m, cleanup)
    BY <1>2, <1>8 DEF TypesRight, Added
  <2>3. r \in Registered
    <3>1. <<"vbase", i>> \in Expr
      BY <1>4, ExprTypes DEF Parts
    <3> QED BY <1>9, <3>1 DEF Registered
  <2>4. Told(d, m, r)
    <3>1. r.at = m /\ r.part[1] = "vbase" /\ r.flag
      OBVIOUS
    <3> HIDE DEF r
    <3>2. HeadLen + 1 < m /\ m \in 1..m
      BY <1>3, <1>4, <1>9
    <3> QED BY <1>3, <3>1, <3>2 DEF Told
  <2>5. r.at = m
    OBVIOUS
  <2> HIDE DEF r
  <2>6. Append(cleanup, r) \in Seq(Registered)
    BY <2>2, <2>3
  <2>7. CleanupRight(d, m, Append(cleanup, r))
    BY <1>9, <2>2, <2>3, <2>4, <2>5, CleanupAppended
  <2> QED BY <2>1, <2>2, <2>6, <2>7
<1>13. Whole("vbases", i + 1, d, m, list)
  <2>1. Zones("vbases", i + 1, d, m)
    <3>1. i + 1 \in 1..NV + 1
      BY <1>4
    <3> QED BY <1>3, <1>10, <3>1 DEF Zones
  <2> QED BY <1>8, <1>12, <2>1 DEF Added, Whole, Value
<1>14. StatementsRight'
  BY <1>1, <1>8, <1>11, <1>13, WholeReached
<1>15. TypesRight'
  <2>1. i + 1 \in Nat
    BY <1>4
  <2> QED BY <1>1, <1>2, <1>8, <1>11, <1>12, <2>1, TypesReached DEF Added, Phases
<1>16. LocalsRight'
  <2>1. expr' \in Values'
    BY <1>1, <1>6 DEF NV, Values
  <2>2. func'.kind \in ConstructorKinds /\ func'.kind \notin {"assignment", "destructor", "none"}
    BY <1>1, <1>3 DEF ConstructorKinds
  <2> HIDE DEF Null, Undefined
  <2> QED BY <1>1, <2>1, <2>2 DEF LocalsRight, Translating
<1> QED BY <1>14, <1>15, <1>16 DEF SInv

LEMMA VBasesDoneStep == ASSUME SInv, VBasesDone PROVE SInv'
<1> DEFINE s == <<Label("nobases")>>
<1>1. /\ phase = "vbases" /\ i > Len(cls.vbases) /\ Insert(s)
      /\ phase' = "bases" /\ i' = 1 /\ UNCHANGED <<cls, func, expr, cleanup>>
  BY DEF VBasesDone, Goto
<1>2. TypesRight /\ phase \in Translating
  BY <1>1 DEF SInv, Translating
<1>3. /\ HeadLen <= at /\ HeadRight(code, <<"nothing">>) /\ TailRight(code, at, <<"nothing">>)
      /\ CleanupRight(code, at, cleanup) /\ func.kind \in ConstructorKinds
      /\ NV > 0 /\ VBaseZone(code, at, i) /\ i \in 1..NV + 1
  BY <1>1, <1>2, TranslatingWhole DEF Zones
<1>4. NV \in Nat /\ i = NV + 1 /\ at \in Nat
  BY <1>1, <1>2, <1>3, Numbers DEF NV
<1>5. s \in Seq(Statement) /\ Len(s) = 1 /\ s[1] = Label("nobases")
  <2>1. Label("nobases") \in Statement
    BY StatementTypes DEF Labels
  <2> QED BY <2>1
<1> HIDE DEF s
<1>6. PICK d, m : d = code' /\ m = at' /\ Added(s, d, m, <<"nothing">>)
  BY <1>1, <1>2, <1>3, <1>5, InsertAdds
<1>7. m = at + 1 /\ m \in Nat /\ SameTo(code, d, at) /\ d[m] = Label("nobases")
  BY <1>4, <1>5, <1>6 DEF Added
<1>8. VBaseZone(d, at, i)
  BY <1>2, <1>3, <1>4, <1>7, VBaseZoneKept
<1>9. VirtualsRight(d, m)
  <2>1. m - 1 = at
    BY <1>4, <1>7
  <2> QED BY <1>3, <1>4, <1>7, <1>8, <2>1 DEF VirtualsRight
<1>10. BaseZone(d, m, m, 1)
  <2>1. ~Reallocates
    BY <1>3 DEF Reallocates, NV
  <2> QED BY <1>7, <2>1 DEF BaseZone
<1>11. Whole("bases", 1, d, m, cleanup)
  <2>1. Zones("bases", 1, d, m)
    BY <1>7, <1>9, <1>10 DEF Zones
  <2> QED BY <1>6, <2>1 DEF Added, Whole, Value
<1>12. StatementsRight'
  BY <1>1, <1>6, <1>11, WholeReached
<1>13. TypesRight'
  BY <1>1, <1>2, <1>6, TypesReached DEF Added, Phases, TypesRight
<1>14. LocalsRight'
  <2>1. ExprRight(expr)'
    <3>1. i > 1 /\ ~Reallocates
      BY <1>3, <1>4 DEF Reallocates, NV
    <3>2. expr \in Values
      BY <1>1, <3>1 DEF SInv, LocalsRight
    <3> QED BY <1>1, <3>1, <3>2 DEF ExprRight, Values, Reallocates, NV
  <2>2. func'.kind \in ConstructorKinds /\ func'.kind \notin {"assignment", "destructor", "none"}
    BY <1>1, <1>3 DEF ConstructorKinds
  <2>3. 1 \in 1..Len(cls'.bases) + 1
    <3>1. Len(cls.bases) \in Nat
      BY <1>2 DEF TypesRight
    <3> QED BY <1>1, <3>1
  <2> HIDE DEF Null, Undefined
  <2> QED BY <1>1, <2>1, <2>2, <2>3 DEF LocalsRight, Translating
<1> QED BY <1>12, <1>13, <1>14 DEF SInv

\* The zones of the phase of the bases.
LEMMA BasesZones ==
    ASSUME SInv, phase = "bases"
    PROVE  \E v \in Nat : VirtualsRight(code, v) /\ BaseZone(code, v, at, i)
<1>1. Zones(phase, i, code, at)
  BY TranslatingWhole DEF Translating
<1> QED BY <1>1 DEF Zones

LEMMA SkipBaseStep == ASSUME SInv, SkipBase PROVE SInv'
<1>1. /\ phase = "bases" /\ i <= Len(cls.bases) /\ cls.bases[i].virtual
      /\ phase' = "bases" /\ i' = i + 1 /\ UNCHANGED <<cls, func, code, at, vbase, expr, cleanup>>
  BY DEF SkipBase, Goto
<1>2. TypesRight /\ phase \in Translating /\ func.kind \in ConstructorKinds
  BY <1>1, TranslatingWhole DEF SInv, Translating
<1>3. PICK v \in Nat : VirtualsRight(code, v) /\ BaseZone(code, v, at, i)
  BY <1>1, BasesZones
<1>4. i \in Nat /\ i \in 1..Len(cls.bases) + 1 /\ Len(cls.bases) \in Nat
  BY <1>1, <1>2 DEF SInv, LocalsRight, TypesRight
<1>5. PICK j : j = i + 1
  OBVIOUS
<1>6. BaseZone(code, v, at, j)
  <2>1. \A k \in 1..i - 1 : k \in 1..j - 1
    BY <1>4, <1>5
  <2>2. OthersBefore(j) = OthersBefore(i)
    <3>1. \A k \in 1..j - 1 : k \in 1..i - 1 \/ k = i
      BY <1>4, <1>5
    <3> QED BY <1>1, <2>1, <3>1 DEF OthersBefore
  <2> QED BY <1>3, <2>1, <2>2 DEF BaseZone
<1>7. Whole("bases", j, code, at, cleanup)
  <2>1. Zones("bases", j, code, at)
    BY <1>3, <1>6 DEF Zones
  <2> QED BY <1>2, <2>1, TranslatingWhole DEF Whole, Value
<1>8. StatementsRight'
  BY <1>1, <1>5, <1>7, WholeReached
<1>9. TypesRight'
  BY <1>1, <1>2, <1>4, TypesReached DEF Phases, TypesRight
<1>10. LocalsRight'
  <2>1. ExprRight(expr)'
    BY <1>1 DEF SInv, LocalsRight, ExprRight, Values, Reallocates, NV
  <2>2. func'.kind \in ConstructorKinds /\ func'.kind \notin {"assignment", "destructor", "none"}
    BY <1>1, <1>2 DEF ConstructorKinds
  <2>3. i + 1 \in 1..Len(cls'.bases) + 1
    BY <1>1, <1>4
  <2> HIDE DEF Null, Undefined
  <2> QED BY <1>1, <2>1, <2>2, <2>3 DEF LocalsRight, Translating
<1> QED BY <1>8, <1>9, <1>10 DEF SInv

LEMMA Undetermined ==
    ASSUME TypesRight, NEW e, NEW x \in (IF func.copy THEN Leftover(Undefined) ELSE Leftover(e)),
           ExprRight(e)
    PROVE  /\ x \in Expr /\ ExprRight(x)
           /\ x # Null => Stmt("EXPRESSION", x) \in BaseStmts
           /\ Reallocates => x # Null
<1>1. CASE Reallocates
  <2>1. ~func.copy /\ e = <<"new">>
    BY <1>1 DEF Reallocates, ExprRight
  <2>2. <<"new">> # Undefined /\ <<"new">> # Null /\ <<"new">> \in Expr
    BY ExprTypes DEF Words, Undefined, Null
  <2>3. x = <<"new">>
    <3> HIDE DEF Null, Undefined
    <3> QED BY <2>1, <2>2 DEF Leftover
  <2> HIDE DEF Null, Undefined
  <2> QED BY <1>1, <2>2, <2>3 DEF BaseStmts, NewStmt, ExprRight
<1>2. CASE ~Reallocates
  <2>1. x \in {Null, <<"garbage">>} \cup { <<"vbase", k>> : k \in 1..NV }
    <3> HIDE DEF Null, Undefined
    <3> QED BY <1>2 DEF Leftover, ExprRight, Values
  <2>2. x \in Expr
    <3>1. Null \in Expr /\ <<"garbage">> \in Expr
      BY ExprTypes DEF Words
    <3>2. \A k \in 1..NV : <<"vbase", k>> \in Expr
      <4>1. 1..NV \in SUBSET Nat /\ "vbase" \in Parts
        BY Numbers DEF Parts
      <4> QED BY <4>1, ExprTypes
    <3> HIDE DEF Null
    <3> QED BY <2>1, <3>1, <3>2
  <2>3. x # Null => Stmt("EXPRESSION", x) \in BaseStmts
    <3> HIDE DEF Null
    <3> QED BY <1>2, <2>1 DEF BaseStmts, VBaseStmt
  <2>4. x \in Values
    <3> HIDE DEF Null, Undefined
    <3> QED BY <2>1 DEF Values
  <2> HIDE DEF Null, Undefined
  <2> QED BY <1>2, <2>2, <2>3, <2>4 DEF ExprRight
<1> QED BY <1>1, <1>2

LEMMA LocalsReached ==
    ASSUME UNCHANGED <<cls, func>>, func.kind \in ConstructorKinds,
           phase' \in {"bases", "members", "returns", "generate", "stopped"},
           phase' = "bases" => i' \in 1..Len(cls.bases) + 1 /\ ExprRight(expr')
    PROVE  LocalsRight'
<1>1. phase' = "bases" => ExprRight(expr)'
  BY DEF ExprRight, Values, Reallocates, NV
<1>2. func'.kind \in ConstructorKinds /\ func'.kind \notin {"assignment", "destructor", "none"}
  BY DEF ConstructorKinds
<1> HIDE DEF Null, Undefined
<1> QED BY <1>1, <1>2 DEF LocalsRight, Translating

LEMMA ConstructBaseStep == ASSUME SInv, ConstructBase PROVE SInv'
<1> DEFINE s == Expression(expr')
<1>1. /\ phase = "bases" /\ i <= Len(cls.bases) /\ ~cls.bases[i].virtual /\ Insert(s)
      /\ expr' \in (IF func.copy THEN Leftover(Undefined) ELSE Leftover(expr))
      /\ phase' = "bases" /\ i' = i + 1 /\ UNCHANGED <<cls, func, vbase>>
      /\ Register(cls.bases[i].sub.dtor, <<"base", i>>, FALSE)
  BY DEF ConstructBase, Goto
<1>2. TypesRight /\ phase \in Translating
  BY <1>1 DEF SInv, Translating
<1>3. /\ HeadLen <= at /\ HeadRight(code, <<"nothing">>) /\ TailRight(code, at, <<"nothing">>)
      /\ CleanupRight(code, at, cleanup) /\ func.kind \in ConstructorKinds
  BY <1>2, TranslatingWhole
<1>4. PICK v \in Nat : VirtualsRight(code, v) /\ BaseZone(code, v, at, i)
  BY <1>1, BasesZones
<1>5. PICK e : e = expr'
  OBVIOUS
<1>6. /\ e \in Expr /\ ExprRight(e)
      /\ e # Null => Stmt("EXPRESSION", e) \in BaseStmts
      /\ Reallocates => e # Null
  <2>1. ExprRight(expr)
    BY <1>1 DEF SInv, LocalsRight
  <2> HIDE DEF Null, Undefined
  <2> QED BY <1>1, <1>2, <1>5, <2>1, Undetermined
<1>7. /\ s \in Seq(Statement)
      /\ e = Null => Len(s) = 0
      /\ e # Null => Len(s) = 1 /\ s[1] = Stmt("EXPRESSION", e)
  BY <1>5, <1>6, Expressions
<1>8. /\ i \in Nat /\ i \in 1..Len(cls.bases) + 1 /\ Len(cls.bases) \in Nat /\ at \in Nat
      /\ Len(s) \in Nat /\ i \in 1..Len(cls.bases)
  <2>1. i \in 1..Len(cls.bases) + 1
    BY <1>1 DEF SInv, LocalsRight
  <2>2. Len(cls.bases) \in Nat /\ i \in Nat
    BY <1>2 DEF TypesRight
  <2>3. at \in Nat /\ Len(s) \in Nat
    BY <1>2, <1>7, Numbers
  <2> HIDE DEF s
  <2> QED BY <1>1, <2>1, <2>2, <2>3
<1> HIDE DEF s
<1>9. PICK d, m : d = code' /\ m = at' /\ Added(s, d, m, <<"nothing">>)
  BY <1>1, <1>2, <1>3, <1>7, InsertAdds
<1>10. m \in Nat /\ at <= m /\ SameTo(code, d, at) /\ m = at + Len(s)
  BY <1>8, <1>9 DEF Added
<1>11. v <= at
  BY <1>4 DEF BaseZone
<1>12. VirtualsRight(d, v) /\ BaseZone(d, v, at, i)
  BY <1>2, <1>4, <1>8, <1>10, <1>11, VirtualsKept, BaseZoneKept
<1>13. PICK j : j = i + 1
  OBVIOUS
<1>14. BaseZone(d, v, m, j)
  <2>1. \A k \in v + 1 .. m : d[k] \in BaseStmts
    <3>1. CASE e = Null
      BY <1>7, <1>8, <1>10, <1>12, <3>1 DEF BaseZone
    <3>2. CASE e # Null
      <4>1. m = at + 1
        BY <1>7, <1>10, <3>2
      <4>2. d[m] \in BaseStmts
        BY <1>6, <1>7, <1>8, <1>9, <3>2, <4>1 DEF Added
      <4>3. \A k \in v + 1 .. m : k = m \/ k \in v + 1 .. at
        BY <1>8, <4>1
      <4> QED BY <1>12, <4>2, <4>3 DEF BaseZone
    <3> QED BY <3>1, <3>2
  <2>2. i \in 1..j - 1
    BY <1>8, <1>13
  <2>3. ASSUME Reallocates PROVE m = v + Cardinality(OthersBefore(j))
    <3>1. OthersBefore(j) = OthersBefore(i) \cup {i} /\ i \notin OthersBefore(i)
      <4>1. \A k : k \in 1..j - 1 <=> k \in 1..i - 1 \/ k = i
        BY <1>8, <1>13
      <4>2. i \notin 1..i - 1
        BY <1>8
      <4> QED BY <1>1, <4>1, <4>2 DEF OthersBefore
    <3>2. IsFiniteSet(OthersBefore(i)) /\ Cardinality(OthersBefore(i)) \in Nat
      <4>1. IsFiniteSet(1..i - 1)
        BY <1>8, FS_Interval
      <4>2. OthersBefore(i) \subseteq 1..i - 1
        BY DEF OthersBefore
      <4> QED BY <4>1, <4>2, FS_Subset, FS_CardinalityType
    <3>3. Cardinality(OthersBefore(j)) = Cardinality(OthersBefore(i)) + 1
      BY <3>1, <3>2, FS_AddElement
    <3>4. m = at + 1
      BY <1>6, <1>7, <1>10, <2>3
    <3>5. at = v + Cardinality(OthersBefore(i))
      BY <1>12, <2>3 DEF BaseZone
    <3> QED BY <3>2, <3>3, <3>4, <3>5
  <2>4. v <= m
    BY <1>8, <1>10, <1>11
  <2> QED BY <1>1, <2>1, <2>2, <2>3, <2>4 DEF BaseZone
<1>15. PICK list : list = cleanup'
  OBVIOUS
<1>16. list \in Seq(Registered) /\ CleanupRight(d, m, list)
  <2> DEFINE r == [part |-> <<"base", i>>, at |-> m, flag |-> FALSE]
  <2>1. list = IF cls.bases[i].sub.dtor THEN Append(cleanup, r) ELSE cleanup
    BY <1>1, <1>9, <1>15 DEF Register
  <2>2. cleanup \in Seq(Registered) /\ CleanupRight(d, m, cleanup)
    BY <1>2, <1>9 DEF TypesRight, Added
  <2>3. r \in Registered
    <3>1. <<"base", i>> \in Expr
      BY <1>8, ExprTypes DEF Parts
    <3> QED BY <1>10, <3>1 DEF Registered
  <2>4. Told(d, m, r)
    <3>1. r.at = m /\ r.part[1] = "base"
      OBVIOUS
    <3> HIDE DEF r
    <3>2. m \in 1..m
      BY <1>2, <1>3, <1>8, <1>10, Numbers
    <3> QED BY <3>1, <3>2 DEF Told
  <2>5. r.at = m
    OBVIOUS
  <2> HIDE DEF r
  <2>6. Append(cleanup, r) \in Seq(Registered)
    BY <2>2, <2>3
  <2>7. CleanupRight(d, m, Append(cleanup, r))
    BY <1>10, <2>2, <2>3, <2>4, <2>5, CleanupAppended
  <2> QED BY <2>1, <2>2, <2>6, <2>7
<1>17. Whole("bases", j, d, m, list)
  <2>1. Zones("bases", j, d, m)
    BY <1>12, <1>14 DEF Zones
  <2> QED BY <1>9, <1>16, <2>1 DEF Added, Whole, Value
<1>18. StatementsRight'
  BY <1>1, <1>9, <1>13, <1>15, <1>17, WholeReached
<1>19. TypesRight'
  <2>1. i + 1 \in Nat
    BY <1>8
  <2> QED BY <1>1, <1>2, <1>9, <1>15, <1>16, <2>1, TypesReached DEF Added, Phases
<1>20. LocalsRight'
  <2>1. i + 1 \in 1..Len(cls.bases) + 1
    BY <1>8
  <2> QED BY <1>1, <1>3, <1>5, <1>6, <2>1, LocalsReached
<1> QED BY <1>18, <1>19, <1>20 DEF SInv

LEMMA BasesDoneStep == ASSUME SInv, BasesDone PROVE SInv'
<1> DEFINE table == IF cls.vtable THEN <<Stmt("EXPRESSION", <<"vtable">>)>> ELSE <<>>
           copies == IF func.copy THEN <<Stmt("EXPRESSION", <<"copies">>)>> ELSE <<>>
           s == table \o copies
           p == IF func.copy THEN "returns" ELSE "members"
<1>1. /\ phase = "bases" /\ i > Len(cls.bases) /\ Insert(s)
      /\ phase' = p /\ i' = 1 /\ UNCHANGED <<cls, func, vbase, expr, cleanup>>
  BY DEF BasesDone, Goto
<1>2. TypesRight /\ phase \in Translating
  BY <1>1 DEF SInv, Translating
<1>3. /\ HeadLen <= at /\ HeadRight(code, <<"nothing">>) /\ TailRight(code, at, <<"nothing">>)
      /\ CleanupRight(code, at, cleanup) /\ func.kind \in ConstructorKinds
  BY <1>2, TranslatingWhole
<1>4. PICK v \in Nat : VirtualsRight(code, v) /\ BaseZone(code, v, at, i)
  BY <1>1, BasesZones
<1>5. i = Len(cls.bases) + 1 /\ at \in Nat
  <2>1. i \in 1..Len(cls.bases) + 1
    BY <1>1 DEF SInv, LocalsRight
  <2>2. Len(cls.bases) \in Nat /\ at \in Nat
    BY <1>2, Numbers DEF TypesRight
  <2> HIDE DEF s, p
  <2> QED BY <1>1, <2>1, <2>2
<1>6. /\ s \in Seq(Statement)
      /\ \A k \in 1..Len(s) : /\ s[k].type = "EXPRESSION" /\ s[k].expr \in ObjectExprs
                              /\ k # 1 => s[k].expr # <<"vtable">>
  <2>1. Stmt("EXPRESSION", <<"vtable">>) \in Statement /\ Stmt("EXPRESSION", <<"copies">>) \in Statement
    <3>1. <<"vtable">> \in Expr /\ <<"copies">> \in Expr /\ "EXPRESSION" \in Types
      BY ExprTypes DEF Words, Types
    <3> QED BY <3>1, StatementTypes
  <2>2. ASSUME NEW x, NEW y, x = Stmt("EXPRESSION", <<"vtable">>), y = Stmt("EXPRESSION", <<"copies">>)
        PROVE  /\ x.type = "EXPRESSION" /\ x.expr = <<"vtable">> /\ y.type = "EXPRESSION" /\ y.expr = <<"copies">>
               /\ x.expr \in ObjectExprs /\ y.expr \in ObjectExprs /\ y.expr # <<"vtable">>
    BY <2>2 DEF Stmt, ObjectExprs
  <2>3. PICK x, y : x = Stmt("EXPRESSION", <<"vtable">>) /\ y = Stmt("EXPRESSION", <<"copies">>)
    OBVIOUS
  <2>4. /\ table \in Seq(Statement) /\ Len(table) \in 0..1 /\ \A k \in 1..Len(table) : table[k] = x
        /\ copies \in Seq(Statement) /\ Len(copies) \in 0..1 /\ \A k \in 1..Len(copies) : copies[k] = y
    BY <2>1, <2>3
  <2> HIDE DEF table, copies
  <2>5. /\ s \in Seq(Statement) /\ Len(s) = Len(table) + Len(copies)
        /\ \A k \in 1..Len(table) : s[k] = table[k]
        /\ \A k \in 1..Len(copies) : s[Len(table) + k] = copies[k]
    BY <2>4
  <2> HIDE DEF s
  <2>6. ASSUME NEW k \in 1..Len(s) PROVE s[k] \in {x, y} /\ (k # 1 => s[k] = y)
    <3>1. CASE k \in 1..Len(table)
      BY <2>4, <2>5, <3>1
    <3>2. CASE k \notin 1..Len(table)
      <4>1. k - Len(table) \in 1..Len(copies) /\ Len(table) + (k - Len(table)) = k
        BY <2>4, <2>5, <3>2
      <4>2. s[k] = copies[k - Len(table)]
        BY <2>5, <4>1
      <4> QED BY <2>4, <4>1, <4>2
    <3> QED BY <3>1, <3>2
  <2> QED BY <2>2, <2>3, <2>5, <2>6
<1> HIDE DEF s, p
<1>7. PICK d, m : d = code' /\ m = at' /\ Added(s, d, m, <<"nothing">>)
  BY <1>1, <1>2, <1>3, <1>6, InsertAdds
<1>8. m \in Nat /\ at <= m /\ SameTo(code, d, at) /\ m = at + Len(s) /\ Len(s) \in Nat
  BY <1>5, <1>6, <1>7 DEF Added
<1>9. v <= at
  BY <1>4 DEF BaseZone
<1>10. VirtualsRight(d, v) /\ BaseZone(d, v, at, i)
  BY <1>2, <1>4, <1>5, <1>8, <1>9, VirtualsKept, BaseZoneKept
<1>11. ObjectZone(d, at, m)
  <2> SUFFICES ASSUME NEW k \in at + 1 .. m
               PROVE  /\ d[k].type = "EXPRESSION" /\ d[k].expr \in ObjectExprs
                      /\ k # at + 1 => d[k].expr # <<"vtable">>
    BY <1>8 DEF ObjectZone
  <2>1. k - at \in 1..Len(s) /\ at + (k - at) = k /\ (k # at + 1 => k - at # 1)
    BY <1>5, <1>8
  <2>2. d[k] = s[k - at]
    BY <1>7, <2>1 DEF Added
  <2> QED BY <1>6, <2>1, <2>2
<1>12. p \in {"returns", "members"}
  BY DEF p
<1>13. Whole(p, 1, d, m, cleanup)
  <2>1. Zones(p, 1, d, m)
    BY <1>5, <1>10, <1>11, <1>12 DEF Zones
  <2> QED BY <1>7, <1>12, <2>1 DEF Added, Whole, Value
<1>14. StatementsRight'
  BY <1>1, <1>7, <1>13, WholeReached
<1>15. TypesRight'
  BY <1>1, <1>2, <1>7, <1>12, TypesReached DEF Added, Phases, TypesRight
<1>16. LocalsRight'
  BY <1>1, <1>3, <1>12, LocalsReached
<1> QED BY <1>14, <1>15, <1>16 DEF SInv

\* The zones of the phases after that of the bases.
LEMMA ObjectZones ==
    ASSUME SInv, phase \in {"members", "returns"}
    PROVE  \E v, b \in Nat : /\ VirtualsRight(code, v) /\ BaseZone(code, v, b, Len(cls.bases) + 1)
                             /\ ObjectZone(code, b, at)
<1>1. Zones(phase, i, code, at)
  BY TranslatingWhole DEF Translating
<1> QED BY <1>1 DEF Zones

LEMMA ConstructMemberStep == ASSUME SInv, ConstructMember PROVE SInv'
<1> DEFINE s == MemberStmts(i)
<1>1. /\ phase = "members" /\ i <= Len(cls.ivars) /\ Insert(s)
      /\ phase' = "members" /\ i' = i + 1 /\ UNCHANGED <<cls, func, vbase, expr>>
      /\ Register(MemberCleanup(cls.ivars[i]), <<"member", i>>, FALSE)
  BY DEF ConstructMember, Goto
<1>2. TypesRight /\ phase \in Translating
  BY <1>1 DEF SInv, Translating
<1>3. /\ HeadLen <= at /\ HeadRight(code, <<"nothing">>) /\ TailRight(code, at, <<"nothing">>)
      /\ CleanupRight(code, at, cleanup) /\ func.kind \in ConstructorKinds
  BY <1>2, TranslatingWhole
<1>4. PICK v \in Nat, b \in Nat :
        /\ VirtualsRight(code, v) /\ BaseZone(code, v, b, Len(cls.bases) + 1)
        /\ ObjectZone(code, b, at)
  BY <1>1, ObjectZones
<1>5. at \in Nat /\ i \in Nat /\ v <= b /\ b <= at
  BY <1>2, <1>4, Numbers DEF TypesRight, BaseZone, ObjectZone
<1>6. /\ s \in Seq(Statement) /\ Len(s) \in 0..1
      /\ Len(s) = 1 => /\ s[1].type = "EXPRESSION" /\ s[1].expr \in { <<"member", i>>, <<"nothing">> }
      /\ MemberCleanup(cls.ivars[i]) => Len(s) = 1
  <2>1. <<"member", i>> \in Expr /\ <<"nothing">> \in Expr /\ "EXPRESSION" \in Types
    BY <1>5, ExprTypes DEF Parts, Words, Types
  <2>2. PICK x, y : x = Stmt("EXPRESSION", <<"member", i>>) /\ y = Stmt("EXPRESSION", <<"nothing">>)
    OBVIOUS
  <2>3. /\ x \in Statement /\ x.type = "EXPRESSION" /\ x.expr = <<"member", i>>
        /\ y \in Statement /\ y.type = "EXPRESSION" /\ y.expr = <<"nothing">>
    <3>1. x \in Statement /\ y \in Statement
      BY <2>1, <2>2, StatementTypes
    <3> QED BY <2>2, <3>1 DEF Stmt
  <2>4. /\ s = <<x>> \/ s = <<y>> \/ s = <<>>
        /\ MemberCleanup(cls.ivars[i]) => s # <<>>
    BY <2>2 DEF MemberStmts, MemberCleanup
  <2> HIDE DEF s
  <2>5. CASE s = <<x>>
    BY <2>3, <2>5
  <2>6. CASE s = <<y>>
    BY <2>3, <2>6
  <2>7. CASE s = <<>>
    BY <2>4, <2>7
  <2> QED BY <2>4, <2>5, <2>6, <2>7
<1> HIDE DEF s
<1>7. PICK d, m : d = code' /\ m = at' /\ Added(s, d, m, <<"nothing">>)
  BY <1>1, <1>2, <1>3, <1>6, InsertAdds
<1>8. m \in Nat /\ at <= m /\ SameTo(code, d, at) /\ m = at + Len(s)
  BY <1>5, <1>6, <1>7 DEF Added
<1>9. VirtualsRight(d, v) /\ BaseZone(d, v, b, Len(cls.bases) + 1) /\ ObjectZone(d, b, at)
  <2>1. v <= at
    BY <1>5
  <2> QED BY <1>2, <1>4, <1>5, <1>8, <2>1, VirtualsKept, BaseZoneKept, ObjectZoneKept
<1>10. Len(s) = 1 => d[m].type = "EXPRESSION" /\ d[m].expr \in { <<"member", i>>, <<"nothing">> }
  <2>1. Len(s) = 1 => d[at + 1] = s[1]
    BY <1>5, <1>7 DEF Added
  <2> QED BY <1>6, <1>8, <2>1
<1>11. ObjectZone(d, b, m)
  <2>1. ASSUME NEW k \in b + 1 .. m
        PROVE  /\ d[k].type = "EXPRESSION" /\ d[k].expr \in ObjectExprs
               /\ k # b + 1 => d[k].expr # <<"vtable">>
    <3>1. CASE k <= at
      <4>1. k \in b + 1 .. at
        BY <1>5, <1>8, <3>1
      <4> QED BY <1>9, <4>1 DEF ObjectZone
    <3>2. CASE ~(k <= at)
      <4>1. k = m /\ Len(s) = 1
        <5>1. Len(s) = 0 \/ Len(s) = 1
          BY <1>6
        <5>2. k \in Nat /\ k <= m
          BY <1>5, <1>8
        <5>3. ASSUME NEW n \in 0..1, m = at + n PROVE k = m /\ n = 1
          BY <1>5, <3>2, <5>2, <5>3
        <5>4. Len(s) \in 0..1 /\ m = at + Len(s)
          BY <1>6, <1>8
        <5> QED BY <5>3, <5>4
      <4>2. <<"member", i>> \in ObjectExprs /\ <<"nothing">> \in ObjectExprs
        BY <1>5 DEF ObjectExprs
      <4>3. <<"member", i>> # <<"vtable">> /\ <<"nothing">> # <<"vtable">>
        OBVIOUS
      <4> QED BY <1>10, <4>1, <4>2, <4>3
    <3> QED BY <3>1, <3>2
  <2>2. b <= m
    BY <1>5, <1>8
  <2> QED BY <2>1, <2>2 DEF ObjectZone
<1>12. PICK list : list = cleanup'
  OBVIOUS
<1>13. list \in Seq(Registered) /\ CleanupRight(d, m, list)
  <2> DEFINE r == [part |-> <<"member", i>>, at |-> m, flag |-> FALSE]
  <2>1. list = IF MemberCleanup(cls.ivars[i]) THEN Append(cleanup, r) ELSE cleanup
    BY <1>1, <1>7, <1>12 DEF Register
  <2>2. cleanup \in Seq(Registered) /\ CleanupRight(d, m, cleanup)
    BY <1>2, <1>7 DEF TypesRight, Added
  <2>3. r \in Registered
    <3>1. <<"member", i>> \in Expr
      BY <1>5, ExprTypes DEF Parts
    <3> QED BY <1>8, <3>1 DEF Registered
  <2>4. ASSUME MemberCleanup(cls.ivars[i]) PROVE Told(d, m, r)
    <3>1. r.at = m /\ r.part = <<"member", i>> /\ r.part[1] = "member"
      OBVIOUS
    <3> HIDE DEF r
    <3>2. Len(s) = 1 /\ m \in 1..m
      BY <1>5, <1>6, <1>8, <2>4
    <3> QED BY <1>10, <3>1, <3>2 DEF Told
  <2>5. r.at = m
    OBVIOUS
  <2> HIDE DEF r
  <2>6. CASE MemberCleanup(cls.ivars[i])
    <3>1. Append(cleanup, r) \in Seq(Registered)
      BY <2>2, <2>3
    <3>2. CleanupRight(d, m, Append(cleanup, r))
      BY <1>8, <2>2, <2>3, <2>4, <2>5, <2>6, CleanupAppended
    <3> QED BY <2>1, <2>6, <3>1, <3>2
  <2>7. CASE ~MemberCleanup(cls.ivars[i])
    BY <2>1, <2>2, <2>7
  <2> QED BY <2>6, <2>7
<1>14. PICK j : j = i + 1
  OBVIOUS
<1>15. Whole("members", j, d, m, list)
  <2>1. Zones("members", j, d, m)
    BY <1>9, <1>11 DEF Zones
  <2> QED BY <1>7, <1>13, <2>1 DEF Added, Whole, Value
<1>16. StatementsRight'
  BY <1>1, <1>7, <1>12, <1>14, <1>15, WholeReached
<1>17. TypesRight'
  <2>1. i + 1 \in Nat
    BY <1>5
  <2> QED BY <1>1, <1>2, <1>7, <1>12, <1>13, <2>1, TypesReached DEF Added, Phases
<1>18. LocalsRight'
  BY <1>1, <1>3, LocalsReached
<1> QED BY <1>16, <1>17, <1>18 DEF SInv

LEMMA MembersDoneStep == ASSUME SInv, MembersDone PROVE SInv'
<1>1. /\ phase = "members" /\ phase' = "returns" /\ i' = 1
      /\ UNCHANGED <<cls, func, code, at, vbase, expr, cleanup>>
  BY DEF MembersDone, Goto
<1>2. TypesRight /\ phase \in Translating
  BY <1>1 DEF SInv, Translating
<1>3. Whole("returns", 1, code, at, cleanup) /\ func.kind \in ConstructorKinds
  <2>1. Zones("returns", 1, code, at)
    BY <1>1, ObjectZones DEF Zones
  <2> QED BY <1>2, <2>1, TranslatingWhole DEF Whole, Value
<1>4. StatementsRight'
  BY <1>1, <1>3, WholeReached
<1>5. TypesRight'
  BY <1>1, <1>2, TypesReached DEF Phases, TypesRight
<1>6. LocalsRight'
  BY <1>1, <1>3, LocalsReached
<1> QED BY <1>4, <1>5, <1>6 DEF SInv

LEMMA StopStep == ASSUME SInv, Stop PROVE SInv'
<1>1. phase' = "stopped" /\ UNCHANGED <<cls, func, i, code, at, vbase, expr, cleanup>>
  BY DEF Stop, translation
<1>2. TypesRight'
  BY <1>1, TypesReached DEF SInv, Phases, TypesRight
<1>3. StatementsRight'
  BY <1>1 DEF StatementsRight, Constructing
<1>4. LocalsRight'
  BY <1>1 DEF SInv, LocalsRight, Translating
<1> QED BY <1>2, <1>3, <1>4 DEF SInv

\* Nothing that was added is a return.
LEMMA AddedAreNoReturns ==
    ASSUME TypesRight, NEW c, NEW v \in Nat, NEW b \in Nat, NEW m \in Nat,
           VirtualsRight(c, v), BaseZone(c, v, b, Len(cls.bases) + 1), ObjectZone(c, b, m)
    PROVE  /\ HeadLen <= v /\ v <= b /\ b <= m
           /\ \A k \in HeadLen + 1 .. m : c[k].type # "RETURN"
<1>1. HeadLen \in Nat /\ NV \in Nat /\ VStart = HeadLen + 1 + NV /\ v <= b /\ b <= m
  BY Numbers DEF BaseZone, ObjectZone
<1>2. \A e : Stmt("EXPRESSION", e).type # "RETURN"
  BY DEF Stmt
<1>3. \A k \in v + 1 .. b : c[k].type # "RETURN"
  BY <1>2 DEF BaseZone, BaseStmts, VBaseStmt, NewStmt
<1>4. \A k \in b + 1 .. m : c[k].type # "RETURN"
  BY DEF ObjectZone
<1>5. HeadLen <= v /\ \A k \in HeadLen + 1 .. v : c[k].type # "RETURN"
  <2>1. CASE NV = 0
    BY <1>1, <2>1 DEF VirtualsRight
  <2>2. CASE NV # 0
    <3>1. VBaseZone(c, v - 1, NV + 1) /\ c[v] = Label("nobases")
      BY <2>2 DEF VirtualsRight
    <3>2. VStart <= v - 1
      BY <3>1 DEF VBaseZone
    <3>3. ASSUME NEW k \in HeadLen + 1 .. v PROVE c[k].type # "RETURN"
      <4>1. CASE k = HeadLen + 1
        BY <3>1, <4>1 DEF VBaseZone, Jump
      <4>2. CASE k \in HeadLen + 2 .. VStart
        <5>1. k - (HeadLen + 1) \in 1..NV /\ HeadLen + 1 + (k - (HeadLen + 1)) = k
          BY <1>1, <4>2
        <5>2. c[k] = Stmt("EXPRESSION", <<"pointer", k - (HeadLen + 1)>>)
          BY <3>1, <5>1 DEF VBaseZone
        <5> QED BY <1>2, <5>2
      <4>3. CASE k \in VStart + 1 .. v - 1
        BY <1>2, <3>1, <4>3 DEF VBaseZone, VBaseStmt
      <4>4. CASE k = v
        BY <3>1, <4>4 DEF Label
      <4> QED BY <1>1, <3>2, <4>1, <4>2, <4>3, <4>4
    <3> QED BY <1>1, <3>2, <3>3
  <2> QED BY <2>1, <2>2
<1> QED BY <1>1, <1>3, <1>4, <1>5

LEMMA ReturnsStep == ASSUME SInv, Returns PROVE SInv'
<1>1. /\ phase = "returns" /\ phase' = "generate" /\ i' = 1
      /\ UNCHANGED <<cls, func, at, vbase, expr, cleanup>>
      /\ code' = [k \in DOMAIN code |-> IF k > 1 /\ code[k].type = "RETURN"
                                         THEN [code[k] EXCEPT !.expr = <<"this">>] ELSE code[k]]
  BY DEF Returns, Goto
<1>2. TypesRight /\ phase \in Translating
  BY <1>1 DEF SInv, Translating
<1>3. /\ HeadLen <= at /\ HeadRight(code, <<"nothing">>) /\ TailRight(code, at, <<"nothing">>)
      /\ CleanupRight(code, at, cleanup) /\ func.kind \in ConstructorKinds
  BY <1>2, TranslatingWhole
<1>4. PICK v \in Nat, b \in Nat :
        /\ VirtualsRight(code, v) /\ BaseZone(code, v, b, Len(cls.bases) + 1)
        /\ ObjectZone(code, b, at)
  BY <1>1, ObjectZones
<1>5. PICK d : d = code'
  OBVIOUS
<1>6. code \in Seq(Statement) /\ DOMAIN code = 1..Len(code) /\ Len(code) \in Nat
  BY <1>2 DEF TypesRight
<1>7. /\ d \in Seq(Statement) /\ Len(d) = Len(code)
      /\ \A k \in 1..Len(code) : code[k].type # "RETURN" => d[k] = code[k]
      /\ \A k \in 1..Len(code) : k > 1 /\ code[k] = Stmt("RETURN", <<"nothing">>) => d[k] = Stmt("RETURN", <<"this">>)
  <2>1. <<"this">> \in Expr
    BY ExprTypes DEF Words
  <2>2. \A k \in 1..Len(code) : [code[k] EXCEPT !.expr = <<"this">>] \in Statement /\ code[k] \in Statement
    <3> TAKE k \in 1..Len(code)
    <3>1. code[k] \in Statement
      BY <1>6
    <3> QED BY <2>1, <3>1 DEF Statement
  <2>3. /\ DOMAIN d = 1..Len(code)
        /\ \A k \in 1..Len(code) : d[k] = IF k > 1 /\ code[k].type = "RETURN"
                                          THEN [code[k] EXCEPT !.expr = <<"this">>] ELSE code[k]
    BY <1>1, <1>5, <1>6
  <2>4. d = [k \in 1..Len(code) |-> d[k]] /\ \A k \in 1..Len(code) : d[k] \in Statement
    BY <1>1, <1>5, <1>6, <2>2, <2>3
  <2>5. d \in Seq(Statement) /\ Len(d) = Len(code)
    BY <1>6, <2>3, <2>4
  <2>6. ASSUME NEW k \in 1..Len(code), k > 1, code[k] = Stmt("RETURN", <<"nothing">>)
        PROVE  d[k] = Stmt("RETURN", <<"this">>)
    <3>1. code[k] = [type |-> "RETURN", expr |-> <<"nothing">>, label |-> "none"]
      BY <2>6 DEF Stmt
    <3>2. d[k] = [code[k] EXCEPT !.expr = <<"this">>]
      BY <2>3, <2>6, <3>1
    <3>3. d[k] = [type |-> "RETURN", expr |-> <<"this">>, label |-> "none"]
      BY <3>1, <3>2
    <3> QED BY <3>3 DEF Stmt
  <2> QED BY <2>3, <2>5, <2>6
<1>8. /\ First \in 1..2 /\ HeadLen \in Nat /\ First <= HeadLen /\ TailLen \in 1..2
      /\ cls.handle => First + 4 <= HeadLen
      /\ func.try => First + 1 <= HeadLen
      /\ at \in Nat /\ Len(code) = at + TailLen
  BY <1>2, <1>3, Numbers DEF TailRight
<1>9. /\ HeadLen <= v /\ v <= b /\ b <= at
      /\ \A k \in HeadLen + 1 .. at : code[k].type # "RETURN"
  BY <1>2, <1>4, <1>8, AddedAreNoReturns
<1>10. \A k \in HeadLen + 1 .. at : d[k] = code[k]
  BY <1>7, <1>8, <1>9
<1>11. VirtualsRight(d, v)
  <2>1. v <= at
    BY <1>8, <1>9
  <2> QED BY <1>2, <1>4, <1>8, <1>10, <2>1, VirtualsBehindHead
<1>12. BaseZone(d, v, b, Len(cls.bases) + 1)
  <2>1. \A k \in v + 1 .. b : d[k] = code[k]
    BY <1>8, <1>9, <1>10
  <2> QED BY <1>4, <2>1 DEF BaseZone
<1>13. ObjectZone(d, b, at)
  <2>1. \A k \in b + 1 .. at : d[k] = code[k]
    BY <1>8, <1>9, <1>10
  <2> QED BY <1>4, <2>1 DEF ObjectZone
<1>14. HeadRight(d, <<"this">>)
  <2>1. \A k \in 1..First : d[k] = Nop
    BY <1>3, <1>7, <1>8 DEF HeadRight, Nop, Stmt
  <2>2. ASSUME cls.handle
        PROVE  /\ d[First + 1] = Jump(<<"this">>, "allocated")
               /\ d[First + 2] = Jump(<<"new">>, "allocated")
               /\ d[First + 3] = Stmt("RETURN", <<"this">>)
               /\ d[First + 4] = Label("allocated")
    <3>1. {First + 1, First + 2, First + 3, First + 4} \subseteq 1..Len(code) /\ First + 3 > 1
      BY <1>3, <1>8, <2>2
    <3>2. /\ code[First + 1] = Jump(<<"this">>, "allocated")
          /\ code[First + 2] = Jump(<<"new">>, "allocated")
          /\ code[First + 3] = Stmt("RETURN", <<"nothing">>)
          /\ code[First + 4] = Label("allocated")
      BY <1>3, <2>2 DEF HeadRight
    <3>3. /\ code[First + 1].type # "RETURN" /\ code[First + 2].type # "RETURN"
          /\ code[First + 4].type # "RETURN"
      BY <3>2 DEF Jump, Label
    <3> QED BY <1>7, <3>1, <3>2, <3>3
  <2>3. ASSUME func.try PROVE d[HeadLen] = Stmt("BEGINCATCH", <<"nothing">>)
    <3>1. HeadLen \in 1..Len(code) /\ code[HeadLen] = Stmt("BEGINCATCH", <<"nothing">>)
      BY <1>3, <1>8, <2>3 DEF HeadRight
    <3> QED BY <1>7, <3>1 DEF Stmt
  <2> QED BY <2>1, <2>2, <2>3 DEF HeadRight
<1>15. TailRight(d, at, <<"this">>)
  <2>1. at + TailLen \in 1..Len(code) /\ at + TailLen > 1 /\ at + 1 \in 1..Len(code)
    BY <1>3, <1>8
  <2>2. func.kind = "user" => d[at + 1] = Stmt("EXPRESSION", <<"body">>)
    BY <1>3, <1>7, <2>1 DEF TailRight, Stmt
  <2>3. d[at + TailLen] = Stmt("RETURN", <<"this">>)
    BY <1>3, <1>7, <2>1 DEF TailRight
  <2> QED BY <1>7, <1>8, <2>2, <2>3 DEF TailRight
<1>16. CleanupRight(d, at, cleanup)
  <2>1. ASSUME NEW r, Told(code, at, r) PROVE Told(d, at, r)
    <3>1. r.at \in 1..Len(code)
      BY <1>8, <2>1 DEF Told
    <3> QED BY <1>7, <2>1, <3>1 DEF Told
  <2> QED BY <1>3, <2>1 DEF CleanupRight
<1>17. Whole("generate", 1, d, at, cleanup)
  <2>1. Zones("generate", 1, d, at)
    BY <1>11, <1>12, <1>13 DEF Zones
  <2> QED BY <1>3, <1>14, <1>15, <1>16, <2>1 DEF Whole, Value
<1>18. StatementsRight'
  BY <1>1, <1>5, <1>17, WholeReached
<1>19. TypesRight'
  <2>1. at' \in 0..Len(code')
    BY <1>1, <1>2, <1>5, <1>7 DEF TypesRight
  <2> QED BY <1>1, <1>2, <1>5, <1>7, <2>1, TypesReached DEF Phases, TypesRight
<1>20. LocalsRight'
  <2>1. func'.kind \in ConstructorKinds /\ func'.kind \notin {"assignment", "destructor", "none"}
    BY <1>1, <1>3 DEF ConstructorKinds
  <2> HIDE DEF Null, Undefined
  <2> QED BY <1>1, <2>1 DEF LocalsRight, Translating
<1> QED BY <1>18, <1>19, <1>20 DEF SInv

-----------------------------------------------------------------------------
(***************************************************************************)
(* What the user has written, and the beginning of the translation.        *)
(***************************************************************************)
LEMMA MinOfOne == ASSUME NEW m \in Nat PROVE Min({m}) = m
<1> DEFINE P(x) == x \in {m} /\ \A y \in {m} : x <= y
<1>1. P(m) /\ \A x : P(x) => x = m
  OBVIOUS
<1>2. Min({m}) = CHOOSE x : P(x)
  BY DEF Min
<1> QED BY <1>1, <1>2

\* A list and n more, none or one.
Joined(s, o, x, n) ==
    /\ Len(s \o o) = Len(s) + n
    /\ \A k \in 1..Len(s) : (s \o o)[k] = s[k]
    /\ n = 1 => (s \o o)[Len(s) + 1] = x

LEMMA OneMore ==
    ASSUME NEW T, NEW s \in Seq(T), NEW o \in Seq(T), NEW x, NEW n \in 0..1,
           Len(o) = n, n = 1 => o[1] = x
    PROVE  s \o o \in Seq(T) /\ Joined(s, o, x, n)
<1>1. Len(s) \in Nat /\ s \o o \in Seq(T) /\ Len(s \o o) = Len(s) + n
  OBVIOUS
<1>2. \A k \in 1..Len(s) : (s \o o)[k] = s[k]
  OBVIOUS
<1>3. n = 1 => (s \o o)[Len(s) + 1] = x
  OBVIOUS
<1> QED BY <1>1, <1>2, <1>3 DEF Joined

\* Where the initialisers, the catch clause, the body and the return are.
LEMMA WrittenRight ==
    ASSUME TypesRight, func.kind \in ConstructorKinds, NEW c, c = Written(func)
    PROVE  \E catch, body \in 0..1 :
           /\ (func.try <=> catch = 1) /\ (func.kind = "user" <=> body = 1)
           /\ c \in Seq(Statement) /\ Len(c) = First + catch + body + 1
           /\ c[1] = Nop
           /\ First = 2 => c[2] = Stmt("EXPRESSION", <<"ctorinit">>)
           /\ catch = 1 => c[First + 1] = Stmt("BEGINCATCH", <<"nothing">>)
           /\ body = 1 => c[First + catch + 1] = Stmt("EXPRESSION", <<"body">>)
           /\ c[First + catch + body + 1] = Stmt("RETURN", <<"nothing">>)
<1> DEFINE init == Stmt("EXPRESSION", <<"ctorinit">>)
           begin == Stmt("BEGINCATCH", <<"nothing">>)
           stmt == Stmt("EXPRESSION", <<"body">>)
           return == Stmt("RETURN", <<"nothing">>)
           o2 == IF func.chain = {} THEN <<>> ELSE <<init>>
           o3 == IF func.try THEN <<begin>> ELSE <<>>
           o4 == IF func.kind = "user" THEN <<stmt>> ELSE <<>>
           o5 == <<return>>
           s1 == <<Nop>>
           s2 == s1 \o o2
           s3 == s2 \o o3
           s4 == s3 \o o4
           s5 == s4 \o o5
<1>1. c = s5
  <2>1. func.kind # "assignment"
    BY DEF ConstructorKinds
  <2> QED BY <2>1 DEF Written, Nop
<1>2. init \in Statement /\ begin \in Statement /\ stmt \in Statement /\ return \in Statement /\ Nop \in Statement
  <2>1. /\ <<"ctorinit">> \in Expr /\ <<"nothing">> \in Expr /\ <<"body">> \in Expr
        /\ "EXPRESSION" \in Types /\ "BEGINCATCH" \in Types /\ "RETURN" \in Types
    BY ExprTypes DEF Words, Types
  <2> QED BY <2>1, StatementTypes
<1> HIDE DEF init, begin, stmt, return
<1>3. PICK l, catch, body : /\ l = (IF func.chain = {} THEN 0 ELSE 1)
                            /\ catch = (IF func.try THEN 1 ELSE 0)
                            /\ body = (IF func.kind = "user" THEN 1 ELSE 0)
  OBVIOUS
<1>4. /\ l \in 0..1 /\ catch \in 0..1 /\ body \in 0..1 /\ First = 1 + l
      /\ (func.try <=> catch = 1) /\ (func.kind = "user" <=> body = 1)
  BY <1>3 DEF TypesRight, First
<1>5. /\ o2 \in Seq(Statement) /\ Len(o2) = l /\ (l = 1 => o2[1] = init)
      /\ o3 \in Seq(Statement) /\ Len(o3) = catch /\ (catch = 1 => o3[1] = begin)
      /\ o4 \in Seq(Statement) /\ Len(o4) = body /\ (body = 1 => o4[1] = stmt)
      /\ o5 \in Seq(Statement) /\ Len(o5) = 1 /\ o5[1] = return
      /\ s1 \in Seq(Statement) /\ Len(s1) = 1 /\ s1[1] = Nop
  <2>1. o2 \in Seq(Statement) /\ Len(o2) = l /\ (l = 1 => o2[1] = init)
    BY <1>2, <1>3
  <2>2. o3 \in Seq(Statement) /\ Len(o3) = catch /\ (catch = 1 => o3[1] = begin)
    BY <1>2, <1>3
  <2>3. o4 \in Seq(Statement) /\ Len(o4) = body /\ (body = 1 => o4[1] = stmt)
    BY <1>2, <1>3
  <2>4. o5 \in Seq(Statement) /\ Len(o5) = 1 /\ o5[1] = return
    BY <1>2
  <2>5. s1 \in Seq(Statement) /\ Len(s1) = 1 /\ s1[1] = Nop
    BY <1>2
  <2> QED BY <2>1, <2>2, <2>3, <2>4, <2>5
<1> HIDE DEF o2, o3, o4, o5, s1
<1>6. s2 \in Seq(Statement) /\ Joined(s1, o2, init, l)
  BY <1>4, <1>5, OneMore
<1>7. /\ s2 \in Seq(Statement) /\ Len(s2) = First
      /\ s2[1] = Nop /\ (First = 2 => s2[2] = init)
  BY <1>4, <1>5, <1>6 DEF Joined
<1>8. s3 \in Seq(Statement) /\ Joined(s2, o3, begin, catch)
  <2> HIDE DEF s2
  <2> QED BY <1>4, <1>5, <1>7, OneMore
<1>9. /\ s3 \in Seq(Statement) /\ Len(s3) = First + catch
      /\ \A k \in 1..First : s3[k] = s2[k]
      /\ catch = 1 => s3[First + 1] = begin
  <2> HIDE DEF s2
  <2> QED BY <1>7, <1>8 DEF Joined
<1>10. s4 \in Seq(Statement) /\ Joined(s3, o4, stmt, body)
  <2> HIDE DEF s3
  <2> QED BY <1>4, <1>5, <1>9, OneMore
<1>11. /\ s4 \in Seq(Statement) /\ Len(s4) = First + catch + body
       /\ \A k \in 1..First + catch : s4[k] = s3[k]
       /\ body = 1 => s4[First + catch + 1] = stmt
  <2> HIDE DEF s3
  <2> QED BY <1>9, <1>10 DEF Joined
<1>12. s5 \in Seq(Statement) /\ Joined(s4, o5, return, 1)
  <2> HIDE DEF s4
  <2> QED BY <1>4, <1>5, <1>11, OneMore
<1>13. /\ s5 \in Seq(Statement) /\ Len(s5) = First + catch + body + 1
       /\ \A k \in 1..First + catch + body : s5[k] = s4[k]
       /\ s5[First + catch + body + 1] = return
  <2> HIDE DEF s4
  <2> QED BY <1>11, <1>12 DEF Joined
<1> HIDE DEF s2, s3, s4, s5
<1>14. s5[1] = Nop /\ (First = 2 => s5[2] = init)
  <2>1. \A k \in 1..First : s5[k] = s2[k]
    BY <1>4, <1>9, <1>11, <1>13
  <2> QED BY <1>4, <1>7, <2>1
<1>15. catch = 1 => s5[First + 1] = begin
  BY <1>4, <1>9, <1>11, <1>13
<1>16. body = 1 => s5[First + catch + 1] = stmt
  BY <1>4, <1>11, <1>13
<1> QED BY <1>1, <1>4, <1>13, <1>14, <1>15, <1>16 DEF init, begin, stmt, return

\* CtorInit finds the statement of the initialisers.
LEMMA InitFound ==
    ASSUME TypesRight, func.kind \in ConstructorKinds, code = Written(func)
    PROVE  (IF CtorInit = 0 THEN 1 ELSE CtorInit) = First
<1> DEFINE I == { k \in 1..Len(code) : code[k].expr = <<"ctorinit">> }
<1>1. CtorInit = IF I # {} THEN Min(I) ELSE 0
  BY Zenon DEF CtorInit, SelectInSeq
<1>2. PICK catch, body \in 0..1 :
           /\ (func.try <=> catch = 1) /\ (func.kind = "user" <=> body = 1)
           /\ code \in Seq(Statement) /\ Len(code) = First + catch + body + 1
           /\ code[1] = Nop
           /\ First = 2 => code[2] = Stmt("EXPRESSION", <<"ctorinit">>)
           /\ catch = 1 => code[First + 1] = Stmt("BEGINCATCH", <<"nothing">>)
           /\ body = 1 => code[First + catch + 1] = Stmt("EXPRESSION", <<"body">>)
           /\ code[First + catch + body + 1] = Stmt("RETURN", <<"nothing">>)
  BY WrittenRight
<1>3. First \in 1..2
  BY Numbers
<1>4. \A t, e : Stmt(t, e).expr = e
  BY DEF Stmt
<1>5. /\ <<"nothing">> # <<"ctorinit">> /\ <<"body">> # <<"ctorinit">>
  OBVIOUS
<1>6. \A k \in 1..Len(code) : k # 2 \/ First = 1 => code[k].expr # <<"ctorinit">>
  <2> SUFFICES ASSUME NEW k \in 1..Len(code), k # 2 \/ First = 1
               PROVE  code[k].expr # <<"ctorinit">>
    OBVIOUS
  <2>1. CASE k = 1
    BY <1>2, <1>4, <1>5, <2>1 DEF Nop
  <2>2. CASE k # 1
    <3>1. \/ catch = 1 /\ k = First + 1
          \/ body = 1 /\ k = First + catch + 1
          \/ k = First + catch + body + 1
      BY <1>2, <1>3, <2>2
    <3> QED BY <1>2, <1>4, <1>5, <3>1
  <2> QED BY <2>1, <2>2
<1>7. CASE First = 1
  <2>1. I = {}
    BY <1>6, <1>7
  <2> QED BY <1>1, <1>7, <2>1
<1>8. CASE First = 2
  <2>1. 2 \in 1..Len(code) /\ code[2].expr = <<"ctorinit">>
    BY <1>2, <1>4, <1>8
  <2>2. I = {2}
    BY <1>6, <2>1
  <2>3. Min({2}) = 2
    BY MinOfOne
  <2> HIDE DEF I
  <2> QED BY <1>1, <1>8, <2>2, <2>3
<1> QED BY <1>3, <1>7, <1>8

Blank == [code EXCEPT ![First] = Nop]
WithNew == SubSeq(Blank, 1, First) \o NewCall \o SubSeq(Blank, First + 1, Len(Blank))

\* The head and the tail stand, with the allocation in between.
LEMMA HeadMade ==
    ASSUME TypesRight, func.kind \in ConstructorKinds, code = Written(func), NEW d, d = WithNew
    PROVE  /\ d \in Seq(Statement) /\ HeadRight(d, <<"nothing">>) /\ TailRight(d, HeadLen, <<"nothing">>)
           /\ \A k \in 1..HeadLen : d[k].type = "BEGINCATCH" <=> func.try /\ k = HeadLen
           /\ \A k \in HeadLen + 1 .. Len(d) : d[k].type # "BEGINCATCH"
           /\ HeadLen = First + Len(NewCall) + (IF func.try THEN 1 ELSE 0)
<1>1. PICK catch, body \in 0..1 :
           /\ (func.try <=> catch = 1) /\ (func.kind = "user" <=> body = 1)
           /\ code \in Seq(Statement) /\ Len(code) = First + catch + body + 1
           /\ code[1] = Nop
           /\ First = 2 => code[2] = Stmt("EXPRESSION", <<"ctorinit">>)
           /\ catch = 1 => code[First + 1] = Stmt("BEGINCATCH", <<"nothing">>)
           /\ body = 1 => code[First + catch + 1] = Stmt("EXPRESSION", <<"body">>)
           /\ code[First + catch + body + 1] = Stmt("RETURN", <<"nothing">>)
  BY WrittenRight
<1>2. PICK f : f = First
  OBVIOUS
<1>3. f \in 1..2 /\ HeadLen \in Nat /\ f <= HeadLen
  BY <1>2, Numbers
<1>4. /\ Blank \in Seq(Statement) /\ Len(Blank) = Len(code)
      /\ \A k \in 1..f : Blank[k] = Nop
      /\ \A k \in f + 1 .. Len(code) : Blank[k] = code[k]
  <2>1. f \in 1..Len(code) /\ Nop \in Statement
    BY <1>1, <1>2, <1>3, StatementTypes
  <2>2. Blank = [code EXCEPT ![f] = Nop]
    BY <1>2 DEF Blank
  <2>3. Blank \in Seq(Statement) /\ Len(Blank) = Len(code) /\ Blank[f] = Nop
        /\ \A k \in 1..Len(code) : k # f => Blank[k] = code[k]
    BY <1>1, <2>1, <2>2
  <2>4. \A k \in 1..f : Blank[k] = Nop
    BY <1>1, <1>3, <2>1, <2>3
  <2>5. \A k \in f + 1 .. Len(code) : Blank[k] = code[k]
    BY <1>3, <2>3
  <2> QED BY <2>3, <2>4, <2>5
<1>5. PICK n : n = Len(NewCall)
  OBVIOUS
<1>6. /\ NewCall \in Seq(Statement) /\ n \in Nat
      /\ cls.handle => /\ n = 4 /\ NewCall[1] = Jump(<<"this">>, "allocated")
                       /\ NewCall[2] = Jump(<<"new">>, "allocated")
                       /\ NewCall[3] = Stmt("RETURN", <<"nothing">>)
                       /\ NewCall[4] = Label("allocated")
      /\ ~cls.handle => n = 0
  <2>1. PICK a, b, r, l : /\ a = Jump(<<"this">>, "allocated") /\ b = Jump(<<"new">>, "allocated")
                          /\ r = Stmt("RETURN", <<"nothing">>) /\ l = Label("allocated")
    OBVIOUS
  <2>2. a \in Statement /\ b \in Statement /\ r \in Statement /\ l \in Statement
    <3>1. "this" \in Words /\ "new" \in Words /\ "allocated" \in Labels /\ "RETURN" \in Types
          /\ <<"nothing">> \in Expr
      BY ExprTypes DEF Words, Labels, Types
    <3> QED BY <2>1, <3>1, StatementTypes
  <2>3. NewCall = IF cls.handle THEN <<a, b, r, l>> ELSE <<>>
    BY <2>1 DEF NewCall
  <2> QED BY <1>5, <2>1, <2>2, <2>3
<1>7. d \in Seq(Statement) /\ Inserted(Blank, f, NewCall, d)
  <2>1. f \in 0..Len(Blank)
    BY <1>1, <1>2, <1>3, <1>4
  <2>2. d = SubSeq(Blank, 1, f) \o NewCall \o SubSeq(Blank, f + 1, Len(Blank))
    BY <1>2 DEF WithNew
  <2> QED BY <1>4, <1>6, <2>1, <2>2, InsertedBetween
<1>8. /\ Len(d) = f + catch + body + 1 + n
      /\ \A k \in 1..f : d[k] = Nop
      /\ \A k \in 1..n : d[f + k] = NewCall[k]
      /\ \A k \in f + 1 .. f + catch + body + 1 : d[k + n] = code[k]
  <2>1. \A k \in 1..f : d[k] = Blank[k]
    BY <1>7 DEF Inserted, SameTo
  <2> QED BY <1>1, <1>2, <1>4, <1>5, <1>7, <2>1 DEF Inserted
<1>9. HeadLen = f + n + catch
  <2>1. catch = IF func.try THEN 1 ELSE 0
    BY <1>1
  <2>2. n = IF cls.handle THEN 4 ELSE 0
    BY <1>6
  <2> QED BY <1>2, <2>1, <2>2 DEF HeadLen
<1>10. TailLen = body + 1
  BY <1>1 DEF TailLen
<1>11. /\ catch = 1 => d[HeadLen] = Stmt("BEGINCATCH", <<"nothing">>)
       /\ body = 1 => d[HeadLen + 1] = Stmt("EXPRESSION", <<"body">>)
       /\ d[HeadLen + body + 1] = Stmt("RETURN", <<"nothing">>)
  <2>1. catch = 1 => f + 1 \in f + 1 .. f + catch + body + 1 /\ f + 1 + n = HeadLen
    BY <1>3, <1>6, <1>9
  <2>2. body = 1 => f + catch + 1 \in f + 1 .. f + catch + body + 1 /\ f + catch + 1 + n = HeadLen + 1
    BY <1>3, <1>6, <1>9
  <2>3. f + catch + body + 1 \in f + 1 .. f + catch + body + 1 /\ f + catch + body + 1 + n = HeadLen + body + 1
    BY <1>3, <1>6, <1>9
  <2>4. catch = 1 => d[f + 1 + n] = code[f + 1]
    BY <1>8, <2>1
  <2>5. body = 1 => d[f + catch + 1 + n] = code[f + catch + 1]
    BY <1>8, <2>2
  <2>6. d[f + catch + body + 1 + n] = code[f + catch + body + 1]
    BY <1>8, <2>3
  <2> QED BY <1>1, <1>2, <2>1, <2>2, <2>3, <2>4, <2>5, <2>6
<1>12. HeadRight(d, <<"nothing">>)
  <2>1. func.try => d[HeadLen] = Stmt("BEGINCATCH", <<"nothing">>)
    BY <1>1, <1>11
  <2>2. cls.handle => /\ d[First + 1] = Jump(<<"this">>, "allocated")
                      /\ d[First + 2] = Jump(<<"new">>, "allocated")
                      /\ d[First + 3] = Stmt("RETURN", <<"nothing">>)
                      /\ d[First + 4] = Label("allocated")
    BY <1>2, <1>6, <1>8
  <2> QED BY <1>2, <1>8, <2>1, <2>2 DEF HeadRight
<1>13. TailRight(d, HeadLen, <<"nothing">>)
  <2>1. Len(d) = HeadLen + TailLen
    BY <1>3, <1>6, <1>8, <1>9, <1>10
  <2>2. HeadLen + TailLen = HeadLen + body + 1
    BY <1>3, <1>10
  <2> QED BY <1>1, <1>11, <2>1, <2>2 DEF TailRight
<1>14. ASSUME NEW k \in 1..HeadLen PROVE d[k].type = "BEGINCATCH" <=> func.try /\ k = HeadLen
  <2>1. \A t, e : Stmt(t, e).type = t /\ Jump(e, t).type = "IFGOTO" /\ Label(t).type = "LABEL"
    BY DEF Stmt, Jump, Label
  <2>2. CASE k \in 1..f
    <3>1. d[k].type = "NOP" /\ (func.try => k # HeadLen)
      BY <1>1, <1>3, <1>6, <1>8, <1>9, <2>1, <2>2 DEF Nop
    <3> QED BY <3>1
  <2>3. CASE k \in f + 1 .. f + n
    <3>1. n = 4 /\ cls.handle /\ k \in {f + 1, f + 2, f + 3, f + 4} /\ (func.try => k # HeadLen)
      BY <1>1, <1>3, <1>6, <1>9, <2>3
    <3>2. d[k].type \in {"IFGOTO", "RETURN", "LABEL"}
      BY <1>6, <1>8, <2>1, <3>1
    <3> QED BY <3>1, <3>2
  <2>4. CASE k = f + n + 1 /\ catch = 1
    BY <1>1, <1>9, <1>11, <2>1, <2>4
  <2> QED BY <1>3, <1>6, <1>9, <2>2, <2>3, <2>4
<1>15. ASSUME NEW k \in HeadLen + 1 .. Len(d) PROVE d[k].type # "BEGINCATCH"
  <2>1. \A t, e : Stmt(t, e).type = t
    BY DEF Stmt
  <2>2. k = HeadLen + body + 1 \/ (body = 1 /\ k = HeadLen + 1)
    BY <1>3, <1>6, <1>8, <1>9
  <2> QED BY <1>11, <2>1, <2>2
<1>16. HeadLen = First + Len(NewCall) + (IF func.try THEN 1 ELSE 0)
  <2>1. catch = IF func.try THEN 1 ELSE 0
    BY <1>1
  <2> QED BY <1>2, <1>5, <1>9, <2>1
<1> QED BY <1>7, <1>12, <1>13, <1>14, <1>15, <1>16

LEMMA CatchFound ==
    ASSUME func.try, NEW d \in Seq(Statement), HeadLen \in 1..Len(d),
           \A k \in 1..HeadLen : d[k].type = "BEGINCATCH" <=> func.try /\ k = HeadLen,
           \A k \in HeadLen + 1 .. Len(d) : d[k].type # "BEGINCATCH"
    PROVE  SelectInSeq(d, LAMBDA s : s.type = "BEGINCATCH") = HeadLen
<1> DEFINE I == { k \in 1..Len(d) : d[k].type = "BEGINCATCH" }
<1>1. SelectInSeq(d, LAMBDA s : s.type = "BEGINCATCH") = IF I # {} THEN Min(I) ELSE 0
  BY Zenon DEF SelectInSeq
<1>2. I = {HeadLen}
  <2>1. \A k \in 1..Len(d) : k \in 1..HeadLen \/ k \in HeadLen + 1 .. Len(d)
    OBVIOUS
  <2>2. HeadLen \in I
    OBVIOUS
  <2>3. \A k \in I : k = HeadLen
    BY <2>1
  <2> QED BY <2>2, <2>3
<1>3. Min({HeadLen}) = HeadLen
  BY MinOfOne
<1> HIDE DEF I
<1> QED BY <1>1, <1>2, <1>3

LEMMA PrologueStep == ASSUME SInv, Prologue PROVE SInv'
<1>1. /\ phase = "prologue" /\ UNCHANGED <<cls, func, vbase, cleanup>>
      /\ expr' = IF cls.handle THEN <<"new">> ELSE expr
      /\ IF cls.vbases # <<>> THEN phase' = "guard" /\ i' = 1 ELSE phase' = "bases" /\ i' = 1
  BY DEF Prologue, Goto
<1>2. /\ TypesRight /\ func.kind \in ConstructorKinds /\ code = Written(func) /\ cleanup = <<>>
      /\ vbase = Undefined /\ expr = Undefined
  BY <1>1 DEF SInv, LocalsRight
<1>3. HeadLen \in Nat /\ First \in Nat /\ NV \in Nat /\ TailLen \in 1..2 /\ First \in 1..2
  BY <1>2, Numbers
<1>4. PICK d, m : d = code' /\ m = at'
  OBVIOUS
<1>5. d = WithNew
  <2>1. (IF CtorInit = 0 THEN 1 ELSE CtorInit) = First
    BY <1>2, InitFound
  <2> QED BY <1>4, <2>1, Zenon DEF Prologue, WithNew, Blank, Nop
<1>6. /\ d \in Seq(Statement) /\ HeadRight(d, <<"nothing">>) /\ TailRight(d, HeadLen, <<"nothing">>)
      /\ \A k \in 1..HeadLen : d[k].type = "BEGINCATCH" <=> func.try /\ k = HeadLen
      /\ \A k \in HeadLen + 1 .. Len(d) : d[k].type # "BEGINCATCH"
      /\ HeadLen = First + Len(NewCall) + (IF func.try THEN 1 ELSE 0)
  BY <1>2, <1>5, HeadMade
<1>7. m = HeadLen
  <2>1. (IF CtorInit = 0 THEN 1 ELSE CtorInit) = First
    BY <1>2, InitFound
  <2>2. m = IF func.try THEN SelectInSeq(WithNew, LAMBDA s : s.type = "BEGINCATCH") ELSE First + Len(NewCall)
    BY <1>4, <2>1, Zenon DEF Prologue, WithNew, Blank, Nop
  <2>3. CASE func.try
    <3>1. First <= HeadLen /\ Len(d) = HeadLen + TailLen
      BY <1>2, <1>6, Numbers DEF TailRight
    <3>2. HeadLen \in 1..Len(d)
      BY <1>3, <3>1
    <3>3. SelectInSeq(d, LAMBDA s : s.type = "BEGINCATCH") = HeadLen
      BY <1>6, <2>3, <3>2, CatchFound
    <3> QED BY <1>5, <2>2, <2>3, <3>3
  <2>4. CASE ~func.try
    <3>1. HeadLen = First + Len(NewCall) + 0
      BY <1>6, <2>4
    <3>2. Len(NewCall) \in Nat
      <4>1. NewCall = <<>> \/ \E a, b, c, e : NewCall = <<a, b, c, e>>
        BY DEF NewCall
      <4> QED BY <4>1
    <3>3. HeadLen = First + Len(NewCall)
      BY <1>3, <3>1, <3>2
    <3> QED BY <2>2, <2>4, <3>3
  <2> QED BY <2>3, <2>4
<1>8. Zones(phase', 1, d, m)
  <2>1. CASE cls.vbases # <<>>
    <3>1. NV > 0
      BY <1>2, <2>1 DEF TypesRight, NV
    <3> QED BY <1>1, <1>7, <2>1, <3>1 DEF Zones
  <2>2. CASE cls.vbases = <<>>
    <3>1. NV = 0
      BY <2>2 DEF NV
    <3>2. HeadLen + 1 .. HeadLen = {}
      BY <1>3
    <3>3. VirtualsRight(d, HeadLen) /\ BaseZone(d, HeadLen, HeadLen, 1)
      <4>1. OthersBefore(1) = {}
        BY DEF OthersBefore
      <4>2. HeadLen = HeadLen + Cardinality(OthersBefore(1))
        BY <1>3, <4>1, FS_EmptySet
      <4> QED BY <1>3, <3>1, <3>2, <4>2 DEF VirtualsRight, BaseZone
    <3> QED BY <1>1, <1>3, <1>7, <2>2, <3>3 DEF Zones
  <2> QED BY <2>1, <2>2
<1>9. Whole(phase', 1, d, m, <<>>)
  <2>1. CleanupRight(d, m, <<>>)
    BY DEF CleanupRight
  <2>2. Value(phase') = <<"nothing">>
    BY <1>1 DEF Value
  <2> QED BY <1>3, <1>6, <1>7, <1>8, <2>1, <2>2 DEF Whole
<1>10. StatementsRight'
  <2>1. cleanup' = <<>> /\ i' = 1
    BY <1>1, <1>2
  <2> QED BY <1>1, <1>4, <1>9, <2>1, WholeReached
<1>11. TypesRight'
  <2>1. m \in 0..Len(d)
    BY <1>3, <1>6, <1>7 DEF TailRight
  <2>2. cleanup' \in Seq(Registered) /\ phase' \in Phases /\ i' \in Nat
    BY <1>1, <1>2 DEF Phases, TypesRight
  <2> QED BY <1>1, <1>2, <1>4, <1>6, <2>1, <2>2, TypesReached
<1>12. LocalsRight'
  <2>1. (phase = "bases" => ExprRight(expr))'
    <3> SUFFICES ASSUME cls.vbases = <<>> PROVE ExprRight(expr)'
      BY <1>1
    <3> HIDE DEF Null, Undefined
    <3> QED BY <1>1, <1>2 DEF ExprRight, Reallocates, Values
  <2>2. func'.kind \in ConstructorKinds /\ func'.kind \notin {"assignment", "destructor", "none"}
    BY <1>1, <1>2 DEF ConstructorKinds
  <2>3. phase' \in {"guard", "bases"} /\ i' = 1
    BY <1>1
  <2>4. 1 \in 1..Len(cls'.bases) + 1
    BY <1>1, <1>2 DEF TypesRight
  <2> HIDE DEF Null, Undefined
  <2> QED BY <2>1, <2>2, <2>3, <2>4 DEF LocalsRight, Translating
<1> QED BY <1>10, <1>11, <1>12 DEF SInv

-----------------------------------------------------------------------------
(***************************************************************************)
(* The assignment operator and the destructor.                             *)
(***************************************************************************)
Plain(s) == s \in Seq(Statement) /\ \A k \in DOMAIN s : s[k].type # "IFGOTO"

LEMMA PlainStep ==
    ASSUME SInv, func.kind \in {"assignment", "destructor"}, UNCHANGED <<cls, func, cleanup>>,
           NEW s, Plain(s), Insert(s), phase' \in {"assignment", "destructor", "generate"}, i' \in Nat \ {0},
           phase' = "generate" \/ phase' = func.kind,
           phase' = "assignment" => vbase' = Undefined \/ \E k \in Nat : vbase' = <<"vbase", k>>
    PROVE  SInv'
<1>1. TypesRight /\ at > 0 /\ cleanup = <<>> /\ \A k \in DOMAIN code : code[k].type # "IFGOTO"
  BY DEF SInv, LocalsRight
<1>2. s \in Seq(Statement) /\ code \in Seq(Statement) /\ at \in 0..Len(code)
      /\ Len(s) \in Nat /\ Len(code) \in Nat /\ at \in Nat
  BY <1>1 DEF Plain, TypesRight
<1>3. PICK d, m : d = code' /\ m = at'
  OBVIOUS
<1>4. d \in Seq(Statement) /\ m = at + Len(s) /\ m \in 0..Len(d) /\ Inserted(code, at, s, d)
  BY <1>2, <1>3, InsertStep
<1>5. Len(d) = Len(code) + Len(s)
  BY <1>4 DEF Inserted
<1>6. ASSUME NEW k \in 1..Len(d) PROVE d[k].type # "IFGOTO"
  <2>1. CASE k \in 1..at
    BY <1>1, <1>2, <1>4, <2>1 DEF Inserted, SameTo
  <2>2. CASE k \in at + 1 .. at + Len(s)
    <3>1. k - at \in 1..Len(s) /\ at + (k - at) = k
      BY <1>2, <2>2
    <3>2. d[k] = s[k - at]
      BY <1>4, <3>1 DEF Inserted
    <3> QED BY <1>2, <3>1, <3>2 DEF Plain
  <2>3. CASE k \in at + Len(s) + 1 .. Len(d)
    <3>1. k - Len(s) \in at + 1 .. Len(code) /\ k - Len(s) \in 1..Len(code) /\ (k - Len(s)) + Len(s) = k
      BY <1>2, <1>5, <2>3
    <3>2. d[k] = code[k - Len(s)]
      BY <1>4, <3>1 DEF Inserted
    <3> QED BY <1>1, <1>2, <3>1, <3>2
  <2> QED BY <1>2, <1>5, <2>1, <2>2, <2>3
<1>7. TypesRight'
  <2>1. cleanup' \in Seq(Registered) /\ phase' \in Phases
    BY <1>1 DEF Phases, TypesRight
  <2> QED BY <1>1, <1>3, <1>4, <2>1, TypesReached
<1>8. StatementsRight'
  BY DEF StatementsRight, Constructing, ConstructorKinds
<1>9. LocalsRight'
  <2>1. m > 0 /\ at' > 0
    BY <1>1, <1>2, <1>3, <1>4
  <2>2. \A k \in DOMAIN code' : code'[k].type # "IFGOTO"
    BY <1>3, <1>4, <1>6
  <2> HIDE DEF Null, Undefined
  <2> QED BY <1>1, <2>1, <2>2 DEF LocalsRight, Translating
<1> QED BY <1>7, <1>8, <1>9 DEF SInv

LEMMA PlainJoined ==
    ASSUME NEW s, NEW u, Plain(s), Plain(u)
    PROVE  Plain(s \o u)
<1>1. s \in Seq(Statement) /\ u \in Seq(Statement)
  BY DEF Plain
<1>2. /\ s \o u \in Seq(Statement) /\ Len(s \o u) = Len(s) + Len(u)
      /\ \A k \in 1..Len(s) : (s \o u)[k] = s[k]
      /\ \A k \in 1..Len(u) : (s \o u)[Len(s) + k] = u[k]
  BY <1>1
<1>3. ASSUME NEW k \in 1..Len(s) + Len(u) PROVE (s \o u)[k].type # "IFGOTO"
  <2>1. CASE k \in 1..Len(s)
    BY <1>1, <1>2, <2>1 DEF Plain
  <2>2. CASE k \notin 1..Len(s)
    <3>1. Len(s) \in Nat /\ Len(u) \in Nat
      BY <1>1
    <3>2. k - Len(s) \in 1..Len(u) /\ Len(s) + (k - Len(s)) = k
      BY <2>2, <3>1
    <3>3. (s \o u)[k] = u[k - Len(s)]
      BY <1>2, <3>2
    <3> QED BY <1>1, <3>2, <3>3 DEF Plain
  <2> QED BY <2>1, <2>2
<1> QED BY <1>2, <1>3 DEF Plain

LEMMA PlainStatements ==
    /\ Plain(<<>>) /\ Plain(Expression(Null)) /\ Plain(Expression(<<"garbage">>))
    /\ \A k \in Nat : Plain(Expression(<<"assigned", k>>))
    /\ Plain(<<Stmt("EXPRESSION", <<"destroyed">>)>>)
    /\ Plain(<<Stmt("EXPRESSION", <<"copies">>), Stmt("RETURN", <<"this">>)>>)
    /\ Plain(<<Stmt("EXPRESSION", <<"assigned">>)>>)
    /\ Plain(<<Stmt("RETURN", <<"this">>)>>)
<1>1. /\ {"garbage", "destroyed", "copies", "this", "assigned"} \subseteq Words
      /\ "assigned" \in Parts /\ "EXPRESSION" \in Types /\ "RETURN" \in Types
  BY DEF Words, Parts, Types
<1>2. Plain(<<>>)
  BY DEF Plain
<1>3. ASSUME NEW t \in {"EXPRESSION", "RETURN"}, NEW e \in Expr
      PROVE  Stmt(t, e) \in Statement /\ Stmt(t, e).type # "IFGOTO"
  <2>1. Stmt(t, e) \in Statement
    BY <1>1, StatementTypes
  <2> QED BY <2>1 DEF Stmt
<1>4. ASSUME NEW s, s \in Statement, s.type # "IFGOTO" PROVE Plain(<<s>>)
  BY <1>4 DEF Plain
<1>5. ASSUME NEW s, s \in Statement, s.type # "IFGOTO", NEW u, u \in Statement, u.type # "IFGOTO"
      PROVE  Plain(<<s, u>>)
  <2>1. <<s, u>> \in Seq(Statement) /\ DOMAIN <<s, u>> = 1..2
    BY <1>5
  <2> QED BY <1>5, <2>1 DEF Plain
<1>6. ASSUME NEW e \in Expr PROVE Plain(Expression(e))
  <2>1. CASE e = Null
    BY <1>2, <2>1 DEF Expression
  <2>2. CASE e # Null
    <3>1. Expression(e) = <<Stmt("EXPRESSION", e)>>
      BY <2>2 DEF Expression
    <3> QED BY <1>3, <1>4, <3>1
  <2> QED BY <2>1, <2>2
<1>7. /\ Null \in Expr /\ <<"garbage">> \in Expr /\ \A k \in Nat : <<"assigned", k>> \in Expr
      /\ <<"destroyed">> \in Expr /\ <<"copies">> \in Expr /\ <<"this">> \in Expr /\ <<"assigned">> \in Expr
  BY <1>1, ExprTypes
<1> HIDE DEF Null
<1> QED BY <1>2, <1>3, <1>4, <1>5, <1>6, <1>7

LEMMA BaseSame ==
    ASSUME TypesRight, i \in 1..Len(cls.bases)
    PROVE  cls.bases[i].same \in Nat
<1>1. cls.bases[i] \in UNION { Bases(n) : n \in Nat }
  BY DEF TypesRight
<1>2. PICK n \in Nat : cls.bases[i] \in Bases(n)
  BY <1>1
<1> QED BY <1>2 DEF Bases

LEMMA AssignWholeStep == ASSUME SInv, AssignWhole PROVE SInv'
<1>1. /\ phase = "assignment" /\ phase' = "generate" /\ i' = 1
      /\ UNCHANGED <<cls, func, vbase, expr, cleanup>>
  BY DEF AssignWhole, Goto
<1>2. /\ func.kind = "assignment" /\ (vbase = Undefined \/ \E k \in Nat : vbase = <<"vbase", k>>)
  BY <1>1 DEF SInv, LocalsRight
<1>3. PICK sized \in BOOLEAN :
          Insert((IF sized THEN <<Stmt("EXPRESSION", <<"assigned">>)>> ELSE <<>>)
                 \o <<Stmt("RETURN", <<"this">>)>>)
  BY DEF AssignWhole
<1> DEFINE s == (IF sized THEN <<Stmt("EXPRESSION", <<"assigned">>)>> ELSE <<>>)
                \o <<Stmt("RETURN", <<"this">>)>>
<1>4. Plain(s)
  <2>1. PICK a, r : a = Stmt("EXPRESSION", <<"assigned">>) /\ r = Stmt("RETURN", <<"this">>)
    OBVIOUS
  <2>2. CASE sized
    <3>1. s = <<a>> \o <<r>>
      BY <2>1, <2>2
    <3>2. Plain(<<a>>) /\ Plain(<<r>>)
      BY <2>1, PlainStatements
    <3> QED BY <3>1, <3>2, PlainJoined
  <2>3. CASE ~sized
    <3>1. s = <<>> \o <<r>>
      BY <2>1, <2>3
    <3>2. Plain(<<r>>)
      BY <2>1, PlainStatements
    <3>3. Plain(<<>>)
      BY PlainStatements
    <3> QED BY <3>1, <3>2, <3>3, PlainJoined
  <2> QED BY <2>2, <2>3
<1> HIDE DEF Undefined
<1>5. Insert(s)
  BY <1>3
<1> HIDE DEF s
<1> QED BY <1>1, <1>2, <1>4, <1>5, PlainStep

LEMMA AssignVirtualStep == ASSUME SInv, AssignVirtual PROVE SInv'
<1>1. /\ phase = "assignment" /\ phase' = "assignment" /\ i' = i + 1
      /\ UNCHANGED <<cls, func, vbase, cleanup>>
  BY DEF AssignVirtual, Goto
<1>2. /\ func.kind = "assignment" /\ (vbase = Undefined \/ \E k \in Nat : vbase = <<"vbase", k>>)
      /\ i' \in Nat \ {0}
  BY <1>1 DEF SInv, LocalsRight, TypesRight
<1>3. \E e : Insert(Expression(e)) /\ Plain(Expression(e))
  <2>1. CASE vbase = Undefined
    <3>1. PICK e \in {Null, <<"garbage">>} : Insert(Expression(e))
      <4> HIDE DEF Null, Undefined
      <4> QED BY <2>1 DEF AssignVirtual, Leftover
    <3> HIDE DEF Null
    <3> QED BY <3>1, PlainStatements
  <2>2. CASE vbase # Undefined
    <3>1. PICK k \in Nat : vbase = <<"vbase", k>>
      BY <1>2, <2>2
    <3>2. expr' \in {Null, <<"assigned", vbase[2]>>} /\ Insert(Expression(expr'))
      <4> HIDE DEF Null, Undefined
      <4> QED BY <2>2 DEF AssignVirtual
    <3>3. expr' = Null \/ expr' = <<"assigned", k>>
      BY <3>1, <3>2
    <3> HIDE DEF Null
    <3> QED BY <3>2, <3>3, PlainStatements
  <2> QED BY <2>1, <2>2
<1>4. PICK e : Insert(Expression(e)) /\ Plain(Expression(e))
  BY <1>3
<1> HIDE DEF Undefined
<1> QED BY <1>1, <1>2, <1>4, PlainStep

LEMMA AssignOtherStep == ASSUME SInv, AssignOther PROVE SInv'
<1>1. /\ phase = "assignment" /\ phase' = "assignment" /\ i' = i + 1
      /\ vbase' = <<"vbase", cls.bases[i].same>> /\ i <= Len(cls.bases)
      /\ expr' \in {Null, <<"assigned", cls.bases[i].same>>} /\ Insert(Expression(expr'))
      /\ UNCHANGED <<cls, func, cleanup>>
  BY DEF AssignOther, Goto
<1>2. func.kind = "assignment" /\ i' \in Nat \ {0} /\ TypesRight
  BY <1>1 DEF SInv, LocalsRight, TypesRight
<1>3. cls.bases[i].same \in Nat
  <2>1. i \in 1..Len(cls.bases)
    BY <1>1, <1>2 DEF SInv, LocalsRight, TypesRight
  <2> QED BY <1>2, <2>1, BaseSame
<1>4. Plain(Expression(expr'))
  <2> HIDE DEF Null
  <2> QED BY <1>1, <1>3, PlainStatements
<1>5. \E k \in Nat : vbase' = <<"vbase", k>>
  BY <1>1, <1>3
<1> HIDE DEF Undefined
<1> QED BY <1>1, <1>2, <1>4, <1>5, PlainStep

LEMMA AssignDoneStep == ASSUME SInv, AssignDone PROVE SInv'
<1> DEFINE s == <<Stmt("EXPRESSION", <<"copies">>), Stmt("RETURN", <<"this">>)>>
<1>1. /\ phase = "assignment" /\ phase' = "generate" /\ i' = 1 /\ Insert(s)
      /\ UNCHANGED <<cls, func, vbase, expr, cleanup>>
  BY DEF AssignDone, Goto
<1>2. /\ func.kind = "assignment" /\ (vbase = Undefined \/ \E k \in Nat : vbase = <<"vbase", k>>)
  BY <1>1 DEF SInv, LocalsRight
<1>3. Plain(s)
  BY PlainStatements
<1> HIDE DEF Undefined, s
<1> QED BY <1>1, <1>2, <1>3, PlainStep


LEMMA DestructorStep == ASSUME SInv, Destructor PROVE SInv'
<1> DEFINE s == <<Stmt("EXPRESSION", <<"destroyed">>)>>
<1>1. /\ phase = "destructor" /\ phase' = "generate" /\ i' = 1 /\ Insert(s)
      /\ UNCHANGED <<cls, func, vbase, expr, cleanup>>
  BY DEF Destructor, Goto
<1>2. func.kind = "destructor"
  BY <1>1 DEF SInv, LocalsRight
<1>3. Plain(s)
  BY PlainStatements
<1> HIDE DEF Undefined, s
<1> QED BY <1>1, <1>2, <1>3, PlainStep

-----------------------------------------------------------------------------
(***************************************************************************)
(* Between two functions, and at the beginning of one.                     *)
(***************************************************************************)
LEMMA NothingTypes ==
    ASSUME cls' = NoClass, func' = NoFunction, code' = <<>>, at' = 0, cleanup' = <<>>,
           phase' = "idle", i' = 1
    PROVE  SInv'
<1>1. TypesRight'
  <2>1. /\ cls'.vbases = <<>> /\ cls'.bases = <<>> /\ cls'.ivars = <<>>
        /\ cls'.handle = FALSE /\ cls'.vtable = FALSE
    BY DEF NoClass
  <2>2. func'.kind = "none" /\ func'.copy = FALSE /\ func'.try = FALSE /\ func'.chain = {}
    BY DEF NoFunction
  <2>3. /\ "idle" \in Phases /\ <<>> \in Seq(Statement) /\ 0 \in 0..Len(<<>>) /\ <<>> \in Seq(Registered)
        /\ <<>> \in Seq(Subs) /\ <<>> \in Seq(UNION { Bases(n) : n \in Nat }) /\ <<>> \in Seq(Members)
    BY DEF Phases
  <2> QED BY <2>1, <2>2, <2>3 DEF TypesRight
<1>2. StatementsRight'
  BY DEF StatementsRight, Constructing
<1>3. LocalsRight'
  BY DEF LocalsRight, Translating, NoFunction
<1> QED BY <1>1, <1>2, <1>3 DEF SInv

LEMMA GenerateLeaves == ASSUME SInv, Generate PROVE SInv'
BY NothingTypes DEF Generate, Goto, Nothing

LEMMA SInvUnchanged ==
    ASSUME SInv, UNCHANGED <<cls, func, i, code, at, vbase, expr, cleanup, phase>>
    PROVE  SInv'
<1>1. TypesRight'
  BY TypesReached DEF SInv, TypesRight
<1>2. StatementsRight'
  <2>1. CASE Constructing
    BY <2>1, WholeReached DEF SInv, StatementsRight
  <2>2. CASE ~Constructing
    BY <2>2 DEF StatementsRight, Constructing
  <2> QED BY <2>1, <2>2
<1>3. LocalsRight'
  <2>1. NV' = NV /\ Reallocates' = Reallocates /\ Values' = Values
    BY DEF NV, Reallocates, Values
  <2>2. ExprRight(expr)' <=> ExprRight(expr)
    BY <2>1 DEF ExprRight
  <2> HIDE DEF Null, Undefined
  <2> QED BY <2>1, <2>2 DEF SInv, LocalsRight, Translating
<1> QED BY <1>1, <1>2, <1>3 DEF SInv

LEMMA ElsewhereKeeps == ASSUME SInv, NEW state, Elsewhere(state) PROVE SInv'
<1>1. UNCHANGED <<cls, func, i, code, at, vbase, expr, cleanup, phase>>
  BY DEF Elsewhere, translation
<1> QED BY <1>1, SInvUnchanged

LEMMA ListTypes ==
    ASSUME NEW S, NEW n \in Int, NEW l \in Lists(S, n)
    PROVE  l \in Seq(S)
<1>1. PICK k \in 0..n : l \in [1..k -> S]
  BY DEF Lists
<1>2. k \in Nat
  OBVIOUS
<1> QED BY <1>1, <1>2

LEMMA ClassTypes ==
    ASSUME NEW c \in Classes
    PROVE  /\ c.vbases \in Seq(Subs) /\ c.bases \in Seq(UNION { Bases(n) : n \in Nat })
           /\ c.ivars \in Seq(Members) /\ c.handle \in BOOLEAN /\ c.vtable \in BOOLEAN
<1>1. PICK p : /\ p \in UNION { {vs} \X BaseLists(vs) : vs \in Lists(Subs, MaxParts) }
               /\ c \in { [handle |-> h, vtable |-> t, vbases |-> p[1], bases |-> p[2], ivars |-> ms] :
                            h, t \in BOOLEAN, ms \in Lists(Members, MaxParts - Len(p[1]) - Len(p[2])) }
  BY DEF Classes
<1>2. PICK vs \in Lists(Subs, MaxParts) : p \in {vs} \X BaseLists(vs)
  BY <1>1
<1>3. PICK bs \in BaseLists(vs) : p = <<vs, bs>>
  BY <1>2
<1>4. PICK h \in BOOLEAN, t \in BOOLEAN, ms \in Lists(Members, MaxParts - Len(vs) - Len(bs)) :
         c = [handle |-> h, vtable |-> t, vbases |-> vs, bases |-> bs, ivars |-> ms]
  BY <1>1, <1>3
<1>5. MaxParts \in Nat
  BY ConstructorsAssumption
<1>6. vs \in Seq(Subs) /\ Len(vs) \in Nat
  BY <1>5, ListTypes
<1>7. bs \in Seq(UNION { Bases(n) : n \in Nat })
  <2>1. bs \in Lists(Bases(Len(vs)), MaxParts - Len(vs))
    BY DEF BaseLists
  <2>2. bs \in Seq(Bases(Len(vs)))
    BY <1>5, <1>6, <2>1, ListTypes
  <2>3. Bases(Len(vs)) \subseteq UNION { Bases(n) : n \in Nat }
    BY <1>6
  <2> QED BY <2>2, <2>3
<1>8. ms \in Seq(Members)
  <2>1. Len(bs) \in Nat
    BY <1>7
  <2> QED BY <1>5, <1>6, <2>1, ListTypes
<1> QED BY <1>4, <1>6, <1>7, <1>8

LEMMA WrittenPlain ==
    ASSUME NEW f
    PROVE  Plain(Written(f)) /\ Len(Written(f)) >= 1
<1> DEFINE o2 == IF f.chain = {} THEN <<>> ELSE <<Stmt("EXPRESSION", <<"ctorinit">>)>>
           o3 == IF f.try THEN <<Stmt("BEGINCATCH", <<"nothing">>)>> ELSE <<>>
           o4 == IF f.kind = "user" THEN <<Stmt("EXPRESSION", <<"body">>)>> ELSE <<>>
           o5 == IF f.kind = "assignment" THEN <<>> ELSE <<Stmt("RETURN", <<"nothing">>)>>
           s1 == <<Nop>>
           s2 == s1 \o o2
           s3 == s2 \o o3
           s4 == s3 \o o4
           s5 == s4 \o o5
<1>1. Written(f) = s5
  BY DEF Written, Nop
<1>2. ASSUME NEW t \in {"NOP", "EXPRESSION", "BEGINCATCH", "RETURN"}, NEW w \in Words
      PROVE  Plain(<<Stmt(t, <<w>>)>>)
  <2>1. Stmt(t, <<w>>) \in Statement
    BY StatementTypes, ExprTypes DEF Types
  <2>2. Stmt(t, <<w>>).type # "IFGOTO"
    BY DEF Stmt
  <2> HIDE DEF Stmt
  <2> QED BY <2>1, <2>2 DEF Plain
<1>3. "nothing" \in Words /\ "ctorinit" \in Words /\ "body" \in Words
  BY DEF Words
<1>4. Plain(<<>>)
  BY PlainStatements
<1>5. Plain(o2) /\ Plain(o3) /\ Plain(o4) /\ Plain(o5) /\ Plain(s1)
  BY <1>2, <1>3, <1>4 DEF Nop
<1>6. Len(s1) = 1
  OBVIOUS
<1> HIDE DEF o2, o3, o4, o5, s1
<1>7. ASSUME NEW s, NEW u, Plain(s), Plain(u), Len(s) >= 1
      PROVE  Plain(s \o u) /\ Len(s \o u) >= 1
  <2>1. s \in Seq(Statement) /\ u \in Seq(Statement) /\ Len(s) \in Nat /\ Len(u) \in Nat
    BY <1>7 DEF Plain
  <2>2. Len(s \o u) = Len(s) + Len(u)
    BY <2>1
  <2> QED BY <1>7, <2>1, <2>2, PlainJoined
<1>8. Plain(s2) /\ Len(s2) >= 1
  BY <1>5, <1>6, <1>7
<1> HIDE DEF s2
<1>9. Plain(s3) /\ Len(s3) >= 1
  BY <1>5, <1>7, <1>8
<1> HIDE DEF s3
<1>10. Plain(s4) /\ Len(s4) >= 1
  BY <1>5, <1>7, <1>9
<1> HIDE DEF s4
<1>11. Plain(s5) /\ Len(s5) >= 1
  BY <1>5, <1>7, <1>10
<1> QED BY <1>1, <1>11

LEMMA StartMakes ==
    ASSUME NEW c \in Classes, NEW f, NEW p, Start(c, f, p),
           f.copy \in BOOLEAN, f.try \in BOOLEAN,
           f.kind \in ConstructorKinds \cup {"assignment", "destructor"},
           f.kind # "user" => f.chain = {} /\ ~f.try,
           p = IF f.kind \in ConstructorKinds THEN "prologue" ELSE f.kind
    PROVE  SInv'
<1>1. /\ cls' = c /\ func' = f /\ code' = Written(f) /\ at' = 1
      /\ vbase' = Undefined /\ expr' = Undefined /\ cleanup' = <<>> /\ phase' = p /\ i' = 1
  BY DEF Start, Goto
<1>2. Plain(Written(f)) /\ Len(Written(f)) >= 1
  BY WrittenPlain
<1>3. Written(f) \in Seq(Statement) /\ 1 \in 0..Len(Written(f))
  BY <1>2 DEF Plain
<1>4. p \in {"prologue", "assignment", "destructor"}
  BY DEF ConstructorKinds
<1>5. TypesRight'
  <2>1. p \in Phases
    BY <1>4 DEF Phases
  <2>2. <<>> \in Seq(Registered)
    OBVIOUS
  <2> HIDE DEF Written
  <2> QED BY <1>1, <1>3, <2>1, <2>2, ClassTypes DEF TypesRight
<1>6. StatementsRight'
  BY <1>1 DEF StatementsRight, Constructing, ConstructorKinds
<1>7. LocalsRight'
  <2>1. \A k \in DOMAIN code' : code'[k].type # "IFGOTO"
    BY <1>1, <1>2 DEF Plain
  <2>2. p = "prologue" <=> f.kind \in ConstructorKinds
    BY DEF ConstructorKinds
  <2> HIDE DEF Undefined, Null
  <2> QED BY <1>1, <1>4, <2>1, <2>2 DEF LocalsRight, Translating
<1> QED BY <1>5, <1>6, <1>7 DEF SInv

LEMMA BeginMakes == ASSUME Begin PROVE SInv'
<1>1. PICK c \in Classes :
        \/ \E copy, try \in BOOLEAN, chain \in Chains(c) : FinishConstructor(c, copy, try, chain)
        \/ MakeDefaultConstructor(c) \/ MakeDefaultCopyConstructor(c)
        \/ MakeDefaultAssignmentOperator(c) \/ MakeDefaultDestructor(c)
  BY DEF Begin
<1>2. CASE \E copy, try \in BOOLEAN, chain \in Chains(c) : FinishConstructor(c, copy, try, chain)
  <2>1. PICK copy \in BOOLEAN, try \in BOOLEAN, chain \in Chains(c) : FinishConstructor(c, copy, try, chain)
    BY <1>2
  <2> DEFINE f == [kind |-> "user", copy |-> copy, try |-> try, chain |-> chain]
  <2>2. Start(c, f, "prologue")
    BY <2>1 DEF FinishConstructor
  <2>3. f.kind = "user" /\ f.copy \in BOOLEAN /\ f.try \in BOOLEAN
    OBVIOUS
  <2> HIDE DEF f
  <2> QED BY <2>2, <2>3, StartMakes DEF ConstructorKinds
<1>3. ASSUME NEW kind \in {"constructor", "copy", "assignment", "destructor"}, MakeDefault(c, kind)
      PROVE  SInv'
  <2> DEFINE f == [kind |-> kind, copy |-> kind = "copy", try |-> FALSE, chain |-> {}]
             p == IF kind \in {"constructor", "copy"} THEN "prologue" ELSE kind
  <2>1. Start(c, f, p)
    BY <1>3 DEF MakeDefault
  <2>2. f.kind = kind /\ f.copy \in BOOLEAN /\ f.try = FALSE /\ f.chain = {}
    OBVIOUS
  <2>3. p = IF f.kind \in ConstructorKinds THEN "prologue" ELSE f.kind
    BY <2>2 DEF ConstructorKinds
  <2>4. f.kind \in ConstructorKinds \cup {"assignment", "destructor"}
    BY <2>2 DEF ConstructorKinds
  <2> HIDE DEF f, p
  <2> QED BY <2>1, <2>2, <2>3, <2>4, StartMakes
<1> QED BY <1>1, <1>2, <1>3 DEF MakeDefaultConstructor, MakeDefaultCopyConstructor,
              MakeDefaultAssignmentOperator, MakeDefaultDestructor

LEMMA SInvInit == Init => SInv
<1> SUFFICES ASSUME Init PROVE SInv
  OBVIOUS
<1>1. /\ cls = NoClass /\ func = NoFunction /\ code = <<>> /\ at = 0 /\ cleanup = <<>>
      /\ phase = "idle" /\ i = 1
  BY DEF Init
<1>2. TypesRight
  <2>1. /\ cls.vbases = <<>> /\ cls.bases = <<>> /\ cls.ivars = <<>>
        /\ cls.handle = FALSE /\ cls.vtable = FALSE
    BY <1>1 DEF NoClass
  <2>2. func.kind = "none" /\ func.copy = FALSE /\ func.try = FALSE /\ func.chain = {}
    BY <1>1 DEF NoFunction
  <2>3. /\ "idle" \in Phases /\ <<>> \in Seq(Statement) /\ 0 \in 0..Len(<<>>) /\ <<>> \in Seq(Registered)
        /\ <<>> \in Seq(Subs) /\ <<>> \in Seq(UNION { Bases(n) : n \in Nat }) /\ <<>> \in Seq(Members)
    BY DEF Phases
  <2> QED BY <1>1, <2>1, <2>2, <2>3 DEF TypesRight
<1>3. StatementsRight
  BY <1>1 DEF StatementsRight, Constructing
<1>4. LocalsRight
  BY <1>1 DEF LocalsRight, Translating, NoFunction
<1> QED BY <1>2, <1>3, <1>4 DEF SInv

LEMMA TransConstructorKeeps == ASSUME SInv, TransConstructor PROVE SInv'
<1>1. CASE BadBase
  BY <1>1, StopStep DEF BadBase
<1>2. CASE BadMember
  BY <1>2, StopStep DEF BadMember
<1> QED BY <1>1, <1>2, PrologueStep, GuardStep, ConstructVBaseStep, VBasesDoneStep, SkipBaseStep,
           ConstructBaseStep, BasesDoneStep, ConstructMemberStep, MembersDoneStep, ReturnsStep
        DEF TransConstructor

LEMMA SInvStep == ASSUME SInv, [Next]_vars PROVE SInv'
<1>1. CASE UNCHANGED vars
  BY <1>1, SInvUnchanged DEF vars
<1>2. CASE Assignment
  <2>1. CASE AssignFails
    BY <2>1, StopStep DEF AssignFails
  <2> QED BY <1>2, <2>1, AssignWholeStep, AssignVirtualStep, AssignOtherStep, AssignDoneStep DEF Assignment
<1>3. CASE \E state \in Outers : Elsewhere(state)
  BY <1>3, ElsewhereKeeps
<1> QED BY <1>1, <1>2, <1>3, BeginMakes, TransConstructorKeeps, DestructorStep, GenerateLeaves DEF Next

\* At each turn of the translation, in every class and constructor, the list of
\* statements consists of the zones above (CABI_TransConstructor).
THEOREM SInvHolds == Spec => []SInv
BY SInvInit, SInvStep, PTL DEF Spec

-----------------------------------------------------------------------------
(***************************************************************************)
(* The exceptions were told of the parts in order, and of a virtual base   *)
(* behind the jump that passes over its construction.                      *)
(***************************************************************************)
LEMMA MadeWhole ==
    ASSUME SInv, Made
    PROVE  /\ TypesRight /\ func.kind \in ConstructorKinds /\ HeadLen <= at
           /\ HeadRight(code, <<"this">>) /\ TailRight(code, at, <<"this">>)
           /\ CleanupRight(code, at, cleanup) /\ Zones("generate", i, code, at)
<1>1. phase = "generate" /\ func.kind \in ConstructorKinds
  BY DEF Made, ConstructorKinds
<1>2. Whole(phase, i, code, at, cleanup) /\ Value(phase) = <<"this">>
  BY <1>1 DEF SInv, StatementsRight, Constructing, Value
<1> QED BY <1>1, <1>2 DEF Whole, SInv

\* What the head consists of.
LEMMA HeadIs ==
    ASSUME TypesRight, NEW c, NEW r, HeadRight(c, r), NEW k \in 1..HeadLen
    PROVE  \/ c[k] = Nop \/ c[k] = Jump(<<"this">>, "allocated") \/ c[k] = Jump(<<"new">>, "allocated")
           \/ c[k] = Label("allocated") \/ c[k] = Stmt("BEGINCATCH", <<"nothing">>)
           \/ cls.handle /\ k = First + 3 /\ c[k] = Stmt("RETURN", r)
<1>1. PICK a, b : /\ a = (IF cls.handle THEN 4 ELSE 0) /\ b = (IF func.try THEN 1 ELSE 0)
  OBVIOUS
<1>2. /\ a \in {0, 4} /\ b \in {0, 1} /\ (cls.handle <=> a = 4) /\ (func.try <=> b = 1)
      /\ HeadLen = First + a + b /\ First \in 1..2
  BY <1>1, Numbers DEF HeadLen
<1>3. CASE k \in 1..First
  BY <1>3 DEF HeadRight
<1>4. CASE a = 4 /\ k \in {First + 1, First + 2, First + 3, First + 4}
  BY <1>2, <1>4 DEF HeadRight
<1>5. CASE b = 1 /\ k = HeadLen
  BY <1>2, <1>5 DEF HeadRight
<1> QED BY <1>2, <1>3, <1>4, <1>5

LEMMA CleanupIs == ASSUME SInv PROVE CleanupInOrder
<1> SUFFICES ASSUME Made PROVE CleanupInOrder
  BY DEF CleanupInOrder
<1>1. /\ TypesRight /\ HeadLen <= at
      /\ HeadRight(code, <<"this">>) /\ TailRight(code, at, <<"this">>)
      /\ CleanupRight(code, at, cleanup) /\ Zones("generate", i, code, at)
  BY MadeWhole
<1>2. \A k, n \in DOMAIN cleanup : k < n => cleanup[k].at <= cleanup[n].at
  BY <1>1 DEF CleanupRight
<1>3. \A r \in ToSet(cleanup) : Told(code, at, r)
  BY <1>1 DEF CleanupRight, ToSet
<1>4. \A r \in ToSet(cleanup) : r.part[1] = "member" => code[r.at].expr \in {r.part, <<"nothing">>}
  BY <1>3 DEF Told
<1>5. ASSUME NEW r \in ToSet(cleanup), r.part[1] = "vbase"
      PROVE  SelectInSeq(code, LAMBDA s : s.expr = <<"noflag">>) < r.at /\ r.flag
  <2>1. NV > 0 /\ HeadLen + 1 < r.at /\ r.flag
    BY <1>3, <1>5 DEF Told
  <2>2. /\ HeadLen \in Nat /\ NV \in Nat /\ VStart = HeadLen + 1 + NV /\ Len(code) \in Nat
        /\ TailLen \in 1..2 /\ Len(code) = at + TailLen /\ at \in Nat
    BY <1>1, Numbers DEF TailRight
  <2>3. PICK v \in Nat, b \in Nat : /\ VirtualsRight(code, v) /\ BaseZone(code, v, b, Len(cls.bases) + 1)
                                    /\ ObjectZone(code, b, at)
    BY <1>1 DEF Zones
  <2>4. HeadLen + 1 \in 1..Len(code) /\ code[HeadLen + 1].expr = <<"noflag">>
    <3>1. VBaseZone(code, v - 1, NV + 1)
      BY <2>1, <2>3 DEF VirtualsRight
    <3>2. code[HeadLen + 1] = Jump(<<"noflag">>, "nobases")
      BY <3>1 DEF VBaseZone
    <3>3. HeadLen + 1 \in 1..Len(code)
      BY <1>1, <2>2
    <3> QED BY <3>2, <3>3 DEF Jump
  <2>5. \A k \in 1..HeadLen : code[k].expr # <<"noflag">>
    <3> TAKE k \in 1..HeadLen
    <3>1. \A t, e, l : Stmt(t, e).expr = e /\ Jump(e, l).expr = e /\ Label(l).expr = <<"nothing">>
      BY DEF Stmt, Jump, Label
    <3>2. code[k].expr \in {<<"nothing">>, <<"this">>, <<"new">>}
      BY <1>1, <3>1, HeadIs DEF Nop
    <3> QED BY <3>2
  <2> DEFINE I == { k \in 1..Len(code) : code[k].expr = <<"noflag">> }
             P(x) == x \in I /\ \A y \in I : x <= y
             h == HeadLen + 1
  <2>6. P(h)
    BY <2>2, <2>4, <2>5
  <2>7. \A x : P(x) => x = h
    <3>1. \A x : x \in I => x \in Int
      OBVIOUS
    <3> QED BY <2>2, <2>6, <3>1
  <2>8. SelectInSeq(code, LAMBDA s : s.expr = <<"noflag">>) = IF I # {} THEN Min(I) ELSE 0
    BY Zenon DEF SelectInSeq
  <2>9. Min(I) = CHOOSE x : P(x)
    BY DEF Min
  <2>10. I # {}
    BY <2>6
  <2> HIDE DEF P, I
  <2>11. Min(I) = h
    BY <2>6, <2>7, <2>9
  <2> QED BY <2>1, <2>8, <2>10, <2>11
<1> QED BY <1>2, <1>4, <1>5 DEF CleanupInOrder

\* For every class: parts are told to the exceptions in the order of their
\* construction, each where its own construction is or, with a virtual base,
\* behind the jump that passes over it (CExcept_Register... in the loops).
THEOREM CleanupIsInOrder == Spec => []CleanupInOrder
BY SInvHolds, CleanupIs, PTL

-----------------------------------------------------------------------------
(***************************************************************************)
(* The list of a constructor that is done, statement by statement.         *)
(***************************************************************************)
\* v ends the virtual bases, b the other bases.
Parted(v, b) ==
    /\ v \in Nat /\ b \in Nat /\ VirtualsRight(code, v)
    /\ BaseZone(code, v, b, Len(cls.bases) + 1) /\ ObjectZone(code, b, at)

InHead(k) ==
    \/ k <= HeadLen /\ code[k].type \in {"NOP", "BEGINCATCH"} /\ code[k].expr = <<"nothing">>
    \/ /\ cls.handle
       /\ \/ k = First + 1 /\ code[k] = Jump(<<"this">>, "allocated")
          \/ k = First + 2 /\ code[k] = Jump(<<"new">>, "allocated")
          \/ k = First + 3 /\ code[k] = Stmt("RETURN", <<"this">>)
          \/ k = First + 4 /\ code[k] = Label("allocated")

InVBases(k, v) ==
    /\ NV > 0 /\ VStart < v
    /\ \/ k = HeadLen + 1 /\ code[k] = Jump(<<"noflag">>, "nobases")
       \/ \E n \in 1..NV : k = HeadLen + 1 + n /\ code[k] = Stmt("EXPRESSION", <<"pointer", n>>)
       \/ k \in VStart + 1 .. v - 1 /\ \E u \in 1..NV : VBaseMade(u) /\ code[k] = VBaseStmt(u)
       \/ k = v /\ code[k] = Label("nobases")

InObject(k, v, b) ==
    \/ k \in v + 1 .. b /\ code[k] \in BaseStmts
    \/ /\ k \in b + 1 .. at /\ code[k].type = "EXPRESSION" /\ code[k].expr \in ObjectExprs
       /\ k # b + 1 => code[k].expr # <<"vtable">>

InTail(k) ==
    \/ k = at + 1 /\ k < Len(code) /\ code[k] = Stmt("EXPRESSION", <<"body">>)
    \/ k = Len(code) /\ code[k] = Stmt("RETURN", <<"this">>)

Sizes(v, b) ==
    /\ First \in 1..2 /\ HeadLen \in Nat /\ NV \in Nat /\ VStart = HeadLen + 1 + NV
    /\ cls.handle => First + 4 <= HeadLen
    /\ First <= HeadLen /\ HeadLen <= v /\ v <= b /\ b <= at /\ at < Len(code)
    /\ v \in Nat /\ b \in Nat /\ at \in Nat /\ Len(code) \in Nat /\ DOMAIN code = 1..Len(code)
    /\ NV > 0 => VStart < v
    /\ NV = 0 => v = HeadLen

Placed(k, v, b) ==
    \/ k \in 1..HeadLen /\ InHead(k)
    \/ k \in HeadLen + 1 .. v /\ InVBases(k, v)
    \/ k \in v + 1 .. at /\ InObject(k, v, b)
    \/ k \in at + 1 .. Len(code) /\ InTail(k)

LEMMA SizesAre ==
    ASSUME SInv, Made, NEW v, NEW b, Parted(v, b)
    PROVE  Sizes(v, b)
<1>1. TypesRight /\ HeadLen <= at /\ TailRight(code, at, <<"this">>)
  BY MadeWhole
<1>2. /\ First \in 1..2 /\ HeadLen \in Nat /\ First <= HeadLen /\ TailLen \in 1..2 /\ NV \in Nat
      /\ VStart = HeadLen + 1 + NV /\ (cls.handle => First + 4 <= HeadLen)
      /\ Len(code) \in Nat /\ at \in Nat /\ at <= Len(code)
  BY <1>1, Numbers
<1>3. at < Len(code) /\ DOMAIN code = 1..Len(code)
  BY <1>1, <1>2 DEF TailRight, TypesRight
<1>4. v \in Nat /\ b \in Nat /\ v <= b /\ b <= at
  BY DEF Parted, BaseZone, ObjectZone
<1>5. NV > 0 => VStart < v
  <2> SUFFICES ASSUME NV > 0 PROVE VStart < v
    OBVIOUS
  <2>1. VStart <= v - 1
    BY <1>2 DEF Parted, VirtualsRight, VBaseZone
  <2> QED BY <1>2, <1>4, <2>1
<1>6. NV = 0 => v = HeadLen
  BY DEF Parted, VirtualsRight
<1>7. HeadLen <= v
  BY <1>2, <1>4, <1>5, <1>6
<1> QED BY <1>2, <1>3, <1>4, <1>5, <1>6, <1>7 DEF Sizes

LEMMA PlacedHead ==
    ASSUME SInv, Made, NEW k \in 1..HeadLen
    PROVE  InHead(k)
<1>1. TypesRight /\ HeadRight(code, <<"this">>)
  BY MadeWhole
<1>2. /\ First \in 1..2 /\ HeadLen \in Nat
  BY <1>1, Numbers
<1>3. PICK a, c : /\ a = (IF cls.handle THEN 4 ELSE 0) /\ c = (IF func.try THEN 1 ELSE 0)
  OBVIOUS
<1>4. /\ a \in {0, 4} /\ c \in {0, 1} /\ (cls.handle <=> a = 4) /\ (func.try <=> c = 1)
      /\ HeadLen = First + a + c
  BY <1>1, <1>3 DEF HeadLen
<1>5. CASE k \in 1..First
  <2>1. code[k] = Nop
    BY <1>1, <1>5 DEF HeadRight
  <2>2. code[k].type = "NOP" /\ code[k].expr = <<"nothing">>
    BY <2>1 DEF Nop, Stmt
  <2> QED BY <1>2, <2>2 DEF InHead
<1>6. CASE a = 4 /\ k \in {First + 1, First + 2, First + 3, First + 4}
  BY <1>1, <1>4, <1>6 DEF HeadRight, InHead
<1>7. CASE c = 1 /\ k = HeadLen
  <2>1. code[k] = Stmt("BEGINCATCH", <<"nothing">>)
    BY <1>1, <1>4, <1>7 DEF HeadRight
  <2>2. code[k].type = "BEGINCATCH" /\ code[k].expr = <<"nothing">>
    BY <2>1 DEF Stmt
  <2> QED BY <1>2, <2>2 DEF InHead
<1> QED BY <1>2, <1>4, <1>5, <1>6, <1>7

LEMMA PlacedVBases ==
    ASSUME SInv, Made, NEW v, NEW b, Parted(v, b), NEW k \in HeadLen + 1 .. v
    PROVE  InVBases(k, v)
<1>1. Sizes(v, b)
  BY SizesAre
<1>2. NV > 0 /\ VStart < v
  BY <1>1 DEF Sizes
<1>3. VBaseZone(code, v - 1, NV + 1) /\ code[v] = Label("nobases")
  BY <1>2 DEF Parted, VirtualsRight
<1>4. CASE k = HeadLen + 1
  BY <1>2, <1>3, <1>4 DEF VBaseZone, InVBases
<1>5. CASE k \in HeadLen + 2 .. VStart
  <2>1. k - (HeadLen + 1) \in 1..NV /\ k = HeadLen + 1 + (k - (HeadLen + 1))
    BY <1>1, <1>5 DEF Sizes
  <2>2. PICK n \in 1..NV : k = HeadLen + 1 + n
    BY <2>1
  <2>3. code[k] = Stmt("EXPRESSION", <<"pointer", n>>)
    BY <1>3, <2>2 DEF VBaseZone
  <2> QED BY <1>2, <2>2, <2>3 DEF InVBases
<1>6. CASE k \in VStart + 1 .. v - 1
  <2>1. PICK m, j : m = v - 1 /\ j = NV + 1
    OBVIOUS
  <2>2. VBaseZone(code, m, j) /\ k \in VStart + 1 .. m
    BY <1>3, <1>6, <2>1
  <2>3. \E u \in 1..j - 1 : VBaseMade(u) /\ code[k] = VBaseStmt(u)
    BY <2>2 DEF VBaseZone
  <2>4. j - 1 = NV
    BY <1>1, <2>1 DEF Sizes
  <2>5. \E u \in 1..NV : VBaseMade(u) /\ code[k] = VBaseStmt(u)
    BY <2>3, <2>4
  <2> QED BY <1>2, <1>6, <2>5 DEF InVBases
<1>7. CASE k = v
  BY <1>2, <1>3, <1>7 DEF InVBases
<1> QED BY <1>1, <1>4, <1>5, <1>6, <1>7 DEF Sizes

LEMMA PlacedObject ==
    ASSUME SInv, Made, NEW v, NEW b, Parted(v, b), NEW k \in v + 1 .. at
    PROVE  InObject(k, v, b)
<1>1. Sizes(v, b)
  BY SizesAre
<1>2. CASE k \in v + 1 .. b
  BY <1>2 DEF Parted, BaseZone, InObject
<1>3. CASE k \in b + 1 .. at
  BY <1>3 DEF Parted, ObjectZone, InObject
<1> QED BY <1>1, <1>2, <1>3 DEF Sizes

LEMMA PlacedTail ==
    ASSUME SInv, Made, NEW k \in at + 1 .. Len(code)
    PROVE  InTail(k)
<1>1. TypesRight /\ TailRight(code, at, <<"this">>)
  BY MadeWhole
<1>2. at \in Nat /\ Len(code) \in Nat
  BY <1>1, Numbers
<1>3. CASE func.kind = "user"
  <2>1. Len(code) = at + 2 /\ code[at + 1] = Stmt("EXPRESSION", <<"body">>)
        /\ code[at + 2] = Stmt("RETURN", <<"this">>)
    BY <1>1, <1>3 DEF TailRight, TailLen
  <2>2. (k = at + 1 /\ k < Len(code)) \/ (k = at + 2 /\ k = Len(code))
    BY <1>2, <2>1
  <2> QED BY <2>1, <2>2 DEF InTail
<1>4. CASE func.kind # "user"
  <2>1. Len(code) = at + 1 /\ code[at + 1] = Stmt("RETURN", <<"this">>)
    BY <1>1, <1>4 DEF TailRight, TailLen
  <2>2. k = at + 1 /\ k = Len(code)
    BY <1>2, <2>1
  <2> QED BY <2>1, <2>2 DEF InTail
<1> QED BY <1>3, <1>4

LEMMA Places ==
    ASSUME SInv, Made, NEW v, NEW b, Parted(v, b), NEW k \in DOMAIN code
    PROVE  Placed(k, v, b)
<1>1. Sizes(v, b)
  BY SizesAre
<1>2. \/ k \in 1..HeadLen \/ k \in HeadLen + 1 .. v \/ k \in v + 1 .. at \/ k \in at + 1 .. Len(code)
  BY <1>1 DEF Sizes
<1> QED BY <1>2, PlacedHead, PlacedVBases, PlacedObject, PlacedTail DEF Placed

LEMMA StmtFields ==
    /\ \A t, e : Stmt(t, e).type = t /\ Stmt(t, e).expr = e
    /\ \A e, l : Jump(e, l).type = "IFGOTO" /\ Jump(e, l).expr = e /\ Jump(e, l).label = l
    /\ \A l : Label(l).type = "LABEL" /\ Label(l).expr = <<"nothing">> /\ Label(l).label = l
BY DEF Stmt, Jump, Label

LEMMA BaseStmtTypes ==
    \A s \in BaseStmts : /\ s.type = "EXPRESSION"
                         /\ \/ s.expr = <<"garbage">> \/ \E u \in 1..NV : s.expr = <<"vbase", u>>
                            \/ s.expr = <<"new">> /\ Reallocates
                         /\ Reallocates => s.expr = <<"new">>
<1> TAKE s \in BaseStmts
<1>1. CASE Reallocates
  <2>1. s = Stmt("EXPRESSION", <<"new">>)
    BY <1>1 DEF BaseStmts, NewStmt
  <2> QED BY <1>1, <2>1, StmtFields
<1>2. CASE ~Reallocates
  <2>1. CASE s = Stmt("EXPRESSION", <<"garbage">>)
    BY <1>2, <2>1, StmtFields
  <2>2. CASE \E u \in 1..NV : s = Stmt("EXPRESSION", <<"vbase", u>>)
    BY <1>2, <2>2, StmtFields
  <2> QED BY <1>2, <2>1, <2>2 DEF BaseStmts, VBaseStmt
<1> QED BY <1>1, <1>2

\* Where the labels, the jumps and the returns are.
LEMMA LabelPlaces ==
    ASSUME SInv, Made, NEW v, NEW b, Parted(v, b), NEW k \in DOMAIN code
    PROVE  /\ code[k].type = "LABEL" =>
                \/ cls.handle /\ k = First + 4 /\ code[k].label = "allocated"
                \/ NV > 0 /\ k = v /\ code[k].label = "nobases"
           /\ code[k].type = "IFGOTO" =>
                \/ /\ cls.handle /\ code[k].label = "allocated"
                   /\ \/ k = First + 1 /\ code[k].expr = <<"this">>
                      \/ k = First + 2 /\ code[k].expr = <<"new">>
                \/ /\ NV > 0 /\ k = HeadLen + 1
                   /\ code[k].label = "nobases" /\ code[k].expr = <<"noflag">>
           /\ code[k].type = "RETURN" =>
                code[k].expr = <<"this">> /\ ((cls.handle /\ k = First + 3) \/ k = Len(code))
<1>1. Placed(k, v, b)
  BY Places
<1>2. CASE k \in 1..HeadLen /\ InHead(k)
  <2>1. CASE code[k].type \in {"NOP", "BEGINCATCH"} /\ code[k].expr = <<"nothing">>
    BY <2>1
  <2>2. CASE cls.handle /\ k = First + 1 /\ code[k] = Jump(<<"this">>, "allocated")
    BY <2>2, StmtFields
  <2>3. CASE cls.handle /\ k = First + 2 /\ code[k] = Jump(<<"new">>, "allocated")
    BY <2>3, StmtFields
  <2>4. CASE cls.handle /\ k = First + 3 /\ code[k] = Stmt("RETURN", <<"this">>)
    BY <2>4, StmtFields
  <2>5. CASE cls.handle /\ k = First + 4 /\ code[k] = Label("allocated")
    BY <2>5, StmtFields
  <2> QED BY <1>2, <2>1, <2>2, <2>3, <2>4, <2>5 DEF InHead
<1>3. CASE k \in HeadLen + 1 .. v /\ InVBases(k, v)
  <2>1. CASE k = HeadLen + 1 /\ code[k] = Jump(<<"noflag">>, "nobases")
    BY <1>3, <2>1, StmtFields DEF InVBases
  <2>2. CASE \E n \in 1..NV : code[k] = Stmt("EXPRESSION", <<"pointer", n>>)
    BY <2>2, StmtFields
  <2>3. CASE \E u \in 1..NV : code[k] = VBaseStmt(u)
    BY <2>3, StmtFields DEF VBaseStmt
  <2>4. CASE k = v /\ code[k] = Label("nobases")
    BY <1>3, <2>4, StmtFields DEF InVBases
  <2> QED BY <1>3, <2>1, <2>2, <2>3, <2>4 DEF InVBases
<1>4. CASE k \in v + 1 .. at /\ InObject(k, v, b)
  <2>1. code[k].type = "EXPRESSION"
    BY <1>4, BaseStmtTypes DEF InObject
  <2> QED BY <2>1
<1>5. CASE k \in at + 1 .. Len(code) /\ InTail(k)
  BY <1>5, StmtFields DEF InTail
<1> QED BY <1>1, <1>2, <1>3, <1>4, <1>5 DEF Placed

Target(s) == CHOOSE n \in DOMAIN code : code[n] = Label(s.label)

LEMMA TargetsAre ==
    ASSUME SInv, Made, NEW v, NEW b, Parted(v, b)
    PROVE  \A k \in DOMAIN code : code[k].type = "IFGOTO" =>
             LET n == IF code[k].label = "allocated" THEN First + 4 ELSE v
             IN  /\ n \in k + 1 .. Len(code)
                 /\ { m \in DOMAIN code : code[m] = Label(code[k].label) } = {n}
                 /\ Target(code[k]) = n
<1> SUFFICES ASSUME NEW k \in DOMAIN code, code[k].type = "IFGOTO",
                    NEW n, n = (IF code[k].label = "allocated" THEN First + 4 ELSE v)
             PROVE  /\ n \in k + 1 .. Len(code)
                    /\ { m \in DOMAIN code : code[m] = Label(code[k].label) } = {n}
                    /\ Target(code[k]) = n
  OBVIOUS
<1>1. Sizes(v, b)
  BY SizesAre
<1>2. n \in k + 1 .. Len(code)
  BY <1>1, LabelPlaces DEF Sizes
<1>3. code[n] = Label(code[k].label)
  <2>1. CASE code[k].label = "allocated"
    <3>1. cls.handle /\ n = First + 4
      BY <2>1, LabelPlaces
    <3>2. HeadRight(code, <<"this">>)
      BY MadeWhole
    <3> QED BY <2>1, <3>1, <3>2 DEF HeadRight
  <2>2. CASE code[k].label # "allocated"
    <3>1. NV > 0 /\ n = v /\ code[k].label = "nobases"
      BY <2>2, LabelPlaces
    <3>2. NV # 0
      BY <1>1, <3>1 DEF Sizes
    <3> QED BY <3>1, <3>2 DEF Parted, VirtualsRight
  <2> QED BY <2>1, <2>2
<1>4. ASSUME NEW m \in DOMAIN code, code[m] = Label(code[k].label) PROVE m = n
  <2>1. code[m].type = "LABEL" /\ code[m].label = code[k].label
    BY <1>4, StmtFields
  <2> QED BY <2>1, LabelPlaces
<1>5. n \in DOMAIN code
  BY <1>1, <1>2 DEF Sizes
<1>6. { m \in DOMAIN code : code[m] = Label(code[k].label) } = {n}
  BY <1>3, <1>4, <1>5
<1>7. Target(code[k]) = n
  BY <1>3, <1>4, <1>5 DEF Target
<1> QED BY <1>2, <1>6, <1>7

\* How a step can leave a function, or stop.
LEMMA Leaving ==
    ASSUME Next, phase' \in {"idle", "stopped"}
    PROVE  cleanup' = <<>> \/ UNCHANGED <<code, cleanup>>
<1>1. ~Begin
  BY DEF Begin, Idle, FinishConstructor, MakeDefaultConstructor, MakeDefaultCopyConstructor,
         MakeDefaultAssignmentOperator, MakeDefaultDestructor, MakeDefault, Start, Goto
<1>2. CASE TransConstructor
  <2>1. BadBase \/ BadMember
    BY <1>2 DEF TransConstructor, Prologue, Guard, ConstructVBase, VBasesDone, SkipBase, ConstructBase,
                BasesDone, ConstructMember, MembersDone, Returns, Goto
  <2> QED BY <2>1 DEF BadBase, BadMember, Stop, translation
<1>3. CASE Assignment
  <2>1. AssignFails
    BY <1>3 DEF Assignment, AssignWhole, AssignVirtual, AssignOther, AssignDone, Goto
  <2> QED BY <2>1 DEF AssignFails, Stop, translation
<1>4. ~Destructor
  BY DEF Destructor, Goto
<1>5. CASE Generate
  BY <1>5 DEF Generate, Nothing
<1>6. CASE \E state \in Outers : Elsewhere(state)
  BY <1>6 DEF Elsewhere, translation
<1> QED BY <1>1, <1>2, <1>3, <1>4, <1>5, <1>6 DEF Next

\* What the exceptions were told of is in the list, even if the translation stops.
CleanupWithin == \A k \in DOMAIN cleanup : cleanup[k].at \in DOMAIN code

LEMMA CleanupWithinThere ==
    ASSUME SInv, phase \notin {"idle", "stopped"}
    PROVE  CleanupWithin
<1>1. TypesRight /\ code \in Seq(Statement) /\ DOMAIN code = 1..Len(code)
      /\ Len(code) \in Nat /\ at \in Nat /\ at <= Len(code)
  BY Numbers DEF SInv, TypesRight
<1>2. CASE Constructing
  <2>1. CleanupRight(code, at, cleanup)
    BY <1>2 DEF SInv, StatementsRight, Whole
  <2>2. \A k \in DOMAIN cleanup : cleanup[k].at \in 1..at
    BY <2>1 DEF CleanupRight, Told
  <2> QED BY <1>1, <2>2 DEF CleanupWithin
<1>3. CASE ~Constructing
  <2>1. cleanup = <<>>
    BY <1>3 DEF SInv, LocalsRight, TypesRight, Constructing, Translating, Phases, ConstructorKinds
  <2> QED BY <2>1 DEF CleanupWithin
<1> QED BY <1>2, <1>3

WithinAtEnd == phase \in {"idle", "stopped"} => CleanupWithin

LEMMA CleanupIsWithin == ASSUME SInv, WithinAtEnd PROVE CleanupWithin
BY CleanupWithinThere DEF WithinAtEnd

LEMMA WithinAtEndStep == ASSUME SInv, WithinAtEnd, [Next]_vars PROVE WithinAtEnd'
<1> SUFFICES ASSUME phase' \in {"idle", "stopped"} PROVE CleanupWithin'
  BY DEF WithinAtEnd
<1>1. cleanup' = <<>> \/ UNCHANGED <<code, cleanup>>
  BY Leaving DEF vars
<1> QED BY <1>1, CleanupIsWithin DEF CleanupWithin

LEMMA TypesAre == ASSUME SInv, WithinAtEnd PROVE TypeOK
<1>1. at \in 0..Len(code)
  BY DEF SInv, TypesRight
<1>2. \A r \in ToSet(cleanup) : r.at \in DOMAIN code
  BY CleanupIsWithin DEF CleanupWithin, ToSet
<1>3. ASSUME phase = "generate", NEW k \in DOMAIN code, code[k].type = "IFGOTO"
      PROVE  \E n \in k + 1 .. Len(code) :
                { m \in DOMAIN code : code[m] = Label(code[k].label) } = {n}
  <2>1. Made
    BY <1>3 DEF SInv, LocalsRight, TypesRight, ConstructorKinds, Made
  <2>2. PICK v, b : Parted(v, b)
    BY <2>1, MadeWhole DEF Zones, Parted
  <2> QED BY <1>3, <2>1, <2>2, TargetsAre
<1> QED BY <1>1, <1>2, <1>3 DEF TypeOK

-----------------------------------------------------------------------------
(***************************************************************************)
(* The run of a constructor.  What is done from a statement on follows     *)
(* from what is done from the statement after it, or behind its jump.      *)
(***************************************************************************)
\* A list f[k] made of what is k's own and of the list of a number after it.
Chained(f, own, after, n) ==
    \A k \in 1..n : f[k] = IF after[k] = 0 THEN own[k] ELSE own[k] \o f[after[k]]

LEMMA ForwardFunction ==
    ASSUME NEW W, NEW n \in Nat, NEW own \in [1..n -> Seq(W)], NEW after \in [1..n -> Nat],
           \A k \in 1..n : after[k] = 0 \/ after[k] \in k + 1 .. n
    PROVE  \E f \in [1..n -> Seq(W)] : Chained(f, own, after, n)
<1> DEFINE D == 1..n
           V == Seq(W)
           r(k) == n + 1 - k
           step == [d \in D |-> [g \in [D -> V] |->
                      IF after[r(d)] = 0 THEN own[r(d)] ELSE own[r(d)] \o g[r(after[r(d)])]]]
<1>1. ASSUME NEW d \in D
      PROVE  /\ r(d) \in D /\ r(r(d)) = d
             /\ after[r(d)] # 0 => r(after[r(d)]) \in D /\ r(after[r(d)]) < d
  <2>1. r(d) \in D /\ r(r(d)) = d
    OBVIOUS
  <2>2. after[r(d)] # 0 => after[r(d)] \in r(d) + 1 .. n
    BY <2>1
  <2> QED BY <2>1, <2>2
<1>2. step \in [D -> [[D -> V] -> V]]
  <2>1. ASSUME NEW d \in D, NEW g \in [D -> V]
        PROVE  (IF after[r(d)] = 0 THEN own[r(d)] ELSE own[r(d)] \o g[r(after[r(d)])]) \in V
    <3>1. own[r(d)] \in V
      BY <1>1
    <3>2. CASE after[r(d)] # 0
      <4>1. g[r(after[r(d)])] \in V
        BY <1>1, <3>2
      <4> QED BY <3>1, <3>2, <4>1
    <3> QED BY <3>1, <3>2
  <2> HIDE DEF r, V, D
  <2> QED BY <2>1
<1>3. LooksBelow(step, D, V)
  <2>1. ASSUME NEW d \in D, NEW g \in [D -> V], NEW h \in [D -> V],
               \A e \in D : e < d => g[e] = h[e]
        PROVE  step[d][g] = step[d][h]
    <3>1. after[r(d)] # 0 => g[r(after[r(d)])] = h[r(after[r(d)])]
      BY <1>1, <2>1
    <3> HIDE DEF r, V, D
    <3> QED BY <3>1
  <2> HIDE DEF step, V, D
  <2> QED BY <2>1 DEF LooksBelow
<1>4. HasSolution(step, D, V)
  <2>1. D \in SUBSET (0..n) /\ <<>> \in V
    OBVIOUS
  <2> HIDE DEF step, V, D
  <2> QED BY <1>2, <1>3, <2>1, RecursiveFunction
<1>5. PICK g \in [D -> V] : \A d \in D : g[d] = step[d][g]
  BY <1>4 DEF HasSolution
<1>6. \A d \in D : g[d] = IF after[r(d)] = 0 THEN own[r(d)] ELSE own[r(d)] \o g[r(after[r(d)])]
  <2> HIDE DEF r, V, D
  <2> QED BY <1>5
<1> DEFINE f == [k \in D |-> g[r(k)]]
<1>7. f \in [D -> V]
  <2> HIDE DEF r, V
  <2> QED BY <1>1
<1>8. ASSUME NEW k \in D
      PROVE  f[k] = IF after[k] = 0 THEN own[k] ELSE own[k] \o f[after[k]]
  <2>1. r(k) \in D /\ r(r(k)) = k
    BY <1>1
  <2>2. g[r(k)] = IF after[k] = 0 THEN own[k] ELSE own[k] \o g[r(after[k])]
    BY <1>6, <2>1
  <2>3. after[k] # 0 => after[k] \in D
    OBVIOUS
  <2> HIDE DEF r
  <2> QED BY <2>2, <2>3
<1> HIDE DEF f
<1> QED BY <1>7, <1>8 DEF Chained

Body(e, f, k) ==
    LET s == code[k]
    IN  IF s.type = "RETURN" THEN <<<<"return">> \o s.expr>>
        ELSE IF s.type = "IFGOTO"
        THEN IF Taken(e, s.expr) THEN f[Target(s)] ELSE f[k + 1]
        ELSE (IF s.expr = <<"nothing">> THEN <<>> ELSE <<s.expr>>) \o f[k + 1]

TraceOf(e) == CHOOSE f : f = [k \in DOMAIN code |-> Body(e, f, k)]

LEMMA RunIs == \A e : Run(e) = TraceOf(e)[1]
BY DEF Run, TraceOf, Body, Target

Returned(x) == <<"return">> \o x
Does == Expr \cup { Returned(x) : x \in Expr }

Own(k) ==
    IF code[k].type = "RETURN" THEN <<Returned(code[k].expr)>>
    ELSE IF code[k].type = "IFGOTO" \/ code[k].expr = <<"nothing">> THEN <<>> ELSE <<code[k].expr>>

After(e, k) ==
    IF code[k].type = "RETURN" THEN 0
    ELSE IF code[k].type = "IFGOTO" /\ Taken(e, code[k].expr) THEN Target(code[k]) ELSE k + 1

LEMMA OwnTypes ==
    ASSUME SInv, NEW k \in DOMAIN code
    PROVE  Own(k) \in Seq(Does)
<1>1. code[k] \in Statement
  BY DEF SInv, TypesRight
<1>2. code[k].expr \in Expr
  BY <1>1 DEF Statement
<1>3. code[k].expr \in Does /\ Returned(code[k].expr) \in Does
  BY <1>2 DEF Does
<1> HIDE DEF Does
<1> QED BY <1>3 DEF Own

LEMMA AfterIs ==
    ASSUME SInv, Made, NEW e, NEW k \in DOMAIN code
    PROVE  After(e, k) \in Nat /\ (After(e, k) = 0 \/ After(e, k) \in k + 1 .. Len(code))
<1>1. PICK v, b : Parted(v, b)
  BY MadeWhole DEF Zones, Parted
<1>2. Sizes(v, b)
  BY <1>1, SizesAre
<1>3. code[k].type # "RETURN" => k < Len(code)
  <2>1. TailRight(code, at, <<"this">>)
    BY MadeWhole
  <2>2. code[Len(code)] = Stmt("RETURN", <<"this">>)
    BY <2>1 DEF TailRight
  <2> QED BY <1>2, <2>2, StmtFields DEF Sizes
<1>4. code[k].type = "IFGOTO" => Target(code[k]) \in k + 1 .. Len(code)
  BY <1>1, TargetsAre
<1>5. k \in Nat /\ Len(code) \in Nat
  BY <1>2 DEF Sizes
<1> QED BY <1>3, <1>4, <1>5 DEF After

TraceRight(e) ==
    /\ TraceOf(e) \in [DOMAIN code -> Seq(Does)]
    /\ \A k \in DOMAIN code :
          TraceOf(e)[k] = IF After(e, k) = 0 THEN Own(k) ELSE Own(k) \o TraceOf(e)[After(e, k)]

LEMMA BodyIs ==
    ASSUME SInv, Made, NEW e, NEW k \in DOMAIN code, NEW f,
           After(e, k) # 0 => f[After(e, k)] \in Seq(Does)
    PROVE  Body(e, f, k) = IF After(e, k) = 0 THEN Own(k) ELSE Own(k) \o f[After(e, k)]
<1>1. CASE code[k].type = "RETURN"
  BY <1>1 DEF Body, After, Own, Returned
<1>2. CASE code[k].type # "RETURN"
  <2>1. k + 1 # 0 /\ (code[k].type = "IFGOTO" => Target(code[k]) # 0)
    <3>1. PICK v, b : Parted(v, b)
      BY MadeWhole DEF Zones, Parted
    <3>2. k \in Nat
      BY <3>1, SizesAre DEF Sizes
    <3>3. code[k].type = "IFGOTO" => Target(code[k]) \in k + 1 .. Len(code)
      BY <3>1, TargetsAre
    <3> QED BY <3>2, <3>3
  <2>2. CASE code[k].type = "IFGOTO"
    <3>1. After(e, k) # 0 /\ Own(k) = <<>>
      BY <1>2, <2>1, <2>2 DEF After, Own
    <3>2. Body(e, f, k) = f[After(e, k)]
      BY <1>2, <2>2 DEF Body, After
    <3>3. <<>> \o f[After(e, k)] = f[After(e, k)]
      BY <3>1, ConcatEmptySeq
    <3> QED BY <3>1, <3>2, <3>3
  <2>3. CASE code[k].type # "IFGOTO"
    <3>1. After(e, k) = k + 1
      BY <1>2, <2>3 DEF After
    <3>2. Own(k) = IF code[k].expr = <<"nothing">> THEN <<>> ELSE <<code[k].expr>>
      BY <1>2, <2>3 DEF Own
    <3>3. Body(e, f, k) = Own(k) \o f[k + 1]
      BY <1>2, <2>3, <3>2 DEF Body
    <3> QED BY <2>1, <3>1, <3>3
  <2> QED BY <2>2, <2>3
<1> QED BY <1>1, <1>2

LEMMA TracesAre == ASSUME SInv, Made, NEW e PROVE TraceRight(e)
<1> DEFINE F == TraceOf(e)
<1>1. PICK n : n = Len(code) /\ n \in Nat /\ DOMAIN code = 1..n
  BY Numbers DEF SInv, TypesRight
<1>2. \E f : f = [k \in DOMAIN code |-> Body(e, f, k)]
  <2> DEFINE own == [k \in 1..n |-> Own(k)]
             after == [k \in 1..n |-> After(e, k)]
  <2>1. own \in [1..n -> Seq(Does)]
    BY <1>1, OwnTypes
  <2>2. after \in [1..n -> Nat] /\ \A k \in 1..n : after[k] = 0 \/ after[k] \in k + 1 .. n
    BY <1>1, AfterIs
  <2>3. \A k \in 1..n : own[k] = Own(k) /\ after[k] = After(e, k)
    OBVIOUS
  <2> HIDE DEF own, after
  <2>4. PICK f \in [1..n -> Seq(Does)] : Chained(f, own, after, n)
    BY <1>1, <2>1, <2>2, ForwardFunction
  <2>5. ASSUME NEW k \in 1..n PROVE f[k] = Body(e, f, k)
    <3>1. After(e, k) # 0 => f[After(e, k)] \in Seq(Does)
      <4>1. After(e, k) # 0 => After(e, k) \in 1..n
        BY <2>2, <2>3, <1>1
      <4> QED BY <4>1
    <3>2. Body(e, f, k) = IF After(e, k) = 0 THEN Own(k) ELSE Own(k) \o f[After(e, k)]
      BY <1>1, <3>1, BodyIs
    <3>3. f[k] = IF after[k] = 0 THEN own[k] ELSE own[k] \o f[after[k]]
      BY <2>4 DEF Chained
    <3> QED BY <2>3, <3>2, <3>3
  <2>6. f = [k \in DOMAIN code |-> f[k]]
    BY <1>1
  <2>7. [k \in DOMAIN code |-> f[k]] = [k \in DOMAIN code |-> Body(e, f, k)]
    BY <1>1, <2>5
  <2> QED BY <2>6, <2>7
<1>3. F = [k \in DOMAIN code |-> Body(e, F, k)]
  BY <1>2 DEF TraceOf
<1> HIDE DEF F
<1>4. \A k \in 1..n : F[k] = Body(e, F, k)
  BY <1>1, <1>3
<1> DEFINE S == { j \in 0..n : j # n => F[n - j] \in Seq(Does) }
<1>5. Progressive(S, n)
  <2>1. ASSUME NEW j \in 0..n, \A m \in 0..n : m < j => m \in S, j # n
        PROVE  F[n - j] \in Seq(Does)
    <3>1. PICK k : k = n - j
      OBVIOUS
    <3>2. k \in 1..n
      BY <1>1, <2>1, <3>1
    <3>3. Own(k) \in Seq(Does) /\ After(e, k) \in Nat /\ (After(e, k) = 0 \/ After(e, k) \in k + 1 .. n)
      BY <1>1, <3>2, OwnTypes, AfterIs
    <3>4. After(e, k) # 0 => F[After(e, k)] \in Seq(Does)
      <4> SUFFICES ASSUME After(e, k) # 0 PROVE F[After(e, k)] \in Seq(Does)
        OBVIOUS
      <4>1. PICK a : a = After(e, k)
        OBVIOUS
      <4>2. a \in k + 1 .. n /\ a \in Nat
        BY <3>3, <4>1
      <4>3. n - a \in 0..n /\ n - a < j /\ n - a # n /\ n - (n - a) = a
        BY <1>1, <2>1, <3>1, <3>2, <4>2
      <4>4. n - a \in S
        BY <2>1, <4>3
      <4> QED BY <4>1, <4>3, <4>4
    <3>5. F[k] = IF After(e, k) = 0 THEN Own(k) ELSE Own(k) \o F[After(e, k)]
      BY <1>1, <1>4, <3>2, <3>4, BodyIs
    <3> HIDE DEF Does
    <3>6. F[k] \in Seq(Does)
      BY <3>3, <3>4, <3>5, ConcatProperties
    <3> QED BY <3>1, <3>6
  <2>2. ASSUME NEW j \in 0..n, \A m \in 0..n : m < j => m \in S PROVE j \in S
    BY <2>1, <2>2
  <2> HIDE DEF S
  <2> QED BY <2>2 DEF Progressive
<1>6. \A j \in 0..n : j \in S
  <2> HIDE DEF S
  <2> QED BY <1>1, <1>5, StrongInduction
<1>7. ASSUME NEW k \in 1..n PROVE F[k] \in Seq(Does)
  <2>1. n - k \in 0..n /\ n - k # n /\ n - (n - k) = k
    BY <1>1
  <2> QED BY <1>6, <2>1
<1>8. ASSUME NEW k \in 1..n
      PROVE  F[k] = IF After(e, k) = 0 THEN Own(k) ELSE Own(k) \o F[After(e, k)]
  <2>1. After(e, k) # 0 => After(e, k) \in 1..n
    BY <1>1, AfterIs
  <2>2. After(e, k) # 0 => F[After(e, k)] \in Seq(Does)
    BY <1>7, <2>1
  <2> QED BY <1>1, <1>4, <2>2, BodyIs
<1>9. F \in [DOMAIN code -> Seq(Does)]
  BY <1>1, <1>3, <1>7
<1> QED BY <1>1, <1>8, <1>9 DEF TraceRight, F

\* What a statement adds to a run, and whether it does.
Effective(k) ==
    code[k].type = "RETURN" \/ (code[k].type # "IFGOTO" /\ code[k].expr # <<"nothing">>)
Effect(k) == IF code[k].type = "RETURN" THEN Returned(code[k].expr) ELSE code[k].expr

\* t is what the statements at the positions p do.
AtPositions(t, p) ==
    /\ \A x, y \in 1..Len(t) : x < y => p[x] < p[y]
    /\ \A x \in 1..Len(t) : Effective(p[x]) /\ t[x] = Effect(p[x])

\* t is what the statements from the j-th on do, each one, in their order.
Listed(t, j) ==
    \E p \in [1..Len(t) -> j..Len(code)] :
        /\ AtPositions(t, p)
        /\ \A q \in j..Len(code) : Effective(q) => \E x \in 1..Len(t) : p[x] = q

LEMMA OwnIs == \A k : Own(k) = IF Effective(k) THEN <<Effect(k)>> ELSE <<>>
BY DEF Own, Effective, Effect

LEMMA ListedMore ==
    ASSUME Len(code) \in Nat, NEW k \in 1..Len(code) - 1, Own(k) \in Seq(Does),
           NEW t \in Seq(Does), Listed(t, k + 1)
    PROVE  Listed(Own(k) \o t, k)
<1>1. PICK l : l = Len(code)
  OBVIOUS
<1>2. PICK p \in [1..Len(t) -> k + 1 .. l] :
        /\ AtPositions(t, p)
        /\ \A q \in k + 1 .. l : Effective(q) => \E x \in 1..Len(t) : p[x] = q
  BY <1>1 DEF Listed
<1>3. k \in Nat /\ l \in Nat /\ k < l /\ Len(t) \in Nat
  BY <1>1
<1>4. CASE ~Effective(k)
  <2>1. Own(k) \o t = t
    BY <1>4, OwnIs, ConcatEmptySeq
  <2>2. p \in [1..Len(t) -> k .. l]
    BY <1>3
  <2>3. \A q \in k .. l : Effective(q) => \E x \in 1..Len(t) : p[x] = q
    BY <1>2, <1>3, <1>4
  <2> QED BY <1>1, <1>2, <2>1, <2>2, <2>3 DEF Listed
<1>5. CASE Effective(k)
  <2>1. PICK u : u = Own(k) \o t
    OBVIOUS
  <2>2. Own(k) = <<Effect(k)>> /\ Len(Own(k)) = 1 /\ Own(k)[1] = Effect(k)
    BY <1>5, OwnIs
  <2>3. u \in Seq(Does) /\ Len(u) = Len(t) + 1 /\ u[1] = Effect(k)
        /\ \A x \in 2..Len(t) + 1 : u[x] = t[x - 1]
    <3>1. \A x \in 1..1 + Len(t) : u[x] = IF x <= 1 THEN Own(k)[x] ELSE t[x - 1]
      BY <2>1, <2>2, ConcatProperties
    <3>2. u \in Seq(Does) /\ Len(u) = 1 + Len(t)
      BY <2>1, <2>2, ConcatProperties
    <3> QED BY <1>3, <2>2, <3>1, <3>2
  <2> DEFINE r == [x \in 1..Len(t) + 1 |-> IF x = 1 THEN k ELSE p[x - 1]]
  <2>4. r[1] = k /\ \A x \in 2..Len(t) + 1 : r[x] = p[x - 1] /\ x - 1 \in 1..Len(t)
    BY <1>3
  <2>5. \A x \in 2..Len(t) + 1 : r[x] \in k + 1 .. l
    BY <1>2, <2>4
  <2>6. r \in [1..Len(t) + 1 -> k .. l]
    BY <1>2, <1>3
  <2> HIDE DEF r
  <2>7. ASSUME NEW x \in 1..Len(t) + 1, NEW y \in 1..Len(t) + 1, x < y PROVE r[x] < r[y]
    <3>1. CASE x = 1
      <4>1. y \in 2..Len(t) + 1
        BY <1>3, <2>7, <3>1
      <4> QED BY <1>3, <2>4, <2>5, <3>1, <4>1
    <3>2. CASE x # 1
      <4>1. /\ x \in 2..Len(t) + 1 /\ y \in 2..Len(t) + 1 /\ x - 1 \in 1..Len(t) /\ y - 1 \in 1..Len(t)
            /\ x - 1 < y - 1
        BY <1>3, <2>7, <3>2
      <4> QED BY <1>2, <2>4, <4>1 DEF AtPositions
    <3> QED BY <3>1, <3>2
  <2>8. ASSUME NEW x \in 1..Len(t) + 1 PROVE Effective(r[x]) /\ u[x] = Effect(r[x])
    <3>1. CASE x = 1
      BY <1>5, <2>3, <2>4, <3>1
    <3>2. CASE x # 1
      <4>1. x \in 2..Len(t) + 1 /\ x - 1 \in 1..Len(t)
        BY <1>3, <3>2
      <4> QED BY <1>2, <2>3, <2>4, <4>1 DEF AtPositions
    <3> QED BY <3>1, <3>2
  <2>9. ASSUME NEW q \in k .. l, Effective(q) PROVE \E x \in 1..Len(t) + 1 : r[x] = q
    <3>1. CASE q = k
      BY <1>3, <2>4, <3>1
    <3>2. CASE q # k
      <4>1. q \in k + 1 .. l
        BY <1>3, <3>2
      <4>2. PICK x \in 1..Len(t) : p[x] = q
        BY <1>2, <2>9, <4>1
      <4>3. x + 1 \in 2..Len(t) + 1 /\ x + 1 \in 1..Len(t) + 1 /\ (x + 1) - 1 = x
        BY <1>3
      <4> QED BY <2>4, <4>2, <4>3
    <3> QED BY <3>1, <3>2
  <2>10. Listed(u, k)
    <3>1. r \in [1..Len(u) -> k..Len(code)]
      BY <1>1, <2>3, <2>6
    <3>2. AtPositions(u, r)
      BY <2>3, <2>7, <2>8 DEF AtPositions
    <3>3. \A q \in k..Len(code) : Effective(q) => \E x \in 1..Len(u) : r[x] = q
      BY <1>1, <2>3, <2>9
    <3> QED BY <3>1, <3>2, <3>3 DEF Listed
  <2> QED BY <2>1, <2>10
<1> QED BY <1>4, <1>5

LEMMA ListedLast ==
    ASSUME Len(code) \in Nat \ {0}, Effective(Len(code))
    PROVE  Listed(Own(Len(code)), Len(code))
<1>1. PICK l : l = Len(code)
  OBVIOUS
<1>2. PICK t : t = Own(l)
  OBVIOUS
<1>3. t = <<Effect(l)>> /\ Len(t) = 1 /\ t[1] = Effect(l)
  BY <1>1, <1>2, OwnIs
<1> DEFINE r == [x \in 1..1 |-> l]
<1>4. r \in [1..1 -> l..l] /\ r[1] = l
  BY <1>1
<1> HIDE DEF r
<1>5. AtPositions(t, r)
  BY <1>1, <1>3, <1>4 DEF AtPositions
<1>6. \A q \in l..l : \E x \in 1..1 : r[x] = q
  BY <1>1, <1>4
<1> QED BY <1>1, <1>2, <1>3, <1>4, <1>5, <1>6 DEF Listed

\* From here on nothing jumps.
Straight(e, j) == \A k \in j..Len(code) - 1 : After(e, k) = k + 1

LEMMA StraightListed ==
    ASSUME SInv, Made, NEW e, NEW j \in DOMAIN code, Straight(e, j)
    PROVE  Listed(TraceOf(e)[j], j)
<1> DEFINE F == TraceOf(e)
<1>1. PICK n : n = Len(code) /\ n \in Nat /\ DOMAIN code = 1..n
  BY Numbers DEF SInv, TypesRight
<1>2. n \in Nat \ {0} /\ j \in 1..n
  BY <1>1
<1>3. TraceRight(e)
  BY TracesAre
<1>4. code[n].type = "RETURN"
  BY <1>1, MadeWhole, StmtFields DEF TailRight
<1> DEFINE S == { d \in 0..n - j : Listed(F[n - d], n - d) }
<1>5. 0 \in S
  <2>1. n \in DOMAIN code /\ After(e, n) = 0 /\ Effective(n)
    BY <1>1, <1>2, <1>4 DEF After, Effective
  <2>2. F[n] = Own(n)
    BY <1>3, <2>1 DEF TraceRight
  <2>3. Listed(F[n], n)
    BY <1>1, <1>2, <2>1, <2>2, ListedLast
  <2>4. n - 0 = n /\ 0 \in 0..n - j
    BY <1>2
  <2> HIDE DEF F
  <2> QED BY <2>3, <2>4
<1>6. ASSUME NEW d \in 1..n - j, d - 1 \in S PROVE d \in S
  <2>1. PICK k : k = n - d
    OBVIOUS
  <2>2. k \in 1..n - 1 /\ k \in j..n - 1 /\ n - (d - 1) = k + 1 /\ k + 1 \in 1..n /\ d \in 0..n - j
    BY <1>2, <2>1
  <2>3. Listed(F[k + 1], k + 1)
    <3> HIDE DEF F
    <3> QED BY <1>6, <2>2
  <2>4. After(e, k) = k + 1 /\ k + 1 # 0
    BY <1>1, <2>2 DEF Straight
  <2>5. F[k] = Own(k) \o F[k + 1] /\ F[k + 1] \in Seq(Does)
    <3>1. k \in DOMAIN code /\ k + 1 \in DOMAIN code
      BY <1>1, <2>2
    <3>2. TraceOf(e)[k] = IF After(e, k) = 0 THEN Own(k) ELSE Own(k) \o TraceOf(e)[After(e, k)]
      BY <1>3, <3>1 DEF TraceRight
    <3>3. TraceOf(e)[k + 1] \in Seq(Does)
      BY <1>3, <3>1 DEF TraceRight
    <3>4. After(e, k) # 0
      BY <2>4
    <3> QED BY <2>4, <3>2, <3>3, <3>4
  <2>6. Own(k) \in Seq(Does)
    BY <1>1, <2>2, OwnTypes
  <2> HIDE DEF F
  <2>7. Listed(F[k], k)
    BY <1>1, <2>2, <2>3, <2>5, <2>6, ListedMore
  <2> QED BY <2>1, <2>2, <2>7
<1>7. n - j \in Nat
  BY <1>2
<1>8. \A d \in 0..n - j : d \in S
  <2> HIDE DEF S
  <2> QED BY <1>5, <1>6, <1>7, BoundedInduction
<1>9. n - j \in 0..n - j /\ n - (n - j) = j
  BY <1>2
<1> HIDE DEF F
<1> QED BY <1>8, <1>9 DEF F

-----------------------------------------------------------------------------
(***************************************************************************)
(* The paths through a constructor: out of it at once, or through all that *)
(* comes behind the head, or what is left of that without the flag.        *)
(***************************************************************************)
LEMMA Passed ==
    ASSUME SInv, Made, NEW e, NEW k \in DOMAIN code, code[k].type # "RETURN",
           code[k].type = "IFGOTO" \/ code[k].expr = <<"nothing">>
    PROVE  TraceOf(e)[k] = TraceOf(e)[After(e, k)]
<1>1. TraceRight(e)
  BY TracesAre
<1>2. Own(k) = <<>>
  BY DEF Own
<1>3. After(e, k) \in k + 1 .. Len(code) /\ After(e, k) # 0 /\ After(e, k) \in DOMAIN code
  <2>1. DOMAIN code = 1..Len(code) /\ Len(code) \in Nat
    BY Numbers DEF SInv, TypesRight
  <2>2. After(e, k) # 0
    <3>1. code[k].type = "IFGOTO" => Target(code[k]) \in k + 1 .. Len(code)
      BY TargetsAre, MadeWhole DEF Zones, Parted
    <3> QED BY <2>1, <3>1 DEF After
  <2>3. After(e, k) \in k + 1 .. Len(code)
    BY <2>2, AfterIs
  <2> QED BY <2>1, <2>2, <2>3
<1>4. TraceOf(e)[After(e, k)] \in Seq(Does)
  BY <1>1, <1>3 DEF TraceRight
<1>5. TraceOf(e)[k] = <<>> \o TraceOf(e)[After(e, k)]
  BY <1>1, <1>2, <1>3 DEF TraceRight
<1> QED BY <1>4, <1>5, ConcatEmptySeq

LEMMA PassedOver ==
    ASSUME SInv, Made, NEW e, NEW k \in DOMAIN code,
           \/ code[k] = Nop \/ code[k] = Stmt("BEGINCATCH", <<"nothing">>)
           \/ \E l : code[k] = Label(l)
    PROVE  TraceOf(e)[k] = TraceOf(e)[k + 1]
<1>1. code[k].type \notin {"RETURN", "IFGOTO"} /\ code[k].expr = <<"nothing">>
  BY StmtFields DEF Nop
<1>2. After(e, k) = k + 1
  BY <1>1 DEF After
<1> QED BY <1>1, <1>2, Passed

LEMMA Jumped ==
    ASSUME SInv, Made, NEW v, NEW b, Parted(v, b), NEW e, NEW k \in DOMAIN code, code[k].type = "IFGOTO"
    PROVE  TraceOf(e)[k] = IF ~Taken(e, code[k].expr) THEN TraceOf(e)[k + 1]
                           ELSE IF code[k].label = "allocated" THEN TraceOf(e)[First + 4]
                           ELSE TraceOf(e)[v]
<1>1. TraceOf(e)[k] = TraceOf(e)[After(e, k)]
  BY Passed
<1>2. Target(code[k]) = IF code[k].label = "allocated" THEN First + 4 ELSE v
  BY TargetsAre
<1> QED BY <1>1, <1>2 DEF After

LEMMA ReturnIs == Returned(<<"this">>) = <<"return", "this">>
<1>1. <<"return">> \in Seq({"return", "this"}) /\ <<"this">> \in Seq({"return", "this"})
  OBVIOUS
<1>2. PICK a, c : a = <<"return">> \o <<"this">> /\ c = <<"return", "this">>
  OBVIOUS
<1>3. a \in Seq({"return", "this"}) /\ Len(a) = 2 /\ a[1] = "return" /\ a[2] = "this"
  BY <1>1, <1>2
<1>4. c \in Seq({"return", "this"}) /\ Len(c) = 2 /\ c[1] = "return" /\ c[2] = "this"
  BY <1>2
<1>5. \A k \in 1..2 : a[k] = c[k]
  BY <1>3, <1>4
<1>6. a = c
  BY <1>3, <1>4, <1>5, SeqEqual
<1> QED BY <1>2, <1>6 DEF Returned

\* The head refuses, or is left at its end.
LEMMA ThroughHead ==
    ASSUME SInv, Made, NEW e
    PROVE  Run(e) = IF Refused(e) THEN <<<<"return", "this">>>> ELSE TraceOf(e)[HeadLen + 1]
<1> DEFINE F == TraceOf(e)
<1>1. PICK v, b : Parted(v, b)
  BY MadeWhole DEF Zones, Parted
<1>2. Sizes(v, b)
  BY <1>1, SizesAre
<1>3. Run(e) = F[1]
  BY RunIs
<1>4. HeadRight(code, <<"this">>)
  BY MadeWhole
<1>5. PICK a, c : /\ a = (IF cls.handle THEN 4 ELSE 0) /\ c = (IF func.try THEN 1 ELSE 0)
  OBVIOUS
<1>6. /\ a \in {0, 4} /\ c \in {0, 1} /\ (cls.handle <=> a = 4) /\ (func.try <=> c = 1)
      /\ HeadLen = First + a + c /\ First \in 1..2 /\ HeadLen \in Nat
  <2>1. TypesRight
    BY DEF SInv
  <2> QED BY <1>5, <2>1, Numbers DEF HeadLen
<1>7. 1..HeadLen \subseteq DOMAIN code
  BY <1>2 DEF Sizes
<1>8. F[1] = F[First + 1]
  <2>1. ASSUME NEW k \in 1..First PROVE F[k] = F[k + 1]
    <3>1. k \in DOMAIN code /\ code[k] = Nop
      BY <1>4, <1>6, <1>7 DEF HeadRight
    <3> QED BY <3>1, PassedOver
  <2>2. CASE First = 1
    BY <2>1, <2>2
  <2>3. CASE First = 2
    <3>1. F[1] = F[1 + 1] /\ F[2] = F[2 + 1]
      BY <2>1, <2>3
    <3> QED BY <2>3, <3>1
  <2> HIDE DEF F
  <2> QED BY <1>6, <2>2, <2>3
<1>9. F[First + a + 1] = F[HeadLen + 1]
  <2>1. CASE c = 0
    BY <1>6, <2>1
  <2>2. CASE c = 1
    <3>1. HeadLen \in DOMAIN code /\ code[HeadLen] = Stmt("BEGINCATCH", <<"nothing">>)
      BY <1>4, <1>6, <1>7, <2>2 DEF HeadRight
    <3>2. F[HeadLen] = F[HeadLen + 1]
      BY <3>1, PassedOver
    <3> HIDE DEF F
    <3> QED BY <1>6, <2>2, <3>2
  <2> QED BY <1>6, <2>1, <2>2
<1>10. CASE a = 0
  <2>1. ~Refused(e) /\ First + a + 1 = First + 1
    BY <1>6, <1>10 DEF Refused
  <2> HIDE DEF F
  <2> QED BY <1>3, <1>8, <1>9, <2>1 DEF F
<1>11. CASE a = 4
  <2>1. /\ code[First + 1] = Jump(<<"this">>, "allocated") /\ code[First + 2] = Jump(<<"new">>, "allocated")
        /\ code[First + 3] = Stmt("RETURN", <<"this">>) /\ code[First + 4] = Label("allocated")
        /\ cls.handle
    BY <1>4, <1>6, <1>11 DEF HeadRight
  <2>2. First + 1 \in DOMAIN code /\ First + 2 \in DOMAIN code /\ First + 3 \in DOMAIN code
        /\ First + 4 \in DOMAIN code
    BY <1>6, <1>7, <1>11
  <2>3. F[First + 1] = IF ~Taken(e, <<"this">>) THEN F[(First + 1) + 1] ELSE F[First + 4]
    BY <1>1, <2>1, <2>2, Jumped, StmtFields
  <2>4. F[First + 2] = IF ~Taken(e, <<"new">>) THEN F[(First + 2) + 1] ELSE F[First + 4]
    BY <1>1, <2>1, <2>2, Jumped, StmtFields
  <2>5. F[First + 4] = F[(First + 4) + 1]
    BY <2>1, <2>2, PassedOver
  <2>6. F[First + 3] = <<<<"return", "this">>>>
    <3>1. code[First + 3].type = "RETURN" /\ code[First + 3].expr = <<"this">>
      BY <2>1, StmtFields
    <3>2. After(e, First + 3) = 0 /\ Own(First + 3) = <<Returned(<<"this">>)>>
      BY <3>1 DEF After, Own
    <3>3. F[First + 3] = Own(First + 3)
      BY <2>2, <3>2, TracesAre DEF TraceRight
    <3> QED BY <3>2, <3>3, ReturnIs
  <2>7. (Taken(e, <<"this">>) <=> e.this) /\ (Taken(e, <<"new">>) <=> e.alloc)
    <3>1. <<"this">> # <<"new">> /\ <<"this">> # <<"noflag">> /\ <<"new">> # <<"noflag">>
      OBVIOUS
    <3> QED BY <3>1 DEF Taken
  <2>8. (First + 1) + 1 = First + 2 /\ (First + 2) + 1 = First + 3 /\ (First + 4) + 1 = First + a + 1
    BY <1>6, <1>11
  <2>9. Refused(e) <=> ~e.this /\ ~e.alloc
    BY <2>1 DEF Refused
  <2> HIDE DEF F
  <2>10. F[1] = IF ~e.this /\ ~e.alloc THEN <<<<"return", "this">>>> ELSE F[HeadLen + 1]
    BY <1>8, <1>9, <2>3, <2>4, <2>5, <2>6, <2>7, <2>8
  <2> QED BY <1>3, <2>9, <2>10 DEF F
<1> QED BY <1>6, <1>10, <1>11

\* Where a run that is not refused goes on in a straight line.
Begun(e, v) == IF NV = 0 THEN HeadLen + 1 ELSE IF e.flag THEN HeadLen + 2 ELSE v

LEMMA RunsAre ==
    ASSUME SInv, Made, NEW e, e.flag \in BOOLEAN, NEW v, NEW b, Parted(v, b), ~Refused(e)
    PROVE  Begun(e, v) \in DOMAIN code /\ Listed(Run(e), Begun(e, v))
<1> DEFINE F == TraceOf(e)
<1>1. Sizes(v, b)
  BY SizesAre
<1>2. PICK j : j = Begun(e, v)
  OBVIOUS
<1>3. j \in DOMAIN code /\ HeadLen + 1 <= j /\ (NV > 0 => HeadLen + 1 < j)
  BY <1>1, <1>2 DEF Sizes, Begun
<1>4. Run(e) = F[HeadLen + 1]
  BY ThroughHead
<1>5. Run(e) = F[j]
  <2>1. CASE NV = 0
    BY <1>2, <1>4, <2>1 DEF Begun
  <2>2. CASE NV # 0
    <3>1. NV > 0 /\ HeadLen + 1 \in DOMAIN code
      BY <1>1, <2>2 DEF Sizes
    <3>2. code[HeadLen + 1] = Jump(<<"noflag">>, "nobases")
      BY <2>2 DEF Parted, VirtualsRight, VBaseZone
    <3>3. "nobases" # "allocated" /\ (Taken(e, <<"noflag">>) <=> ~e.flag)
      <4>1. <<"this">> # <<"noflag">> /\ <<"new">> # <<"noflag">>
        OBVIOUS
      <4> QED BY <4>1 DEF Taken
    <3>4. F[HeadLen + 1] = IF e.flag THEN F[(HeadLen + 1) + 1] ELSE F[v]
      BY <3>1, <3>2, <3>3, Jumped, StmtFields
    <3>5. (HeadLen + 1) + 1 = HeadLen + 2
      BY <1>1 DEF Sizes
    <3> HIDE DEF F
    <3> QED BY <1>2, <1>4, <2>2, <3>4, <3>5 DEF Begun
  <2> QED BY <2>1, <2>2
<1>6. Straight(e, j)
  <2> SUFFICES ASSUME NEW k \in j..Len(code) - 1 PROVE After(e, k) = k + 1
    BY DEF Straight
  <2>1. k \in DOMAIN code /\ HeadLen < k /\ k # Len(code) /\ (NV > 0 => k # HeadLen + 1)
    <3>1. HeadLen \in Nat /\ NV \in Nat /\ Len(code) \in Nat /\ DOMAIN code = 1..Len(code)
      BY <1>1 DEF Sizes
    <3>2. j \in Nat /\ j <= k /\ k < Len(code) /\ k \in Nat /\ k > 0
      BY <1>3, <3>1
    <3>3. k \in DOMAIN code
      BY <3>1, <3>2
    <3>4. HeadLen < k
      BY <1>3, <3>1, <3>2
    <3>6. k # Len(code)
      <4>1. PICK l : l = Len(code)
        OBVIOUS
      <4>2. l \in Nat /\ k < l /\ k \in Nat
        BY <3>1, <3>2, <4>1
      <4> QED BY <4>1, <4>2
    <3>5. NV > 0 => k # HeadLen + 1
      BY <1>3, <3>1, <3>2
    <3> QED BY <3>3, <3>4, <3>5, <3>6
  <2>2. cls.handle => k # First + 1 /\ k # First + 2 /\ k # First + 3
    BY <1>1, <2>1 DEF Sizes
  <2>3. code[k].type \notin {"RETURN", "IFGOTO"}
    BY <2>1, <2>2, LabelPlaces
  <2> QED BY <2>3 DEF After
<1>7. Listed(F[j], j)
  BY <1>3, <1>6, StraightListed
<1> HIDE DEF F
<1> QED BY <1>2, <1>3, <1>5, <1>7

-----------------------------------------------------------------------------
(***************************************************************************)
(* From the inside out: the rank of what is done grows with its position.  *)
(***************************************************************************)
Graded(x, q, v, b) ==
    \/ Rank(x) = 1 /\ NV > 0 /\ q <= VStart
    \/ Rank(x) = 2 /\ q <= b /\ (NV > 0 => VStart < q)
    \/ Rank(x) = 3 /\ q = b + 1
    \/ Rank(x) = 4 /\ b < q /\ q <= at
    \/ Rank(x) = 5 /\ q = at + 1 /\ q < Len(code)
    \/ Rank(x) = 6 /\ q = Len(code)

LEMMA Ranks ==
    /\ \A n : Rank(<<"pointer", n>>) = 1 /\ Rank(<<"vbase", n>>) = 2 /\ Rank(<<"member", n>>) = 4
    /\ Rank(<<"garbage">>) = 2 /\ Rank(<<"new">>) = 2 /\ Rank(<<"vtable">>) = 3 /\ Rank(<<"copies">>) = 4
    /\ Rank(<<"body">>) = 5 /\ Rank(<<"return", "this">>) = 6
<1>1. \A w, n : <<w>>[1] = w /\ <<w, n>>[1] = w
  OBVIOUS
<1> QED BY <1>1 DEF Rank

LEMMA AllGraded ==
    ASSUME SInv, Made, NEW v, NEW b, Parted(v, b), NEW q \in HeadLen + 1 .. Len(code), Effective(q)
    PROVE  Graded(Effect(q), q, v, b)
<1>1. Sizes(v, b)
  BY SizesAre
<1>2. q \in DOMAIN code /\ q \in Nat /\ q \notin 1..HeadLen
  BY <1>1 DEF Sizes
<1>3. CASE q \in HeadLen + 1 .. v /\ InVBases(q, v)
  <2>1. NV > 0 /\ VStart < v /\ v <= b
    BY <1>1, <1>3 DEF InVBases, Sizes
  <2>2. CASE \E n \in 1..NV : q = HeadLen + 1 + n /\ code[q] = Stmt("EXPRESSION", <<"pointer", n>>)
    <3>1. PICK n \in 1..NV : q = HeadLen + 1 + n /\ code[q] = Stmt("EXPRESSION", <<"pointer", n>>)
      BY <2>2
    <3>2. q <= VStart
      BY <1>1, <3>1 DEF Sizes
    <3>3. Effect(q) = <<"pointer", n>>
      BY <3>1, StmtFields DEF Effect
    <3> QED BY <2>1, <3>2, <3>3, Ranks DEF Graded
  <2>3. CASE q \in VStart + 1 .. v - 1 /\ \E u \in 1..NV : VBaseMade(u) /\ code[q] = VBaseStmt(u)
    <3>1. PICK u \in 1..NV : code[q] = Stmt("EXPRESSION", <<"vbase", u>>)
      BY <2>3 DEF VBaseStmt
    <3>2. Effect(q) = <<"vbase", u>>
      BY <3>1, StmtFields DEF Effect
    <3>3. q <= b /\ VStart < q
      BY <1>1, <2>3 DEF Sizes
    <3> QED BY <3>2, <3>3, Ranks DEF Graded
  <2>4. code[q] # Label("nobases") /\ code[q] # Jump(<<"noflag">>, "nobases")
    BY StmtFields DEF Effective
  <2> QED BY <1>3, <2>2, <2>3, <2>4 DEF InVBases
<1>4. CASE q \in v + 1 .. at /\ InObject(q, v, b)
  <2>1. CASE q \in v + 1 .. b /\ code[q] \in BaseStmts
    <3>1. \/ Effect(q) = <<"garbage">> \/ Effect(q) = <<"new">>
          \/ \E u \in 1..NV : Effect(q) = <<"vbase", u>>
      BY <2>1, BaseStmtTypes DEF Effect
    <3>2. q <= b /\ (NV > 0 => VStart < q)
      BY <1>1, <2>1 DEF Sizes
    <3>3. Rank(Effect(q)) = 2
      BY <3>1, Ranks
    <3> QED BY <3>2, <3>3 DEF Graded
  <2>2. CASE /\ q \in b + 1 .. at /\ code[q].type = "EXPRESSION" /\ code[q].expr \in ObjectExprs
             /\ q # b + 1 => code[q].expr # <<"vtable">>
    <3>1. Effect(q) = code[q].expr /\ code[q].expr # <<"nothing">>
      BY <2>2 DEF Effect, Effective
    <3>2. b < q /\ q <= at
      BY <1>1, <2>2 DEF Sizes
    <3>3. CASE Effect(q) = <<"vtable">>
      BY <2>2, <3>1, <3>3, Ranks DEF Graded
    <3>4. CASE Effect(q) = <<"copies">> \/ \E n \in Nat : Effect(q) = <<"member", n>>
      <4>1. Rank(Effect(q)) = 4
        BY <3>4, Ranks
      <4> QED BY <3>2, <4>1 DEF Graded
    <3>5. ASSUME Effect(q) \in {"member"} \X Nat PROVE \E n \in Nat : Effect(q) = <<"member", n>>
      BY <3>5
    <3> QED BY <2>2, <3>1, <3>3, <3>4, <3>5 DEF ObjectExprs
  <2> QED BY <1>4, <2>1, <2>2 DEF InObject
<1>5. CASE q \in at + 1 .. Len(code) /\ InTail(q)
  <2>1. CASE q = at + 1 /\ q < Len(code) /\ code[q] = Stmt("EXPRESSION", <<"body">>)
    <3>1. Effect(q) = <<"body">>
      BY <2>1, StmtFields DEF Effect
    <3> QED BY <2>1, <3>1, Ranks DEF Graded
  <2>2. CASE q = Len(code) /\ code[q] = Stmt("RETURN", <<"this">>)
    <3>1. Effect(q) = <<"return", "this">>
      BY <2>2, StmtFields, ReturnIs DEF Effect
    <3> QED BY <2>2, <3>1, Ranks DEF Graded
  <2> QED BY <1>5, <2>1, <2>2 DEF InTail
<1> QED BY <1>2, <1>3, <1>4, <1>5, Places DEF Placed

LEMMA Grades ==
    ASSUME NEW v, NEW b, Sizes(v, b), NEW x, NEW y, NEW q \in Nat, NEW r \in Nat, q < r,
           Graded(x, q, v, b), Graded(y, r, v, b)
    PROVE  Rank(x) <= Rank(y)
<1>1. PICK l, a, s : l = Len(code) /\ a = at /\ s = VStart
  OBVIOUS
<1>2. /\ l \in Nat /\ a \in Nat /\ b \in Nat /\ v \in Nat /\ s \in Nat /\ v <= b /\ b <= a /\ a < l
      /\ NV > 0 => s < v
  BY <1>1 DEF Sizes
<1>3. PICK m, n : m = Rank(x) /\ n = Rank(y)
  OBVIOUS
<1>4. \/ m = 1 /\ NV > 0 /\ q <= s
      \/ m = 2 /\ q <= b /\ (NV > 0 => s < q)
      \/ m = 3 /\ q = b + 1
      \/ m = 4 /\ b < q /\ q <= a
      \/ m = 5 /\ q = a + 1 /\ q < l
      \/ m = 6 /\ q = l
  BY <1>1, <1>3 DEF Graded
<1>5. \/ n = 1 /\ NV > 0 /\ r <= s
      \/ n = 2 /\ r <= b /\ (NV > 0 => s < r)
      \/ n = 3 /\ r = b + 1
      \/ n = 4 /\ b < r /\ r <= a
      \/ n = 5 /\ r = a + 1 /\ r < l
      \/ n = 6 /\ r = l
  BY <1>1, <1>3 DEF Graded
<1>6. m <= n
  BY <1>2, <1>4, <1>5
<1> QED BY <1>3, <1>6

LEMMA InsideOutIs == ASSUME SInv PROVE InsideOut
<1> SUFFICES ASSUME Made, NEW e \in Calls, NEW k \in DOMAIN Run(e), NEW n \in DOMAIN Run(e), k < n
             PROVE  Rank(Run(e)[k]) <= Rank(Run(e)[n])
  BY DEF InsideOut
<1>1. CASE Refused(e)
  <2>1. DOMAIN Run(e) = 1..1
    BY <1>1, ThroughHead
  <2>2. k = 1 /\ n = 1
    BY <2>1
  <2> QED BY <2>2
<1>2. CASE ~Refused(e)
  <2>1. PICK v, b : Parted(v, b)
    BY MadeWhole DEF Zones, Parted
  <2>2. Sizes(v, b)
    BY <2>1, SizesAre
  <2>3. PICK t : t = Run(e)
    OBVIOUS
  <2>4. PICK j : j = Begun(e, v)
    OBVIOUS
  <2>5. e.flag \in BOOLEAN
    BY DEF Calls
  <2>6. j \in DOMAIN code /\ Listed(t, j)
    BY <1>2, <2>1, <2>3, <2>4, <2>5, RunsAre
  <2>7. HeadLen + 1 <= j
    BY <2>2, <2>4 DEF Begun, Sizes
  <2>8. PICK p \in [1..Len(t) -> j..Len(code)] : AtPositions(t, p)
    BY <2>6 DEF Listed
  <2>9. DOMAIN t = 1..Len(t)
    <3>1. Run(e) = TraceOf(e)[1] /\ 1 \in DOMAIN code
      BY <2>2, RunIs DEF Sizes
    <3>2. t \in Seq(Does)
      BY <2>3, <3>1, TracesAre DEF TraceRight
    <3> QED BY <3>2
  <2>10. k \in 1..Len(t) /\ n \in 1..Len(t)
    BY <2>3, <2>9
  <2>11. /\ p[k] < p[n] /\ Effective(p[k]) /\ t[k] = Effect(p[k]) /\ Effective(p[n]) /\ t[n] = Effect(p[n])
    BY <2>8, <2>10 DEF AtPositions
  <2>12. /\ p[k] \in HeadLen + 1 .. Len(code) /\ p[n] \in HeadLen + 1 .. Len(code)
         /\ p[k] \in Nat /\ p[n] \in Nat
    BY <2>2, <2>6, <2>7, <2>8, <2>10 DEF Sizes
  <2>13. Graded(t[k], p[k], v, b) /\ Graded(t[n], p[n], v, b)
    BY <2>1, <2>11, <2>12, AllGraded
  <2> QED BY <2>2, <2>3, <2>11, <2>12, <2>13, Grades
<1> QED BY <1>1, <1>2

\* For every class and call: on each path of a constructor the pointers to
\* virtual bases come first, then bases, virtual tables, members and the body.
THEOREM PartsFromTheInside == Spec => []InsideOut
BY SInvHolds, InsideOutIs, PTL

-----------------------------------------------------------------------------
(***************************************************************************)
(* What a path does is counted by the positions.                           *)
(***************************************************************************)
LEMMA RunTypes == ASSUME SInv, Made, NEW e PROVE Run(e) \in Seq(Does)
<1>1. PICK v, b : Parted(v, b)
  BY MadeWhole DEF Zones, Parted
<1>2. 1 \in DOMAIN code
  BY <1>1, SizesAre DEF Sizes
<1> QED BY <1>2, RunIs, TracesAre DEF TraceRight

\* How often x is done from the j-th statement on.
Counted(t, x, j) ==
    /\ (\A q \in j..Len(code) : Effective(q) => Effect(q) # x) => Count(t, x) = 0
    /\ (\E q \in j..Len(code) : Effective(q) /\ Effect(q) = x) => Count(t, x) >= 1
    /\ (\E r \in j..Len(code) : Effective(r) /\ Effect(r) = x /\
          \A q \in j..Len(code) : Effective(q) /\ Effect(q) = x => q = r) => Count(t, x) = 1

LEMMA CountedIs ==
    ASSUME NEW t \in Seq(Does), NEW j \in 1..Len(code), Len(code) \in Nat, Listed(t, j), NEW x
    PROVE  Counted(t, x, j)
<1> DEFINE I == { k \in DOMAIN t : t[k] = x }
<1>1. Len(t) \in Nat /\ DOMAIN t = 1..Len(t)
  OBVIOUS
<1>2. IsFiniteSet(I) /\ Cardinality(I) \in Nat
  <2>1. IsFiniteSet(1..Len(t))
    BY <1>1, FS_Interval
  <2>2. I \subseteq 1..Len(t)
    BY <1>1
  <2> HIDE DEF I
  <2> QED BY <2>1, <2>2, FS_Subset, FS_CardinalityType
<1>3. Count(t, x) = Cardinality(I)
  BY DEF Count
<1>4. PICK p \in [1..Len(t) -> j..Len(code)] :
        /\ AtPositions(t, p)
        /\ \A q \in j..Len(code) : Effective(q) => \E n \in 1..Len(t) : p[n] = q
  BY DEF Listed
<1>5. ASSUME NEW k \in I
      PROVE  k \in 1..Len(t) /\ p[k] \in j..Len(code) /\ Effective(p[k]) /\ Effect(p[k]) = x
  BY <1>1, <1>4 DEF AtPositions
<1>6. ASSUME NEW q \in j..Len(code), Effective(q), Effect(q) = x
      PROVE  \E k \in I : p[k] = q
  <2>1. PICK k \in 1..Len(t) : p[k] = q
    BY <1>4, <1>6
  <2>2. t[k] = x
    BY <1>4, <1>6, <2>1 DEF AtPositions
  <2> QED BY <1>1, <2>1, <2>2
<1> HIDE DEF I
<1>7. ASSUME \A q \in j..Len(code) : Effective(q) => Effect(q) # x
      PROVE  Count(t, x) = 0
  <2>1. I = {}
    BY <1>5, <1>7
  <2> QED BY <1>3, <2>1, FS_EmptySet
<1>8. ASSUME NEW q \in j..Len(code), Effective(q), Effect(q) = x
      PROVE  Count(t, x) >= 1
  <2>1. I # {}
    BY <1>6, <1>8
  <2>2. Cardinality(I) # 0
    BY <1>2, <2>1, FS_EmptySet
  <2> QED BY <1>2, <1>3, <2>2
<1>9. ASSUME NEW r \in j..Len(code), Effective(r), Effect(r) = x,
             \A q \in j..Len(code) : Effective(q) /\ Effect(q) = x => q = r
      PROVE  Count(t, x) = 1
  <2>1. PICK k \in I : p[k] = r
    BY <1>6, <1>9
  <2>2. ASSUME NEW n \in I PROVE n = k
    <3>1. p[n] = r /\ p[k] = r /\ n \in 1..Len(t) /\ k \in 1..Len(t)
      BY <1>5, <1>9, <2>1
    <3>2. r \in Int
      BY <1>9
    <3>3. ~(n < k) /\ ~(k < n)
      BY <1>4, <3>1, <3>2 DEF AtPositions
    <3> QED BY <3>1, <3>3
  <2>3. I = {k}
    BY <2>2
  <2>4. Cardinality({k}) = 1
    BY FS_Singleton
  <2> QED BY <1>3, <2>3, <2>4
<1> QED BY <1>7, <1>8, <1>9 DEF Counted

-----------------------------------------------------------------------------
(***************************************************************************)
(* Where the virtual bases are made.                                       *)
(***************************************************************************)
LEMMA ObjectEffects ==
    ASSUME SInv, Made, NEW v, NEW b, Parted(v, b), NEW q \in v + 1 .. Len(code), Effective(q)
    PROVE  /\ \A n : Effect(q) # <<"pointer", n>>
           /\ q > b => \A n : Effect(q) # <<"vbase", n>>
           /\ Effect(q) = <<"new">> => Reallocates /\ q <= b
<1>1. Sizes(v, b)
  BY SizesAre
<1>2. q \in DOMAIN code /\ q \notin 1..HeadLen /\ q \notin HeadLen + 1 .. v
  BY <1>1 DEF Sizes
<1>3. CASE q \in v + 1 .. at /\ InObject(q, v, b)
  <2>1. CASE q \in v + 1 .. b /\ code[q] \in BaseStmts
    <3>1. \/ Effect(q) = <<"garbage">> \/ \E u \in 1..NV : Effect(q) = <<"vbase", u>>
          \/ Effect(q) = <<"new">> /\ Reallocates
      BY <2>1, BaseStmtTypes DEF Effect
    <3>2. ~(q > b) /\ q <= b
      BY <1>1, <2>1 DEF Sizes
    <3>3. \A n : <<"pointer", n>> # <<"new">> /\ <<"vbase", n>> # <<"new">>
      OBVIOUS
    <3>4. <<"garbage">> # <<"new">>
      OBVIOUS
    <3> QED BY <3>1, <3>2, <3>3, <3>4
  <2>2. CASE code[q].type = "EXPRESSION" /\ code[q].expr \in ObjectExprs
    <3>1. Effect(q) \in ObjectExprs
      BY <2>2 DEF Effect
    <3>2. /\ \A n : <<"pointer", n>> \notin ObjectExprs /\ <<"vbase", n>> \notin ObjectExprs
          /\ <<"new">> \notin ObjectExprs
      BY DEF ObjectExprs
    <3> QED BY <3>1, <3>2
  <2> QED BY <1>3, <2>1, <2>2 DEF InObject
<1>4. CASE q \in at + 1 .. Len(code) /\ InTail(q)
  <2>1. Effect(q) = <<"body">> \/ Effect(q) = <<"return", "this">>
    BY <1>4, StmtFields, ReturnIs DEF InTail, Effect
  <2> QED BY <2>1
<1> QED BY <1>2, <1>3, <1>4, Places DEF Placed

LEMMA VBaseEffects ==
    ASSUME SInv, Made, NEW v, NEW b, Parted(v, b), NEW q \in HeadLen + 2 .. v, Effective(q)
    PROVE  \/ \E n \in 1..NV : q = HeadLen + 1 + n /\ Effect(q) = <<"pointer", n>>
           \/ /\ q \in VStart + 1 .. v - 1
              /\ \E u \in 1..NV : VBaseMade(u) /\ code[q] = VBaseStmt(u) /\ Effect(q) = <<"vbase", u>>
<1>1. Sizes(v, b)
  BY SizesAre
<1>2. q \in HeadLen + 1 .. v /\ q # HeadLen + 1
  BY <1>1 DEF Sizes
<1>3. InVBases(q, v)
  BY <1>2, PlacedVBases
<1>4. code[q] # Label("nobases")
  BY StmtFields DEF Effective
<1>5. CASE \E n \in 1..NV : q = HeadLen + 1 + n /\ code[q] = Stmt("EXPRESSION", <<"pointer", n>>)
  <2>1. PICK n \in 1..NV : q = HeadLen + 1 + n /\ code[q] = Stmt("EXPRESSION", <<"pointer", n>>)
    BY <1>5
  <2>2. Effect(q) = <<"pointer", n>>
    BY <2>1, StmtFields DEF Effect
  <2> QED BY <2>1, <2>2
<1>6. CASE q \in VStart + 1 .. v - 1 /\ \E u \in 1..NV : VBaseMade(u) /\ code[q] = VBaseStmt(u)
  <2>1. PICK u \in 1..NV : VBaseMade(u) /\ code[q] = VBaseStmt(u)
    BY <1>6
  <2>2. Effect(q) = <<"vbase", u>>
    BY <2>1, StmtFields DEF Effect, VBaseStmt
  <2> QED BY <1>6, <2>1, <2>2
<1> QED BY <1>2, <1>3, <1>4, <1>5, <1>6 DEF InVBases

\* x is done as often as there are positions of it.
LEMMA CountedPositions ==
    ASSUME NEW t \in Seq(Does), NEW j \in 1..Len(code), Len(code) \in Nat, Listed(t, j), NEW x,
           NEW Q, Q = { q \in j..Len(code) : Effective(q) /\ Effect(q) = x }
    PROVE  Count(t, x) = Cardinality(Q)
<1> DEFINE I == { k \in DOMAIN t : t[k] = x }
<1>1. Len(t) \in Nat /\ DOMAIN t = 1..Len(t)
  OBVIOUS
<1>2. IsFiniteSet(I)
  <2>1. IsFiniteSet(1..Len(t))
    BY <1>1, FS_Interval
  <2>2. I \subseteq 1..Len(t)
    BY <1>1
  <2> HIDE DEF I
  <2> QED BY <2>1, <2>2, FS_Subset
<1>3. Count(t, x) = Cardinality(I)
  BY DEF Count
<1>4. PICK p \in [1..Len(t) -> j..Len(code)] :
        /\ AtPositions(t, p)
        /\ \A q \in j..Len(code) : Effective(q) => \E n \in 1..Len(t) : p[n] = q
  BY DEF Listed
<1>5. ASSUME NEW k \in I PROVE k \in 1..Len(t) /\ p[k] \in Q
  BY <1>1, <1>4 DEF AtPositions
<1>6. ASSUME NEW q \in Q PROVE \E k \in I : p[k] = q
  <2>1. PICK k \in 1..Len(t) : p[k] = q
    BY <1>4, <1>6
  <2>2. t[k] = x
    BY <1>4, <1>6, <2>1 DEF AtPositions
  <2> QED BY <1>1, <2>1, <2>2
<1> HIDE DEF I
<1>7. ASSUME NEW k \in I, NEW n \in I, p[k] = p[n] PROVE k = n
  <2>1. k \in 1..Len(t) /\ n \in 1..Len(t)
    BY <1>5
  <2>2. p[k] \in Int
    BY <1>4, <2>1
  <2>3. ~(n < k) /\ ~(k < n)
    BY <1>4, <1>7, <2>1, <2>2 DEF AtPositions
  <2> QED BY <2>1, <2>3
<1> DEFINE f == [k \in I |-> p[k]]
<1>8. f \in Bijection(I, Q)
  <2>1. f \in [I -> Q]
    BY <1>5
  <2>2. \A k, n \in I : f[k] = f[n] => k = n
    BY <1>7
  <2>3. \A q \in Q : \E k \in I : f[k] = q
    BY <1>6
  <2> HIDE DEF f
  <2> QED BY <2>1, <2>2, <2>3, Fun_IsBij
<1>9. ExistsBijection(I, Q)
  BY <1>8 DEF ExistsBijection
<1> QED BY <1>2, <1>3, <1>9, FS_Bijection

-----------------------------------------------------------------------------
(***************************************************************************)
(* How often a handle is allocated, and what each path ends with.          *)
(***************************************************************************)
LEMMA RefusedAllocates ==
    ASSUME SInv, Made, NEW e, Refused(e)
    PROVE  Count(Run(e), <<"new">>) = 0
<1>1. PICK t, x : t = Run(e) /\ x = <<"return", "this">>
  OBVIOUS
<1>2. t = <<x>> /\ DOMAIN t = 1..1 /\ t[1] = x
  BY <1>1, ThroughHead
<1>3. x # <<"new">>
  BY <1>1
<1>4. { n \in DOMAIN t : t[n] = <<"new">> } = {}
  BY <1>2, <1>3
<1> QED BY <1>1, <1>4, FS_EmptySet DEF Count

LEMMA OthersAre ==
    ASSUME SInv, NEW m, m = Len(cls.bases) + 1
    PROVE  OthersBefore(m) = OtherBases /\ IsFiniteSet(OtherBases) /\ Cardinality(OtherBases) \in Nat
<1>1. cls.bases \in Seq(UNION { Bases(n) : n \in Nat })
  BY DEF SInv, TypesRight
<1>2. m - 1 = Len(cls.bases) /\ DOMAIN cls.bases = 1..Len(cls.bases) /\ Len(cls.bases) \in Nat
  BY <1>1
<1>3. IsFiniteSet(1..Len(cls.bases)) /\ OtherBases \subseteq 1..Len(cls.bases)
  BY <1>2, FS_Interval DEF OtherBases
<1> QED BY <1>2, <1>3, FS_Subset, FS_CardinalityType DEF OthersBefore, OtherBases

LEMMA AllocatesUntested ==
    ASSUME SInv, Made, NEW e, e.flag \in BOOLEAN, ~Refused(e)
    PROVE  Count(Run(e), <<"new">>) = Untested
<1>1. PICK v, b : Parted(v, b)
  BY MadeWhole DEF Zones, Parted
<1>2. Sizes(v, b)
  BY <1>1, SizesAre
<1>3. PICK j : j = Begun(e, v)
  OBVIOUS
<1>4. j \in 1..Len(code) /\ Len(code) \in Nat /\ Listed(Run(e), j)
  <2>1. DOMAIN code = 1..Len(code) /\ Len(code) \in Nat
    BY <1>2 DEF Sizes
  <2> QED BY <1>1, <1>3, <2>1, RunsAre
<1>5. PICK Q : Q = { q \in j..Len(code) : Effective(q) /\ Effect(q) = <<"new">> }
  OBVIOUS
<1>6. Count(Run(e), <<"new">>) = Cardinality(Q)
  BY <1>4, <1>5, RunTypes, CountedPositions
<1>7. Reallocates => NV = 0 /\ j = v + 1
  <2>1. Reallocates => NV = 0
    BY DEF Reallocates, NV
  <2> QED BY <1>2, <1>3, <2>1 DEF Begun, Sizes
<1>8. ASSUME NEW q \in Q PROVE Reallocates /\ q \in v + 1 .. b
  <2>1. q \in j..Len(code) /\ Effective(q) /\ Effect(q) = <<"new">>
    BY <1>5
  <2>2. CASE q \in v + 1 .. Len(code)
    BY <1>1, <1>2, <2>1, <2>2, ObjectEffects DEF Sizes
  <2>3. CASE q \notin v + 1 .. Len(code)
    <3>1. q \in HeadLen + 2 .. v
      BY <1>2, <1>3, <1>4, <2>1, <2>3 DEF Begun, Sizes
    <3>2. \A n : <<"pointer", n>> # <<"new">> /\ <<"vbase", n>> # <<"new">>
      OBVIOUS
    <3> QED BY <1>1, <2>1, <3>1, <3>2, VBaseEffects
  <2> QED BY <2>2, <2>3
<1>9. CASE Reallocates
  <2>1. ASSUME NEW q \in v + 1 .. b PROVE q \in Q
    <3>1. q \in v + 1 .. Len(code) /\ q \in j..Len(code)
      BY <1>2, <1>7, <1>9 DEF Sizes
    <3>2. code[q] \in BaseStmts
      BY <1>1 DEF Parted, BaseZone
    <3>3. code[q].type = "EXPRESSION" /\ code[q].expr = <<"new">>
      BY <1>9, <3>2, BaseStmtTypes
    <3>4. <<"new">> # <<"nothing">>
      OBVIOUS
    <3> QED BY <1>5, <3>1, <3>3, <3>4 DEF Effective, Effect
  <2>2. Q = v + 1 .. b
    BY <1>8, <2>1
  <2>3. v \in Nat /\ b \in Nat /\ v <= b
    BY <1>2 DEF Sizes
  <2>4. Cardinality(Q) = b - v
    <3>1. v + 1 \in Int /\ b \in Int
      BY <2>3
    <3>2. Cardinality(v + 1 .. b) = IF v + 1 > b THEN 0 ELSE b - (v + 1) + 1
      BY <3>1, FS_Interval
    <3> QED BY <2>2, <2>3, <3>2
  <2>5. PICK m : m = Len(cls.bases) + 1
    OBVIOUS
  <2>6. b = v + Cardinality(OthersBefore(m))
    BY <1>1, <1>9, <2>5 DEF Parted, BaseZone
  <2>7. Cardinality(OtherBases) \in Nat /\ b = v + Cardinality(OtherBases)
    BY <2>5, <2>6, OthersAre
  <2>8. Cardinality(Q) = Cardinality(OtherBases)
    BY <2>3, <2>4, <2>7
  <2> QED BY <1>6, <1>9, <2>8 DEF Untested, Reallocates
<1>10. CASE ~Reallocates
  <2>1. Q = {}
    BY <1>8, <1>10
  <2> QED BY <1>6, <1>10, <2>1, FS_EmptySet DEF Untested, Reallocates
<1> QED BY <1>9, <1>10

LEMMA ReturnsThis ==
    ASSUME SInv, Made, NEW e \in Calls
    PROVE  /\ Refused(e) => Len(Run(e)) = 1
           /\ Last(Run(e)) = <<"return", "this">>
<1>1. CASE Refused(e)
  <2>1. PICK t, x : t = Run(e) /\ x = <<"return", "this">>
    OBVIOUS
  <2>2. t = <<x>>
    BY <1>1, <2>1, ThroughHead
  <2>3. Len(t) = 1 /\ t[1] = x
    BY <2>2
  <2> QED BY <2>1, <2>3 DEF Last
<1>2. CASE ~Refused(e)
  <2>1. PICK v, b : Parted(v, b)
    BY MadeWhole DEF Zones, Parted
  <2>2. PICK l : l = Len(code) /\ l \in Nat /\ DOMAIN code = 1..l
    BY <2>1, SizesAre DEF Sizes
  <2>3. PICK t, j : t = Run(e) /\ j = Begun(e, v)
    OBVIOUS
  <2>4. j \in 1..l /\ Listed(t, j)
    <3>1. e.flag \in BOOLEAN
      BY DEF Calls
    <3> QED BY <1>2, <2>1, <2>2, <2>3, <3>1, RunsAre
  <2>5. PICK p \in [1..Len(t) -> j..l] :
            /\ AtPositions(t, p)
            /\ \A q \in j..l : Effective(q) => \E x \in 1..Len(t) : p[x] = q
    BY <2>2, <2>4 DEF Listed
  <2>6. Len(t) \in Nat
    BY <2>3, RunTypes
  <2>7. code[l].type = "RETURN" /\ code[l].expr = <<"this">>
    BY <2>2, MadeWhole, StmtFields DEF TailRight
  <2>8. PICK x \in 1..Len(t) : p[x] = l
    BY <2>2, <2>4, <2>5, <2>7 DEF Effective
  <2>9. x = Len(t)
    <3> SUFFICES ASSUME x < Len(t) PROVE FALSE
      BY <2>6
    <3>1. Len(t) \in 1..Len(t)
      BY <2>6
    <3>2. p[x] < p[Len(t)] /\ p[Len(t)] \in j..l
      BY <2>5, <3>1 DEF AtPositions
    <3> QED BY <2>2, <2>4, <2>8, <3>2
  <2>10. t[Len(t)] = Effect(l)
    BY <2>5, <2>8, <2>9 DEF AtPositions
  <2>11. Effect(l) = <<"return", "this">>
    BY <2>7, ReturnIs DEF Effect
  <2> QED BY <1>2, <2>3, <2>10, <2>11 DEF Last
<1> QED BY <1>1, <1>2

LEMMA NullIs == ASSUME SInv PROVE NullIsReturned
<1> SUFFICES ASSUME Made, NEW e \in Calls
             PROVE  /\ Refused(e) => Len(Run(e)) = 1
                    /\ Last(Run(e)) = <<"return", "this">>
                    /\ Count(Run(e), <<"new">>) = IF Refused(e) THEN 0 ELSE Untested
  BY DEF NullIsReturned
<1>1. e.flag \in BOOLEAN
  BY DEF Calls
<1> QED BY <1>1, ReturnsThis, RefusedAllocates, AllocatesUntested

LEMMA WithinAtEndInit == Init => WithinAtEnd
BY DEF Init, WithinAtEnd, CleanupWithin

\* For every class and call: each path of a constructor ends with the return of
\* this, the jumps go forward to the one place of their label, a handle that has
\* no storage at first is left alone, and behind that test there are as many
\* allocations as a handle class has bases, if none is virtual and it is not copied.
THEOREM EveryPathDoesReturn == Spec => []EveryPathReturns
<1>1. SInv /\ WithinAtEnd => EveryPathReturns
  BY TypesAre, NullIs DEF EveryPathReturns
<1>2. Init => WithinAtEnd
  BY WithinAtEndInit
<1>3. SInv /\ WithinAtEnd /\ [Next]_vars => WithinAtEnd'
  BY WithinAtEndStep
<1> QED BY SInvHolds, <1>1, <1>2, <1>3, PTL DEF Spec

-----------------------------------------------------------------------------
\* Where <<"pointer", n>> and <<"vbase", n>> come from.
LEMMA PointerAt ==
    ASSUME SInv, Made, NEW v, NEW b, Parted(v, b), NEW n \in 1..NV
    PROVE  /\ HeadLen + 1 + n \in HeadLen + 2 .. VStart /\ VStart < v
           /\ Effective(HeadLen + 1 + n) /\ Effect(HeadLen + 1 + n) = <<"pointer", n>>
           /\ \A q \in HeadLen + 2 .. Len(code) :
                 Effective(q) /\ Effect(q) = <<"pointer", n>> => q = HeadLen + 1 + n
<1>1. Sizes(v, b)
  BY SizesAre
<1>2. NV > 0 /\ NV # 0 /\ VStart < v /\ HeadLen + 1 + n \in HeadLen + 2 .. VStart
  BY <1>1 DEF Sizes
<1>3. VBaseZone(code, v - 1, NV + 1)
  BY <1>2 DEF Parted, VirtualsRight
<1>4. code[HeadLen + 1 + n] = Stmt("EXPRESSION", <<"pointer", n>>)
  BY <1>3 DEF VBaseZone
<1>5. Effective(HeadLen + 1 + n) /\ Effect(HeadLen + 1 + n) = <<"pointer", n>>
  BY <1>4, StmtFields DEF Effective, Effect
<1>6. ASSUME NEW q \in HeadLen + 2 .. Len(code), Effective(q), Effect(q) = <<"pointer", n>>
      PROVE  q = HeadLen + 1 + n
  <2>1. CASE q \in v + 1 .. Len(code)
    BY <1>6, <2>1, ObjectEffects
  <2>2. CASE q \in HeadLen + 2 .. v
    <3>1. \A u : <<"vbase", u>> # <<"pointer", n>> /\ (<<"pointer", u>> = <<"pointer", n>> => u = n)
      OBVIOUS
    <3> QED BY <1>6, <2>2, <3>1, VBaseEffects
  <2> QED BY <1>1, <2>1, <2>2 DEF Sizes
<1> QED BY <1>2, <1>5, <1>6

LEMMA VBaseAt ==
    ASSUME SInv, Made, NEW v, NEW b, Parted(v, b), NEW n \in 1..NV
    PROVE  /\ VStart < v
           /\ VBaseMade(n) => \E r \in VStart + 1 .. v - 1 :
                /\ Effective(r) /\ Effect(r) = <<"vbase", n>>
                /\ \A q \in HeadLen + 2 .. v : Effective(q) /\ Effect(q) = <<"vbase", n>> => q = r
           /\ ~VBaseMade(n) =>
                \A q \in HeadLen + 2 .. v : Effective(q) => Effect(q) # <<"vbase", n>>
<1>1. Sizes(v, b)
  BY SizesAre
<1>2. NV > 0 /\ NV # 0 /\ VStart < v
  BY <1>1 DEF Sizes
<1>3. VBaseZone(code, v - 1, NV + 1)
  BY <1>2 DEF Parted, VirtualsRight
<1>4. \A u : <<"pointer", u>> # <<"vbase", n>> /\ (<<"vbase", u>> = <<"vbase", n>> => u = n)
  OBVIOUS
<1>5. ASSUME NEW q \in HeadLen + 2 .. v, Effective(q), Effect(q) = <<"vbase", n>>
      PROVE  q \in VStart + 1 .. v - 1 /\ VBaseMade(n) /\ code[q] = VBaseStmt(n)
  BY <1>4, <1>5, VBaseEffects
<1>6. ASSUME VBaseMade(n)
      PROVE  \E r \in VStart + 1 .. v - 1 :
                /\ Effective(r) /\ Effect(r) = <<"vbase", n>>
                /\ \A q \in HeadLen + 2 .. v : Effective(q) /\ Effect(q) = <<"vbase", n>> => q = r
  <2>1. PICK m, j : m = v - 1 /\ j = NV + 1
    OBVIOUS
  <2>2. VBaseZone(code, m, j) /\ n \in 1..j - 1
    BY <1>1, <1>3, <2>1 DEF Sizes
  <2>3. OnceBetween(code, VBaseStmt(n), VStart + 1, m)
    BY <1>6, <2>2 DEF VBaseZone
  <2>4. PICK r \in VStart + 1 .. m : \A q \in VStart + 1 .. m : code[q] = VBaseStmt(n) <=> q = r
    BY <2>3 DEF OnceBetween
  <2>5. code[r] = Stmt("EXPRESSION", <<"vbase", n>>)
    BY <2>4 DEF VBaseStmt
  <2>6. Effective(r) /\ Effect(r) = <<"vbase", n>>
    BY <2>5, StmtFields DEF Effective, Effect
  <2>7. \A q \in HeadLen + 2 .. v : Effective(q) /\ Effect(q) = <<"vbase", n>> => q = r
    BY <1>5, <2>1, <2>4
  <2> QED BY <2>1, <2>6, <2>7
<1> QED BY <1>2, <1>5, <1>6

\* That k is made, and what is said of a run t of the complete object or not.
HasVBase(k) == cls.vbases[k].ctor = "call" \/ (~func.copy /\ <<"vbase", k>> \in func.chain)

Completed(t, k, complete) ==
    /\ Count(t, <<"pointer", k>>) = IF complete THEN 1 ELSE 0
    /\ complete /\ HasVBase(k) => Count(t, <<"vbase", k>>) >= 1
    /\ (\A b \in ToSet(cls.bases) : b.virtual) =>
          Count(t, <<"vbase", k>>) = IF complete /\ HasVBase(k) THEN 1 ELSE 0

LEMMA MadeIs == \A k : VBaseMade(k) <=> HasVBase(k)
<1> TAKE k
<1>1. <<"vbase", k>> # <<"null">>
  OBVIOUS
<1> QED BY <1>1 DEF VBaseMade, VBaseExpr, HasVBase, Null

LEMMA AllVirtual ==
    ASSUME SInv, Made, NEW v, NEW b, Parted(v, b), \A x \in ToSet(cls.bases) : x.virtual
    PROVE  b = v
<1>1. cls.bases \in Seq(UNION { Bases(n) : n \in Nat })
  BY DEF SInv, TypesRight
<1>2. PICK m : m = Len(cls.bases) + 1
  OBVIOUS
<1>3. m - 1 = Len(cls.bases)
  BY <1>1, <1>2
<1>4. \A n \in 1..m - 1 : cls.bases[n].virtual
  BY <1>1, <1>3 DEF ToSet
<1> QED BY <1>2, <1>4 DEF Parted, BaseZone

LEMMA RefusedCompletes ==
    ASSUME SInv, Made, NEW e, Refused(e), NEW k
    PROVE  Completed(Run(e), k, FALSE)
<1>1. PICK t, x : t = Run(e) /\ x = <<"return", "this">>
  OBVIOUS
<1>2. t = <<x>> /\ DOMAIN t = 1..1 /\ t[1] = x
  BY <1>1, ThroughHead
<1>3. x # <<"pointer", k>> /\ x # <<"vbase", k>>
  BY <1>1
<1>4. ASSUME NEW y, y # x PROVE Count(t, y) = 0
  <2>1. { n \in DOMAIN t : t[n] = y } = {}
    BY <1>2, <1>4
  <2> QED BY <2>1, FS_EmptySet DEF Count
<1> QED BY <1>1, <1>3, <1>4 DEF Completed

LEMMA PartCompletes ==
    ASSUME SInv, Made, NEW e, e.flag = FALSE, ~Refused(e), NEW k \in 1..NV
    PROVE  Completed(Run(e), k, FALSE)
<1>1. PICK v, b : Parted(v, b)
  BY MadeWhole DEF Zones, Parted
<1>2. Sizes(v, b)
  BY <1>1, SizesAre
<1>3. Begun(e, v) = v
  BY <1>2 DEF Begun, Sizes
<1>4. v \in 1..Len(code) /\ Len(code) \in Nat /\ Listed(Run(e), v)
  <2>1. e.flag \in BOOLEAN /\ DOMAIN code = 1..Len(code) /\ Len(code) \in Nat
    BY <1>2 DEF Sizes
  <2>2. Begun(e, v) \in DOMAIN code /\ Listed(Run(e), Begun(e, v))
    BY <1>1, <2>1, RunsAre
  <2> QED BY <1>3, <2>1, <2>2
<1>5. ASSUME NEW x PROVE Counted(Run(e), x, v)
  BY <1>4, RunTypes, CountedIs
<1>6. ~Effective(v)
  <2>1. NV # 0
    BY <1>2 DEF Sizes
  <2>2. code[v] = Label("nobases")
    BY <1>1, <2>1 DEF Parted, VirtualsRight
  <2> QED BY <2>2, StmtFields DEF Effective
<1>7. ASSUME NEW q \in v..Len(code), Effective(q) PROVE q \in v + 1 .. Len(code)
  BY <1>2, <1>6, <1>7 DEF Sizes
<1>8. Count(Run(e), <<"pointer", k>>) = 0
  <2>1. \A q \in v..Len(code) : Effective(q) => Effect(q) # <<"pointer", k>>
    BY <1>1, <1>7, ObjectEffects
  <2> QED BY <1>5, <2>1 DEF Counted
<1>9. ASSUME \A x \in ToSet(cls.bases) : x.virtual
      PROVE  Count(Run(e), <<"vbase", k>>) = 0
  <2>1. b = v
    BY <1>1, <1>9, AllVirtual
  <2>2. ASSUME NEW q \in v..Len(code), Effective(q) PROVE Effect(q) # <<"vbase", k>>
    <3>1. q \in v + 1 .. Len(code) /\ q > b
      BY <1>2, <1>7, <2>1, <2>2 DEF Sizes
    <3> QED BY <1>1, <2>2, <3>1, ObjectEffects
  <2> QED BY <1>5, <2>2 DEF Counted
<1> QED BY <1>8, <1>9 DEF Completed

LEMMA CompleteCompletes ==
    ASSUME SInv, Made, NEW e, e.flag = TRUE, ~Refused(e), NEW k \in 1..NV
    PROVE  Completed(Run(e), k, TRUE)
<1>1. PICK v, b : Parted(v, b)
  BY MadeWhole DEF Zones, Parted
<1>2. Sizes(v, b)
  BY <1>1, SizesAre
<1>3. PICK j : j = HeadLen + 2
  OBVIOUS
<1>4. Begun(e, v) = j
  BY <1>2, <1>3 DEF Begun, Sizes
<1>5. j \in 1..Len(code) /\ Len(code) \in Nat /\ Listed(Run(e), j)
  <2>1. e.flag \in BOOLEAN /\ DOMAIN code = 1..Len(code) /\ Len(code) \in Nat
    BY <1>2 DEF Sizes
  <2>2. Begun(e, v) \in DOMAIN code /\ Listed(Run(e), Begun(e, v))
    BY <1>1, <2>1, RunsAre
  <2> QED BY <1>4, <2>1, <2>2
<1>6. ASSUME NEW x PROVE Counted(Run(e), x, j)
  BY <1>5, RunTypes, CountedIs
<1>7. /\ j \in Nat /\ v \in Nat /\ b \in Nat /\ Len(code) \in Nat /\ v <= b /\ b < Len(code)
      /\ VStart \in Nat /\ j <= VStart /\ VStart < v
  BY <1>2, <1>3 DEF Sizes
<1>8. Count(Run(e), <<"pointer", k>>) = 1
  <2>1. PICK r : r = HeadLen + 1 + k
    OBVIOUS
  <2>2. r \in j..VStart /\ Effective(r) /\ Effect(r) = <<"pointer", k>>
        /\ \A q \in j..Len(code) : Effective(q) /\ Effect(q) = <<"pointer", k>> => q = r
    BY <1>1, <1>3, <2>1, PointerAt
  <2>3. r \in j..Len(code)
    BY <1>7, <2>2
  <2> QED BY <1>6, <2>2, <2>3 DEF Counted
<1>9. ASSUME HasVBase(k)
      PROVE  \E r \in VStart + 1 .. v - 1 :
                /\ r \in j..Len(code) /\ Effective(r) /\ Effect(r) = <<"vbase", k>>
                /\ \A q \in j .. v : Effective(q) /\ Effect(q) = <<"vbase", k>> => q = r
  <2>1. PICK r \in VStart + 1 .. v - 1 :
            /\ Effective(r) /\ Effect(r) = <<"vbase", k>>
            /\ \A q \in HeadLen + 2 .. v : Effective(q) /\ Effect(q) = <<"vbase", k>> => q = r
    BY <1>1, <1>9, MadeIs, VBaseAt
  <2>2. r \in j..Len(code)
    BY <1>7
  <2> QED BY <1>3, <2>1, <2>2
<1>10. HasVBase(k) => Count(Run(e), <<"vbase", k>>) >= 1
  <2> SUFFICES ASSUME HasVBase(k) PROVE Count(Run(e), <<"vbase", k>>) >= 1
    OBVIOUS
  <2>1. \E r \in j..Len(code) : Effective(r) /\ Effect(r) = <<"vbase", k>>
    BY <1>9
  <2> QED BY <1>6, <2>1 DEF Counted
<1>11. ASSUME \A x \in ToSet(cls.bases) : x.virtual
       PROVE  Count(Run(e), <<"vbase", k>>) = IF HasVBase(k) THEN 1 ELSE 0
  <2>1. b = v
    BY <1>1, <1>11, AllVirtual
  <2>2. ASSUME NEW q \in j..Len(code), Effective(q), Effect(q) = <<"vbase", k>>
        PROVE  q \in j .. v
    <3>1. ~(q \in v + 1 .. Len(code) /\ q > b)
      BY <1>1, <2>2, ObjectEffects
    <3> QED BY <1>7, <2>1, <3>1
  <2>3. CASE HasVBase(k)
    <3>1. PICK r \in VStart + 1 .. v - 1 :
                /\ r \in j..Len(code) /\ Effective(r) /\ Effect(r) = <<"vbase", k>>
                /\ \A q \in j .. v : Effective(q) /\ Effect(q) = <<"vbase", k>> => q = r
      BY <1>9, <2>3
    <3>2. \A q \in j..Len(code) : Effective(q) /\ Effect(q) = <<"vbase", k>> => q = r
      BY <2>2, <3>1
    <3> QED BY <1>6, <2>3, <3>1, <3>2 DEF Counted
  <2>4. CASE ~HasVBase(k)
    <3>1. \A q \in j .. v : Effective(q) => Effect(q) # <<"vbase", k>>
      BY <1>1, <1>3, <2>4, MadeIs, VBaseAt
    <3>2. \A q \in j..Len(code) : Effective(q) => Effect(q) # <<"vbase", k>>
      BY <2>2, <3>1
    <3> QED BY <1>6, <2>4, <3>2 DEF Counted
  <2> QED BY <2>3, <2>4
<1> QED BY <1>8, <1>10, <1>11 DEF Completed

LEMMA CompleteObjectIs == ASSUME SInv PROVE CompleteObjectMakesVBases
<1> SUFFICES ASSUME Made, NEW e \in Calls, NEW k \in DOMAIN cls.vbases
             PROVE  /\ Count(Run(e), <<"pointer", k>>) = IF e.flag /\ ~Refused(e) THEN 1 ELSE 0
                    /\ e.flag /\ ~Refused(e) /\ HasVBase(k) => Count(Run(e), <<"vbase", k>>) >= 1
                    /\ (\A b \in ToSet(cls.bases) : b.virtual) =>
                          Count(Run(e), <<"vbase", k>>) =
                            IF (e.flag /\ ~Refused(e)) /\ HasVBase(k) THEN 1 ELSE 0
  BY Zenon DEF CompleteObjectMakesVBases, HasVBase
<1>1. k \in 1..NV
  BY DEF SInv, TypesRight, NV
<1>2. e.flag \in BOOLEAN
  BY DEF Calls
<1>3. CASE e.flag /\ ~Refused(e)
  <2>1. Completed(Run(e), k, TRUE)
    BY <1>1, <1>2, <1>3, CompleteCompletes
  <2> QED BY <1>3, <2>1 DEF Completed
<1>4. CASE ~(e.flag /\ ~Refused(e))
  <2>1. Completed(Run(e), k, FALSE)
    BY <1>1, <1>2, <1>4, RefusedCompletes, PartCompletes
  <2> QED BY <1>4, <2>1 DEF Completed
<1> QED BY <1>3, <1>4

\* For every class and call: the complete object, and it alone, sets each
\* pointer to a virtual base, once; it constructs each virtual base, and if all
\* bases are virtual it does so once and no other object does.
THEOREM CompleteObjectDoes == Spec => []CompleteObjectMakesVBases
BY SInvHolds, CompleteObjectIs, PTL

-----------------------------------------------------------------------------
(***************************************************************************)
(* The pointers to virtual bases (VBasePointers).  First what its helpers  *)
(* on sequences give; each of them is a recursive function.                *)
(***************************************************************************)
\* A function on 0..n is the sequence f if it begins as f does and every value
\* that follows one of f's is f's.
Repeats(p, f, n) ==
    /\ p = [u \in 0..n |-> p[u]] /\ p[0] = f[0]
    /\ \A u \in 1..n : p[u - 1] = f[u - 1] => p[u] = f[u]

LEMMA SameSequence ==
    ASSUME NEW n \in Nat, NEW f, f = [u \in 0..n |-> f[u]], NEW p, Repeats(p, f, n)
    PROVE  p = f
<1> USE DEF Repeats
<1> DEFINE S == { u \in Nat : u <= n => p[u] = f[u] }
<1>1. 0 \in S
  OBVIOUS
<1>2. ASSUME NEW u \in Nat, u \in S PROVE u + 1 \in S
  <2>1. SUFFICES ASSUME u + 1 <= n PROVE p[u + 1] = f[u + 1]
    OBVIOUS
  <2>2. u <= n /\ u + 1 \in 1..n /\ (u + 1) - 1 = u
    BY <2>1
  <2>3. p[u] = f[u]
    BY <1>2, <2>2
  <2> QED BY <2>2, <2>3
<1>3. \A u \in Nat : u \in S
  <2> HIDE DEF S
  <2> QED BY <1>1, <1>2, Induction
<1>4. \A u \in 0..n : p[u] = f[u]
  <2> TAKE u \in 0..n
  <2>1. u \in Nat /\ u <= n /\ u \in S
    BY <1>3
  <2> QED BY <2>1
<1> HIDE DEF S
<1> QED BY <1>4

-----------------------------------------------------------------------------
\* The sums: each is the one before and a size.
LEMMA SumsAre ==
    ASSUME NEW start \in Nat, NEW n \in Nat, NEW sizes \in Seq(Nat), Len(sizes) = n
    PROVE  /\ Sums(start, sizes) \in [0..n -> Nat]
           /\ Sums(start, sizes)[0] = start
           /\ \A u \in 1..n : Sums(start, sizes)[u] = Sums(start, sizes)[u - 1] + sizes[u]
<1> DEFINE next == [u \in 1..n |-> [t \in Nat |-> t + sizes[u]]]
<1>1. next \in [1..n -> [Nat -> Nat]]
  <2>1. \A u \in 1..n : sizes[u] \in Nat
    OBVIOUS
  <2> QED BY <2>1
<1>2. PICK f \in [0..n -> Nat] : Follows(f, start, next, n)
  <2> HIDE DEF next
  <2> QED BY <1>1, RecursiveSequence
<1>3. f[0] = start /\ \A u \in 1..n : f[u] = f[u - 1] + sizes[u]
  <2>1. \A u \in 1..n : u - 1 \in 0..n
    OBVIOUS
  <2> QED BY <1>2, <2>1 DEF Follows
<1> DEFINE F(g) == [u \in 0..n |-> IF u = 0 THEN start ELSE g[u - 1] + sizes[u]]
           sum == CHOOSE g : g = F(g)
<1>4. f = F(f)
  <2>1. ASSUME NEW u \in 0..n PROVE f[u] = F(f)[u]
    <3>1. u # 0 => u \in 1..n
      OBVIOUS
    <3> QED BY <1>3, <3>1
  <2> QED BY <2>1
<1>5. sum = F(sum)
  <2> HIDE DEF F
  <2> QED BY <1>4
<1>6. Sums(start, sizes) = sum
  BY DEF Sums
<1> HIDE DEF sum
<1>7. sum = f
  <2>1. sum = [u \in 0..n |-> sum[u]]
    BY <1>5
  <2>2. sum[0] = start
    <3>1. sum[0] = F(sum)[0]
      BY <1>5
    <3> QED BY <3>1
  <2>3. ASSUME NEW u \in 1..n PROVE sum[u] = sum[u - 1] + sizes[u]
    <3>1. sum[u] = F(sum)[u]
      BY <1>5
    <3> QED BY <3>1
  <2> HIDE DEF F, next
  <2>4. \A u \in 1..n : sum[u - 1] = f[u - 1] => sum[u] = f[u]
    BY <1>3, <2>3
  <2>5. sum[0] = f[0]
    BY <1>3, <2>2
  <2>6. Repeats(sum, f, n)
    BY <2>1, <2>4, <2>5 DEF Repeats
  <2>7. f = [u \in 0..n |-> f[u]]
    OBVIOUS
  <2> QED BY <2>6, <2>7, SameSequence
<1> QED BY <1>3, <1>6, <1>7

\* They never fall, and a later one is above an earlier one by its size.
LEMMA SumsGrow ==
    ASSUME NEW n \in Nat, NEW sizes \in Seq(Nat), Len(sizes) = n, NEW p \in [0..n -> Nat],
           \A u \in 1..n : p[u] = p[u - 1] + sizes[u]
    PROVE  \A u, j \in 0..n : u <= j => p[u] <= p[j] /\ (u < j => p[u] + sizes[u + 1] <= p[j])
<1>0. \A u \in 1..n : sizes[u] \in Nat /\ u - 1 \in 0..n
  OBVIOUS
<1> SUFFICES ASSUME NEW u \in 0..n
             PROVE  \A j \in 0..n : u <= j => p[u] <= p[j] /\ (u < j => p[u] + sizes[u + 1] <= p[j])
  OBVIOUS
<1> DEFINE Grown(j) == p[u] <= p[j] /\ (u < j => p[u] + sizes[u + 1] <= p[j])
           S == { j \in Nat : u <= j /\ j <= n => Grown(j) }
<1>1. 0 \in S
  <2>1. u <= 0 => u = 0
    OBVIOUS
  <2> QED BY <2>1
<1>2. ASSUME NEW j \in Nat, j \in S PROVE j + 1 \in S
  <2>1. SUFFICES ASSUME u <= j + 1, j + 1 <= n PROVE Grown(j + 1)
    OBVIOUS
  <2>2. /\ j \in 0..n /\ j + 1 \in 1..n /\ (j + 1) - 1 = j
        /\ p[j] \in Nat /\ p[j + 1] \in Nat /\ p[u] \in Nat /\ sizes[j + 1] \in Nat
    BY <1>0, <2>1
  <2>3. p[j + 1] = p[j] + sizes[j + 1]
    BY <2>2
  <2>4. CASE u = j + 1
    BY <2>2, <2>4
  <2>5. CASE u <= j
    <3>1. Grown(j)
      BY <1>2, <2>1, <2>5
    <3>2. u + 1 \in 1..n /\ sizes[u + 1] \in Nat
      BY <1>0, <2>1, <2>5
    <3>3. CASE u = j
      BY <2>2, <2>3, <3>2, <3>3
    <3>4. CASE u < j
      <4>1. p[u] <= p[j] /\ p[u] + sizes[u + 1] <= p[j]
        BY <3>1, <3>4
      <4>2. PICK a, b, c, d, e \in Nat : a = p[u] /\ b = p[j] /\ c = p[j + 1] /\ d = sizes[u + 1] /\ e = sizes[j + 1]
        BY <2>2, <3>2
      <4>3. c = b + e
        BY <2>3, <4>2
      <4>4. a <= b /\ a + d <= b
        BY <4>1, <4>2
      <4>5. a <= c /\ a + d <= c
        BY <4>3, <4>4
      <4> QED BY <4>2, <4>5
    <3> QED BY <2>5, <3>3, <3>4
  <2> QED BY <2>1, <2>4, <2>5
<1>3. \A j \in Nat : j \in S
  <2> HIDE DEF S
  <2> QED BY <1>1, <1>2, Induction
<1>4. ASSUME NEW j \in 0..n, u <= j PROVE Grown(j)
  <2>1. j \in Nat /\ j <= n /\ j \in S
    BY <1>3
  <2> QED BY <1>4, <2>1
<1> QED BY <1>4

-----------------------------------------------------------------------------
LEMMA ItemsConcat ==
    ASSUME NEW S, NEW s \in Seq(S), NEW t \in Seq(S)
    PROVE  s \o t \in Seq(S) /\ Items(s \o t) = Items(s) \cup Items(t)
<1>1. PICK n, m \in Nat : n = Len(s) /\ m = Len(t) /\ DOMAIN s = 1..n /\ DOMAIN t = 1..m
  OBVIOUS
<1>2. s \o t \in Seq(S) /\ Len(s \o t) = n + m /\ DOMAIN (s \o t) = 1..(n + m)
  BY <1>1
<1>3. /\ \A u \in 1..n : u \in 1..(n + m) /\ (s \o t)[u] = s[u]
      /\ \A u \in 1..m : n + u \in 1..(n + m) /\ (s \o t)[n + u] = t[u]
  BY <1>1
<1>4. ASSUME NEW x \in Items(s \o t) PROVE x \in Items(s) \cup Items(t)
  <2>1. PICK u \in 1..(n + m) : x = (s \o t)[u]
    BY <1>2, <1>4 DEF Items
  <2>2. CASE u <= n
    <3>1. u \in 1..n
      BY <2>2
    <3> QED BY <1>1, <1>3, <2>1, <3>1 DEF Items
  <2>3. CASE ~(u <= n)
    <3>1. PICK j \in 1..m : u = n + j
      <4>1. u - n \in 1..m /\ u = n + (u - n)
        BY <2>3
      <4> QED BY <4>1
    <3> QED BY <1>1, <1>3, <2>1, <3>1 DEF Items
  <2> QED BY <2>2, <2>3
<1>5. Items(s) \subseteq Items(s \o t) /\ Items(t) \subseteq Items(s \o t)
  <2>1. ASSUME NEW u \in 1..n PROVE s[u] \in Items(s \o t)
    BY <1>2, <1>3 DEF Items
  <2>2. ASSUME NEW u \in 1..m PROVE t[u] \in Items(s \o t)
    BY <1>2, <1>3 DEF Items
  <2> QED BY <1>1, <2>1, <2>2 DEF Items
<1> QED BY <1>2, <1>4, <1>5

LEMMA ItemsAppend ==
    ASSUME NEW S, NEW s \in Seq(S), NEW x \in S
    PROVE  Append(s, x) \in Seq(S) /\ Items(Append(s, x)) = Items(s) \cup {x}
<1>1. PICK n \in Nat : n = Len(s) /\ DOMAIN s = 1..n
  OBVIOUS
<1>2. /\ Append(s, x) \in Seq(S) /\ DOMAIN Append(s, x) = 1..(n + 1) /\ Append(s, x)[n + 1] = x
      /\ \A u \in 1..n : Append(s, x)[u] = s[u]
  BY <1>1
<1>3. 1..(n + 1) = (1..n) \cup {n + 1}
  OBVIOUS
<1> QED BY <1>1, <1>2, <1>3 DEF Items

\* What is in one of the sequences is in their concatenation.
LEMMA ConcatIs ==
    ASSUME NEW S, NEW n \in Nat, NEW seqs \in Seq(Seq(S)), Len(seqs) = n
    PROVE  /\ Concat(seqs) \in Seq(S)
           /\ Items(Concat(seqs)) = UNION { Items(seqs[u]) : u \in 1..n }
<1> DEFINE next == [u \in 1..n |-> [t \in Seq(S) |-> t \o seqs[u]]]
<1>0. \A u \in 1..n : seqs[u] \in Seq(S)
  OBVIOUS
<1>1. next \in [1..n -> [Seq(S) -> Seq(S)]]
  BY <1>0
<1>2. PICK f \in [0..n -> Seq(S)] : Follows(f, <<>>, next, n)
  <2> HIDE DEF next
  <2>1. <<>> \in Seq(S)
    OBVIOUS
  <2> QED BY <1>1, <2>1, RecursiveSequence
<1>3. f[0] = <<>> /\ \A u \in 1..n : f[u] = f[u - 1] \o seqs[u]
  <2>1. \A u \in 1..n : u - 1 \in 0..n
    OBVIOUS
  <2> QED BY <1>2, <2>1 DEF Follows
<1> DEFINE F(g) == [u \in 0..n |-> IF u = 0 THEN <<>> ELSE g[u - 1] \o seqs[u]]
           upto == CHOOSE g : g = F(g)
<1>4. f = F(f)
  <2>1. ASSUME NEW u \in 0..n PROVE f[u] = F(f)[u]
    <3>1. u # 0 => u \in 1..n
      OBVIOUS
    <3> QED BY <1>3, <3>1
  <2> QED BY <2>1
<1>5. upto = F(upto)
  <2> HIDE DEF F
  <2> QED BY <1>4
<1>6. Concat(seqs) = upto[n]
  BY DEF Concat
<1> HIDE DEF upto
<1>7. PICK g : g = upto
  OBVIOUS
<1>8. g = f
  <2>1. g = [u \in 0..n |-> g[u]]
    BY <1>5, <1>7
  <2>2. g[0] = <<>>
    <3>1. g[0] = F(g)[0]
      BY <1>5, <1>7
    <3> QED BY <3>1
  <2>3. ASSUME NEW u \in 1..n PROVE g[u] = g[u - 1] \o seqs[u]
    <3>1. g[u] = F(g)[u]
      BY <1>5, <1>7
    <3>2. u \in 0..n /\ u # 0
      OBVIOUS
    <3>3. F(g)[u] = g[u - 1] \o seqs[u]
      BY <3>2, Zenon
    <3> QED BY <3>1, <3>3
  <2> HIDE DEF F, next
  <2>4. g[0] = f[0] /\ \A u \in 1..n : g[u - 1] = f[u - 1] => g[u] = f[u]
    BY <1>3, <2>2, <2>3
  <2>5. Repeats(g, f, n)
    BY <2>1, <2>4 DEF Repeats
  <2>6. f = [u \in 0..n |-> f[u]]
    OBVIOUS
  <2> QED BY <2>5, <2>6, SameSequence
<1>9. n \in 0..n /\ Concat(seqs) = f[n]
  BY <1>6, <1>7, <1>8
<1> HIDE DEF F, next
<1> DEFINE T == { u \in Nat : u <= n => Items(f[u]) = UNION { Items(seqs[j]) : j \in 1..u } }
<1>10. 0 \in T
  BY <1>3 DEF Items
<1>11. ASSUME NEW u \in Nat, u \in T PROVE u + 1 \in T
  <2>1. SUFFICES ASSUME u + 1 <= n
                 PROVE  Items(f[u + 1]) = UNION { Items(seqs[j]) : j \in 1..(u + 1) }
    OBVIOUS
  <2>2. u \in 0..n /\ u + 1 \in 1..n /\ (u + 1) - 1 = u /\ 1..(u + 1) = (1..u) \cup {u + 1}
    BY <2>1
  <2>3. Items(f[u]) = UNION { Items(seqs[j]) : j \in 1..u }
    BY <1>11, <2>2
  <2>4. f[u + 1] = f[u] \o seqs[u + 1] /\ f[u] \in Seq(S) /\ seqs[u + 1] \in Seq(S)
    BY <1>0, <1>3, <2>2
  <2>5. Items(f[u + 1]) = Items(f[u]) \cup Items(seqs[u + 1])
    BY <2>4, ItemsConcat
  <2> QED BY <2>2, <2>3, <2>5
<1>12. \A u \in Nat : u \in T
  <2> HIDE DEF T
  <2> QED BY <1>10, <1>11, Induction
<1>13. Items(f[n]) = UNION { Items(seqs[j]) : j \in 1..n }
  <2>1. n \in T
    BY <1>12
  <2> QED BY <2>1
<1> QED BY <1>9, <1>13

Injective(s) == \A u, j \in DOMAIN s : s[u] = s[j] => u = j

\* CABI_FindOffset leaves of the offsets those that are new, each once.
LEMMA NewOffsetsAre ==
    ASSUME NEW n \in Nat, NEW found \in Seq(Nat), Len(found) = n
    PROVE  /\ NewOffsets(found) \in Seq(Nat) /\ Injective(NewOffsets(found))
           /\ Items(NewOffsets(found)) = Items(found) \ known
<1> DEFINE next == [u \in 1..n |-> [t \in Seq(Nat) |->
                       IF found[u] \in known \cup Items(t) THEN t ELSE Append(t, found[u])]]
<1>0. \A u \in 1..n : found[u] \in Nat
  OBVIOUS
<1>1. next \in [1..n -> [Seq(Nat) -> Seq(Nat)]]
  BY <1>0
<1>2. PICK f \in [0..n -> Seq(Nat)] : Follows(f, <<>>, next, n)
  <2> HIDE DEF next
  <2>1. <<>> \in Seq(Nat)
    OBVIOUS
  <2> QED BY <1>1, <2>1, RecursiveSequence
<1>3. /\ f[0] = <<>>
      /\ \A u \in 1..n : f[u] = IF found[u] \in known \cup Items(f[u - 1]) THEN f[u - 1]
                                ELSE Append(f[u - 1], found[u])
  <2>1. \A u \in 1..n : u - 1 \in 0..n
    OBVIOUS
  <2> QED BY <1>2, <2>1 DEF Follows
<1> DEFINE F(g) == [u \in 0..n |->
                       IF u = 0 THEN <<>>
                       ELSE IF found[u] \in known \cup Items(g[u - 1]) THEN g[u - 1]
                       ELSE Append(g[u - 1], found[u])]
           new == CHOOSE g : g = F(g)
<1>4. f = F(f)
  <2>1. ASSUME NEW u \in 0..n PROVE f[u] = F(f)[u]
    <3>1. u # 0 => u \in 1..n
      OBVIOUS
    <3> QED BY <1>3, <3>1
  <2> QED BY <2>1
<1>5. new = F(new)
  <2> HIDE DEF F
  <2> QED BY <1>4
<1>6. NewOffsets(found) = new[n]
  BY DEF NewOffsets
<1> HIDE DEF new
<1>7. PICK g : g = new
  OBVIOUS
<1>8. g = f
  <2>1. g = [u \in 0..n |-> g[u]]
    BY <1>5, <1>7
  <2>2. g[0] = <<>>
    <3>1. g[0] = F(g)[0]
      BY <1>5, <1>7
    <3> QED BY <3>1
  <2>3. ASSUME NEW u \in 1..n
        PROVE  g[u] = IF found[u] \in known \cup Items(g[u - 1]) THEN g[u - 1]
                      ELSE Append(g[u - 1], found[u])
    <3>1. g[u] = F(g)[u]
      BY <1>5, <1>7
    <3> QED BY <3>1
  <2> HIDE DEF F, next
  <2>4. g[0] = f[0] /\ \A u \in 1..n : g[u - 1] = f[u - 1] => g[u] = f[u]
    BY <1>3, <2>2, <2>3
  <2>5. Repeats(g, f, n)
    BY <2>1, <2>4 DEF Repeats
  <2>6. f = [u \in 0..n |-> f[u]]
    OBVIOUS
  <2> QED BY <2>5, <2>6, SameSequence
<1>9. n \in 0..n /\ NewOffsets(found) = f[n]
  BY <1>6, <1>7, <1>8
<1> HIDE DEF F, next
<1> DEFINE Right(u) == Injective(f[u]) /\ Items(f[u]) = { found[j] : j \in 1..u } \ known
           T == { u \in Nat : u <= n => Right(u) }
<1>10. 0 \in T
  BY <1>3 DEF Items, Injective
<1>11. ASSUME NEW u \in Nat, u \in T PROVE u + 1 \in T
  <2>1. SUFFICES ASSUME u + 1 <= n PROVE Right(u + 1)
    <3> HIDE DEF Right
    <3> QED OBVIOUS
  <2>2. u \in 0..n /\ u <= n /\ u + 1 \in 1..n /\ (u + 1) - 1 = u /\ 1..(u + 1) = (1..u) \cup {u + 1}
    BY <2>1
  <2>3. Right(u)
    <3> HIDE DEF Right
    <3> QED BY <1>11, <2>2
  <2>4. PICK t \in Seq(Nat), x \in Nat : t = f[u] /\ x = found[u + 1]
    BY <1>0, <2>2
  <2>5. f[u + 1] = IF x \in known \cup Items(t) THEN t ELSE Append(t, x)
    BY <1>3, <2>2, <2>4
  <2>6. { found[j] : j \in 1..(u + 1) } = { found[j] : j \in 1..u } \cup {x}
    BY <2>2, <2>4
  <2>7. Injective(t) /\ Items(t) = { found[j] : j \in 1..u } \ known
    BY <2>3, <2>4
  <2>8. CASE x \in known \cup Items(t)
    BY <2>5, <2>6, <2>7, <2>8
  <2>9. CASE x \notin known \cup Items(t)
    <3>1. f[u + 1] = Append(t, x)
      BY <2>5, <2>9
    <3>2. Items(f[u + 1]) = Items(t) \cup {x}
      BY <3>1, ItemsAppend
    <3>3. Injective(Append(t, x))
      <4>1. PICK m \in Nat : m = Len(t) /\ DOMAIN t = 1..m
        OBVIOUS
      <4>2. /\ DOMAIN Append(t, x) = (1..m) \cup {m + 1} /\ Append(t, x)[m + 1] = x
            /\ \A j \in 1..m : Append(t, x)[j] = t[j] /\ t[j] # x
        <5>1. \A j \in 1..m : t[j] # x
          BY <2>9, <4>1 DEF Items
        <5>2. /\ DOMAIN Append(t, x) = 1..(m + 1) /\ Append(t, x)[m + 1] = x
              /\ \A j \in 1..m : Append(t, x)[j] = t[j]
          BY <4>1
        <5>3. 1..(m + 1) = (1..m) \cup {m + 1}
          OBVIOUS
        <5> QED BY <5>1, <5>2, <5>3
      <4> QED BY <2>7, <4>1, <4>2 DEF Injective
    <3> QED BY <2>6, <2>7, <2>9, <3>1, <3>2, <3>3
  <2> QED BY <2>8, <2>9
<1>12. \A u \in Nat : u \in T
  <2> HIDE DEF T
  <2> QED BY <1>10, <1>11, Induction
<1>13. Right(n)
  <2>1. n \in T
    BY <1>12
  <2> QED BY <2>1
<1>14. Items(found) = { found[j] : j \in 1..n }
  <2>1. DOMAIN found = 1..n
    OBVIOUS
  <2> QED BY <2>1 DEF Items
<1> QED BY <1>9, <1>13, <1>14

-----------------------------------------------------------------------------
(***************************************************************************)
(* The hierarchy.  Bases are declared before the class, the parts of a     *)
(* class lie apart from each other in it, and so do its virtual bases,     *)
(* behind it.                                                              *)
(***************************************************************************)
Entry == [base : Nat, virtual : BOOLEAN, offset : Nat]
Store == [base : Nat, cells : Seq(Nat), target : Nat]
VBaseMaps == UNION { [M -> Nat] : M \in SUBSET Nat }

HTyped ==
    /\ bases \in Seq(Seq(Entry)) /\ vbases \in Seq(VBaseMaps)
    /\ othersize \in Seq(Nat) /\ stores \in Seq(Seq(Store))
    /\ Len(vbases) = Len(bases) /\ Len(othersize) = Len(bases) /\ Len(stores) = Len(bases)

\* What an entry takes of the class.
Extent(e) == IF e.virtual THEN 1 ELSE othersize[e.base]
Apart(e, f) == e.offset + Extent(e) <= f.offset \/ f.offset + Extent(f) <= e.offset

BasesRight(c) ==
    /\ \A u \in DOMAIN bases[c] :
          bases[c][u].base \in 1..(c - 1) /\ bases[c][u].offset + Extent(bases[c][u]) <= othersize[c]
    /\ \A u, j \in DOMAIN bases[c] : u # j => Apart(bases[c][u], bases[c][j])

VBasesRight(c) ==
    /\ VBases(c) = AllVBases(bases[c])
    /\ \A b \in VBases(c) : b \in 1..(c - 1) /\ vbases[c][b] \in Nat /\ othersize[c] <= vbases[c][b]
    /\ \A b, d \in VBases(c) : b < d => vbases[c][b] + othersize[b] <= vbases[c][d]

HInv == HTyped /\ \A c \in Declared : BasesRight(c) /\ VBasesRight(c)

LEMMA DeclaredIs ==
    ASSUME HTyped
    PROVE  /\ Len(bases) \in Nat /\ Declared = 1..Len(bases)
           /\ \A c \in Declared : /\ c \in Nat /\ bases[c] \in Seq(Entry) /\ othersize[c] \in Nat
                                  /\ vbases[c] \in VBaseMaps /\ stores[c] \in Seq(Store)
BY DEF HTyped, Declared

LEMMA MapsAre ==
    ASSUME NEW m \in VBaseMaps
    PROVE  DOMAIN m \in SUBSET Nat /\ m \in [DOMAIN m -> Nat]
BY DEF VBaseMaps

Clause == [base : Declared, virtual : BOOLEAN]

ClausesOf(n) ==
    { [u \in 1..n |-> [base |-> s[u], virtual |-> v[u]]] :
        s \in { t \in [1..n -> Declared] : \A u, j \in 1..n : t[u] = t[j] => u = j },
        v \in [1..n -> BOOLEAN] }

LEMMA ClauseIs ==
    ASSUME NEW list \in BaseClauses
    PROVE  \E n \in Nat : list \in [1..n -> Clause] /\ list \in Seq(Clause) /\ Len(list) = n
<1>0. PICK n \in 0..Len(bases) : \E s \in [1..n -> Declared], v \in [1..n -> BOOLEAN] :
         list = [u \in 1..n |-> [base |-> s[u], virtual |-> v[u]]]
  <2>1. BaseClauses = UNION { ClausesOf(n) : n \in 0..Len(bases) }
    BY DEF BaseClauses, ClausesOf
  <2>2. PICK n \in 0..Len(bases) : list \in ClausesOf(n)
    BY <2>1
  <2> QED BY <2>2 DEF ClausesOf
<1>1. PICK s \in [1..n -> Declared], v \in [1..n -> BOOLEAN] :
         list = [u \in 1..n |-> [base |-> s[u], virtual |-> v[u]]]
  BY <1>0
<1>2. n \in Nat
  OBVIOUS
<1>3. list \in [1..n -> Clause]
  BY <1>1 DEF Clause
<1>4. list \in Seq(Clause) /\ Len(list) = n
  BY <1>2, <1>3
<1> QED BY <1>2, <1>3, <1>4

\* Where the bases and the pointers of a new class lie.
PlacedClauses(list, n) ==
    /\ \A u \in 1..n : /\ FlatSizes(list)[u] = (IF list[u].virtual THEN 0 ELSE othersize[list[u].base])
                       /\ PtrSizes(list)[u] = (IF list[u].virtual THEN 1 ELSE 0)
    /\ FlatOffsets(list) \in [0..n -> Nat] /\ PtrOffsets(list) \in [0..n -> Nat]
    /\ PtrOffsets(list)[0] = FlatOffsets(list)[n]
    /\ \A u, j \in 0..n : u <= j =>
          /\ FlatOffsets(list)[u] <= FlatOffsets(list)[j] /\ PtrOffsets(list)[u] <= PtrOffsets(list)[j]
          /\ u < j => /\ FlatOffsets(list)[u] + FlatSizes(list)[u + 1] <= FlatOffsets(list)[j]
                      /\ PtrOffsets(list)[u] + PtrSizes(list)[u + 1] <= PtrOffsets(list)[j]

LEMMA PlacedIs ==
    ASSUME HTyped, NEW n \in Nat, NEW list \in [1..n -> Clause], Len(list) = n
    PROVE  PlacedClauses(list, n)
<1>0. \A u \in 1..n : list[u].virtual \in BOOLEAN /\ othersize[list[u].base] \in Nat
  <2> TAKE u \in 1..n
  <2>1. list[u] \in Clause
    OBVIOUS
  <2> QED BY <2>1, DeclaredIs DEF Clause
<1>1. PICK flat : flat = FlatSizes(list)
  OBVIOUS
<1>2. PICK ptr : ptr = PtrSizes(list)
  OBVIOUS
<1>3. flat = [u \in 1..n |-> IF list[u].virtual THEN 0 ELSE othersize[list[u].base]]
  BY <1>1 DEF FlatSizes
<1>4. ptr = [u \in 1..n |-> IF list[u].virtual THEN 1 ELSE 0]
  BY <1>2 DEF PtrSizes
<1>5. flat \in [1..n -> Nat] /\ ptr \in [1..n -> Nat]
  BY <1>0, <1>3, <1>4
<1>6. flat \in Seq(Nat) /\ Len(flat) = n /\ ptr \in Seq(Nat) /\ Len(ptr) = n
  BY <1>5
<1>7. PICK f \in [0..n -> Nat] : f = FlatOffsets(list)
  BY <1>1, <1>6, SumsAre DEF FlatOffsets
<1>8. \A u \in 1..n : f[u] = f[u - 1] + flat[u]
  <2>1. f = Sums(0, flat)
    BY <1>1, <1>7 DEF FlatOffsets
  <2>2. \A u \in 1..n : Sums(0, flat)[u] = Sums(0, flat)[u - 1] + flat[u]
    BY <1>6, SumsAre
  <2> QED BY <2>1, <2>2
<1>9. n \in 0..n /\ f[n] \in Nat
  OBVIOUS
<1>10. PICK p \in [0..n -> Nat] : p = PtrOffsets(list)
  BY <1>2, <1>6, <1>7, <1>9, SumsAre DEF PtrOffsets
<1>11. p[0] = f[n] /\ \A u \in 1..n : p[u] = p[u - 1] + ptr[u]
  <2>1. p = Sums(f[n], ptr)
    BY <1>2, <1>7, <1>10 DEF PtrOffsets
  <2>2. /\ Sums(f[n], ptr)[0] = f[n]
        /\ \A u \in 1..n : Sums(f[n], ptr)[u] = Sums(f[n], ptr)[u - 1] + ptr[u]
    BY <1>6, <1>9, SumsAre
  <2> QED BY <2>1, <2>2
<1>12. \A u, j \in 0..n : u <= j => f[u] <= f[j] /\ (u < j => f[u] + flat[u + 1] <= f[j])
  BY <1>6, <1>8, SumsGrow
<1>13. \A u, j \in 0..n : u <= j => p[u] <= p[j] /\ (u < j => p[u] + ptr[u + 1] <= p[j])
  BY <1>6, <1>11, SumsGrow
<1>14. \A u \in 1..n : /\ flat[u] = (IF list[u].virtual THEN 0 ELSE othersize[list[u].base])
                       /\ ptr[u] = (IF list[u].virtual THEN 1 ELSE 0)
  BY <1>3, <1>4
<1> QED BY <1>1, <1>2, <1>7, <1>10, <1>11, <1>12, <1>13, <1>14 DEF PlacedClauses

\* A new class: the entries keep their order and lie apart.
LaidRight(list, n) ==
    /\ Laid(list) \in Seq(Entry) /\ Len(Laid(list)) = n /\ SizeOf(list) \in Nat
    /\ \A u \in 1..n : /\ Laid(list)[u].base = list[u].base /\ Laid(list)[u].virtual = list[u].virtual
                       /\ Laid(list)[u].offset + Extent(list[u]) <= SizeOf(list)
    /\ \A u, j \in 1..n : u # j => Apart(Laid(list)[u], Laid(list)[j])

LEMMA LaidIs ==
    ASSUME HTyped, NEW n \in Nat, NEW list \in [1..n -> Clause], Len(list) = n
    PROVE  LaidRight(list, n)
<1>0. PlacedClauses(list, n)
  BY PlacedIs
<1>1. PICK f \in [0..n -> Nat], p \in [0..n -> Nat] : f = FlatOffsets(list) /\ p = PtrOffsets(list)
  BY <1>0 DEF PlacedClauses
<1>2. \A u \in 1..n : /\ list[u].virtual \in BOOLEAN /\ list[u].base \in Nat
                      /\ othersize[list[u].base] \in Nat /\ u - 1 \in 0..n
  <2> TAKE u \in 1..n
  <2>1. list[u] \in Clause
    OBVIOUS
  <2> QED BY <2>1, DeclaredIs DEF Clause
<1>3. PICK l : l = Laid(list)
  OBVIOUS
<1>4. l = [u \in 1..n |-> [base |-> list[u].base, virtual |-> list[u].virtual,
                           offset |-> IF list[u].virtual THEN p[u - 1] ELSE f[u - 1]]]
  BY <1>1, <1>3 DEF Laid
<1>5. l \in [1..n -> Entry]
  BY <1>2, <1>4 DEF Entry
<1>6. l \in Seq(Entry) /\ Len(l) = n
  BY <1>5
<1>7. \A u \in 1..n : /\ l[u].base = list[u].base /\ l[u].virtual = list[u].virtual
                      /\ l[u].offset = (IF list[u].virtual THEN p[u - 1] ELSE f[u - 1])
                      /\ Extent(l[u]) = Extent(list[u]) /\ Extent(l[u]) \in Nat
  BY <1>2, <1>4 DEF Extent
<1>8. SizeOf(list) = p[n] + 1 /\ p[n] \in Nat
  BY <1>1 DEF SizeOf
<1>9. /\ p[0] = f[n]
      /\ \A u, j \in 0..n : u <= j => f[u] <= f[j] /\ p[u] <= p[j]
  BY <1>0, <1>1 DEF PlacedClauses
<1>10. \A u \in 1..n, j \in 0..n : u <= j =>
          /\ list[u].virtual => p[u - 1] + Extent(l[u]) <= p[j]
          /\ ~list[u].virtual => f[u - 1] + Extent(l[u]) <= f[j]
  <2> TAKE u \in 1..n, j \in 0..n
  <2>1. SUFFICES ASSUME u <= j
                 PROVE  /\ list[u].virtual => p[u - 1] + Extent(l[u]) <= p[j]
                        /\ ~list[u].virtual => f[u - 1] + Extent(l[u]) <= f[j]
    OBVIOUS
  <2>2. PICK h \in 0..n : h = u - 1 /\ h < j /\ h <= j /\ u = h + 1
    BY <2>1
  <2>3. f[h] + FlatSizes(list)[h + 1] <= f[j] /\ p[h] + PtrSizes(list)[h + 1] <= p[j]
    BY <1>0, <1>1, <2>2 DEF PlacedClauses
  <2>4. /\ FlatSizes(list)[u] = (IF list[u].virtual THEN 0 ELSE othersize[list[u].base])
        /\ PtrSizes(list)[u] = (IF list[u].virtual THEN 1 ELSE 0)
    BY <1>0 DEF PlacedClauses
  <2> QED BY <1>2, <1>7, <2>2, <2>3, <2>4 DEF Extent
<1>11. \A u \in 1..n : l[u].offset + Extent(l[u]) <= p[n] + 1
  <2> TAKE u \in 1..n
  <2>1. PICK h \in 0..n : h = u - 1
    BY <1>2
  <2>2. PICK e \in Nat : e = Extent(l[u])
    BY <1>7
  <2>3. 0 \in 0..n /\ n \in 0..n /\ u <= n /\ p[0] <= p[n] /\ f[n] \in Nat /\ p[h] \in Nat /\ f[h] \in Nat
    BY <1>9
  <2>4. CASE list[u].virtual
    <3>1. p[h] + e <= p[n]
      BY <1>10, <2>1, <2>2, <2>3, <2>4
    <3>2. l[u].offset = p[h]
      BY <1>7, <2>1, <2>4
    <3> QED BY <1>8, <2>2, <2>3, <3>1, <3>2
  <2>5. CASE ~list[u].virtual
    <3>1. f[h] + e <= f[n]
      BY <1>10, <2>1, <2>2, <2>3, <2>5
    <3>2. l[u].offset = f[h]
      BY <1>7, <2>1, <2>5
    <3> QED BY <1>8, <1>9, <2>2, <2>3, <3>1, <3>2
  <2> QED BY <2>4, <2>5
<1>12. ASSUME NEW u \in 1..n, NEW j \in 1..n, u < j PROVE Apart(l[u], l[j])
  <2>1. PICK h \in 0..n, k \in 0..n : h = u - 1 /\ k = j - 1 /\ u <= k
    BY <1>2, <1>12
  <2>2. PICK d, e \in Nat : d = Extent(l[u]) /\ e = Extent(l[j])
    BY <1>7
  <2>3. /\ 0 \in 0..n /\ n \in 0..n /\ u <= n /\ j <= n /\ k <= n
        /\ f[n] \in Nat /\ p[0] \in Nat /\ p[h] \in Nat /\ f[h] \in Nat /\ p[k] \in Nat /\ f[k] \in Nat
        /\ p[0] = f[n] /\ p[0] <= p[h] /\ p[0] <= p[k]
    BY <1>9
  <2>4. CASE list[u].virtual /\ list[j].virtual
    <3>1. p[h] + d <= p[k]
      BY <1>10, <2>1, <2>2, <2>4
    <3> QED BY <1>7, <2>1, <2>2, <2>4, <3>1 DEF Apart
  <2>5. CASE ~list[u].virtual /\ ~list[j].virtual
    <3>1. f[h] + d <= f[k]
      BY <1>10, <2>1, <2>2, <2>5
    <3> QED BY <1>7, <2>1, <2>2, <2>5, <3>1 DEF Apart
  <2>6. CASE list[u].virtual /\ ~list[j].virtual
    <3>1. f[k] + e <= f[n]
      BY <1>10, <2>1, <2>2, <2>3, <2>6
    <3>2. f[k] + e <= p[h]
      BY <2>3, <3>1
    <3> QED BY <1>7, <2>1, <2>2, <2>6, <3>2 DEF Apart
  <2>7. CASE ~list[u].virtual /\ list[j].virtual
    <3>1. f[h] + d <= f[n]
      BY <1>10, <2>1, <2>2, <2>3, <2>7
    <3>2. f[h] + d <= p[k]
      BY <2>3, <3>1
    <3> QED BY <1>7, <2>1, <2>2, <2>7, <3>2 DEF Apart
  <2> QED BY <1>2, <2>4, <2>5, <2>6, <2>7
<1>13. \A u, j \in 1..n : u # j => Apart(l[u], l[j])
  <2> TAKE u \in 1..n, j \in 1..n
  <2>1. CASE u < j
    BY <1>12, <2>1
  <2>2. CASE j < u
    <3>1. Apart(l[j], l[u])
      BY <1>12, <2>2
    <3> QED BY <3>1 DEF Apart
  <2> QED BY <2>1, <2>2
<1>14. SizeOf(list) \in Nat
  BY <1>8
<1> QED BY <1>3, <1>6, <1>7, <1>8, <1>11, <1>13, <1>14 DEF LaidRight

\* The virtual bases of a new class are declared and lie apart behind it.
LEMMA AllVBasesDeclared ==
    ASSUME HInv, NEW list \in Seq(Clause)
    PROVE  AllVBases(list) \subseteq Declared
<1>1. ASSUME NEW k \in Items(list) PROVE k \in Clause /\ VBases(k.base) \subseteq Declared
  <2>1. k \in Clause
    BY DEF Items
  <2>2. k.base \in Declared
    BY <2>1 DEF Clause
  <2>3. ASSUME NEW b \in VBases(k.base) PROVE b \in Declared
    <3>1. b \in 1..(k.base - 1)
      BY <2>2 DEF HInv, VBasesRight
    <3>2. k.base \in 1..Len(bases) /\ Len(bases) \in Nat /\ Declared = 1..Len(bases)
      BY <2>2, DeclaredIs DEF HInv
    <3> QED BY <3>1, <3>2
  <2> QED BY <2>1, <2>3
<1> QED BY <1>1 DEF AllVBases, Clause

NewVBases(list) == [b \in AllVBases(list) |-> VBaseOffsets(list)[b - 1]]

NewVBasesRight(list) ==
    /\ NewVBases(list) \in VBaseMaps /\ DOMAIN NewVBases(list) = AllVBases(list)
    /\ \A b \in AllVBases(list) : NewVBases(list)[b] \in Nat /\ SizeOf(list) <= NewVBases(list)[b]
    /\ \A b, d \in AllVBases(list) : b < d => NewVBases(list)[b] + othersize[b] <= NewVBases(list)[d]

LEMMA NewVBasesAre ==
    ASSUME HInv, NEW n \in Nat, NEW list \in [1..n -> Clause], Len(list) = n
    PROVE  NewVBasesRight(list)
<1>1. PICK m \in Nat : m = Len(bases) /\ Declared = 1..m
  BY DeclaredIs DEF HInv
<1>2. PICK A \in SUBSET (1..m) : A = AllVBases(list)
  <2>1. list \in Seq(Clause)
    OBVIOUS
  <2> QED BY <1>1, <2>1, AllVBasesDeclared
<1>3. PICK size \in Nat : size = SizeOf(list)
  <2>1. LaidRight(list, n)
    BY LaidIs DEF HInv
  <2> QED BY <2>1 DEF LaidRight
<1>4. PICK sizes : sizes = VBaseSizes(list)
  OBVIOUS
<1>5. sizes = [b \in 1..m |-> IF b \in A THEN othersize[b] ELSE 0]
  BY <1>1, <1>2, <1>4 DEF VBaseSizes
<1>6. sizes \in [1..m -> Nat]
  <2>1. \A b \in 1..m : othersize[b] \in Nat
    BY <1>1, DeclaredIs DEF HInv
  <2> QED BY <1>5, <2>1
<1>7. sizes \in Seq(Nat) /\ Len(sizes) = m
  BY <1>6
<1>8. PICK p \in [0..m -> Nat] : p = VBaseOffsets(list)
  BY <1>3, <1>4, <1>7, SumsAre DEF VBaseOffsets
<1>9. p[0] = size /\ \A u \in 1..m : p[u] = p[u - 1] + sizes[u]
  <2>1. p = Sums(size, sizes)
    BY <1>3, <1>4, <1>8 DEF VBaseOffsets
  <2>2. Sums(size, sizes)[0] = size /\ \A u \in 1..m : Sums(size, sizes)[u] = Sums(size, sizes)[u - 1] + sizes[u]
    BY <1>7, SumsAre
  <2> QED BY <2>1, <2>2
<1>10. \A u, j \in 0..m : u <= j => p[u] <= p[j] /\ (u < j => p[u] + sizes[u + 1] <= p[j])
  BY <1>7, <1>9, SumsGrow
<1>11. PICK vb : vb = NewVBases(list)
  OBVIOUS
<1>12. vb = [b \in A |-> p[b - 1]]
  BY <1>2, <1>8, <1>11 DEF NewVBases
<1>13. \A b \in A : b \in 1..m /\ b - 1 \in 0..m /\ vb[b] = p[b - 1] /\ p[b - 1] \in Nat
  BY <1>12
<1>14. vb \in VBaseMaps /\ DOMAIN vb = A
  <2>1. vb \in [A -> Nat]
    BY <1>12, <1>13
  <2>2. A \in SUBSET Nat
    OBVIOUS
  <2> QED BY <2>1, <2>2 DEF VBaseMaps
<1>15. ASSUME NEW b \in A PROVE vb[b] \in Nat /\ size <= vb[b]
  <2>1. 0 \in 0..m /\ 0 <= b - 1
    BY <1>13
  <2>2. p[0] <= p[b - 1]
    BY <1>10, <1>13, <2>1
  <2> QED BY <1>9, <1>13, <2>2
<1>16. ASSUME NEW b \in A, NEW d \in A, b < d PROVE vb[b] + othersize[b] <= vb[d]
  <2>1. PICK u, j \in 0..m : u = b - 1 /\ j = d - 1 /\ u <= j /\ u < j /\ b = u + 1
    BY <1>13, <1>16
  <2>2. p[u] + sizes[b] <= p[j]
    BY <1>10, <2>1
  <2>3. sizes[b] = othersize[b]
    BY <1>5, <1>13
  <2> QED BY <1>13, <2>1, <2>2, <2>3
<1> QED BY <1>2, <1>3, <1>11, <1>14, <1>15, <1>16 DEF NewVBasesRight

-----------------------------------------------------------------------------
\* What does not change for a class when others are declared.
Keeps(c) ==
    /\ bases'[c] = bases[c] /\ vbases'[c] = vbases[c] /\ othersize'[c] = othersize[c]

Grows ==
    /\ Len(bases') = Len(bases) + 1
    /\ \A c \in Declared : Keeps(c) /\ stores'[c] = stores[c]
    /\ stores'[Len(bases) + 1] = <<>>

LEMMA CompleteGrows ==
    ASSUME HInv, NEW n \in Nat, NEW list \in [1..n -> Clause], Len(list) = n, CompleteClass(list)
    PROVE  /\ HTyped' /\ Grows
           /\ bases'[Len(bases) + 1] = Laid(list) /\ vbases'[Len(bases) + 1] = NewVBases(list)
           /\ othersize'[Len(bases) + 1] = SizeOf(list)
<1>1. PICK m \in Nat : m = Len(bases) /\ Declared = 1..m
  BY DeclaredIs DEF HInv
<1>2. /\ bases' = Append(bases, Laid(list)) /\ vbases' = Append(vbases, NewVBases(list))
      /\ othersize' = Append(othersize, SizeOf(list)) /\ stores' = Append(stores, <<>>)
  BY DEF CompleteClass, NewVBases
<1>3. Laid(list) \in Seq(Entry) /\ SizeOf(list) \in Nat /\ NewVBases(list) \in VBaseMaps /\ <<>> \in Seq(Store)
  BY LaidIs, NewVBasesAre DEF HInv, LaidRight, NewVBasesRight
<1>4. HTyped
  BY DEF HInv
<1>5. /\ bases' \in Seq(Seq(Entry)) /\ Len(bases') = m + 1 /\ bases'[m + 1] = Laid(list)
      /\ \A c \in 1..m : bases'[c] = bases[c]
  BY <1>1, <1>2, <1>3, <1>4 DEF HTyped
<1>6. /\ vbases' \in Seq(VBaseMaps) /\ Len(vbases') = m + 1 /\ vbases'[m + 1] = NewVBases(list)
      /\ \A c \in 1..m : vbases'[c] = vbases[c]
  BY <1>1, <1>2, <1>3, <1>4 DEF HTyped
<1>7. /\ othersize' \in Seq(Nat) /\ Len(othersize') = m + 1 /\ othersize'[m + 1] = SizeOf(list)
      /\ \A c \in 1..m : othersize'[c] = othersize[c]
  BY <1>1, <1>2, <1>3, <1>4 DEF HTyped
<1>8. /\ stores' \in Seq(Seq(Store)) /\ Len(stores') = m + 1 /\ stores'[m + 1] = <<>>
      /\ \A c \in 1..m : stores'[c] = stores[c]
  BY <1>1, <1>2, <1>3, <1>4 DEF HTyped
<1>9. HTyped'
  BY <1>5, <1>6, <1>7, <1>8 DEF HTyped
<1> QED BY <1>1, <1>5, <1>6, <1>7, <1>8, <1>9 DEF Grows, Keeps

\* What is known of a class when it and all before it stay as they are.
LEMMA ClassStays ==
    ASSUME HInv, NEW c \in Declared, \A d \in Declared : Keeps(d)
    PROVE  (BasesRight(c) /\ VBasesRight(c))'
<1>1. BasesRight(c) /\ VBasesRight(c) /\ c \in Nat /\ bases[c] \in Seq(Entry)
  BY DeclaredIs DEF HInv
<1>2. PICK m \in Nat : m = Len(bases) /\ Declared = 1..m
  BY DeclaredIs DEF HInv
<1>3. bases'[c] = bases[c] /\ vbases'[c] = vbases[c] /\ othersize'[c] = othersize[c]
  BY DEF Keeps
<1>4. \A u \in DOMAIN bases[c] : bases[c][u].base \in Declared
  <2> TAKE u \in DOMAIN bases[c]
  <2>1. bases[c][u].base \in 1..(c - 1)
    BY <1>1 DEF BasesRight
  <2> QED BY <1>1, <1>2, <2>1
<1>5. \A u \in DOMAIN bases[c] : Extent(bases[c][u])' = Extent(bases[c][u])
  BY <1>3, <1>4 DEF Extent, Keeps
<1>6. BasesRight(c)'
  BY <1>1, <1>3, <1>5 DEF BasesRight, Apart
<1>7. AllVBases(bases[c])' = AllVBases(bases[c])
  <2>1. \A k \in Items(bases[c]) : VBases(k.base)' = VBases(k.base)
    BY <1>4 DEF Items, VBases, Keeps
  <2>2. Items(bases'[c]) = Items(bases[c])
    BY <1>3
  <2> QED BY <1>3, <2>1 DEF AllVBases, Items
<1>8. VBases(c)' = VBases(c)
  BY <1>3 DEF VBases
<1>9. \A b \in VBases(c) : b \in Declared
  <2> TAKE b \in VBases(c)
  <2>1. b \in 1..(c - 1)
    BY <1>1 DEF VBasesRight
  <2> QED BY <1>1, <1>2, <2>1
<1>10. \A b \in VBases(c) : othersize'[b] = othersize[b]
  BY <1>9 DEF Keeps
<1>11. VBasesRight(c)'
  BY <1>1, <1>3, <1>7, <1>8, <1>10 DEF VBasesRight
<1> QED BY <1>6, <1>11

LEMMA CompleteStep ==
    ASSUME HInv, NEW list \in BaseClauses, CompleteClass(list)
    PROVE  HInv' /\ Grows
<1>1. PICK n \in Nat : list \in [1..n -> Clause] /\ list \in Seq(Clause) /\ Len(list) = n
  BY ClauseIs
<1>2. PICK m \in Nat : m = Len(bases) /\ Declared = 1..m
  BY DeclaredIs DEF HInv
<1>3. /\ HTyped' /\ Grows
      /\ bases'[m + 1] = Laid(list) /\ vbases'[m + 1] = NewVBases(list) /\ othersize'[m + 1] = SizeOf(list)
  BY <1>1, <1>2, CompleteGrows
<1>4. Declared' = Declared \cup {m + 1} /\ m + 1 \in Nat
  <2>1. Declared' = 1..(m + 1)
    BY <1>2, <1>3 DEF Declared, Grows
  <2> QED BY <1>2, <2>1
<1>5. LaidRight(list, n) /\ NewVBasesRight(list)
  BY <1>1, LaidIs, NewVBasesAre DEF HInv
<1>6. PICK l : l = Laid(list)
  OBVIOUS
<1>7. DOMAIN l = 1..n /\ l \in Seq(Entry)
  BY <1>5, <1>6 DEF LaidRight
<1>8. \A u \in 1..n : list[u].base \in Declared /\ l[u].base = list[u].base /\ l[u].virtual = list[u].virtual
  <2> TAKE u \in 1..n
  <2>1. list[u] \in Clause
    BY <1>1
  <2> QED BY <1>5, <1>6, <2>1 DEF Clause, LaidRight
<1>9. \A u \in 1..n : Extent(l[u])' = Extent(l[u]) /\ Extent(l[u]) = Extent(list[u])
  <2> TAKE u \in 1..n
  <2>1. othersize'[list[u].base] = othersize[list[u].base]
    BY <1>3, <1>8 DEF Grows, Keeps
  <2> QED BY <1>8, <2>1 DEF Extent
<1>10. BasesRight(m + 1)'
  <2>1. \A u \in 1..n : l[u].base \in 1..((m + 1) - 1)
    BY <1>2, <1>8
  <2>2. \A u \in 1..n : l[u].offset + Extent(l[u])' <= SizeOf(list)
    BY <1>5, <1>6, <1>9 DEF LaidRight
  <2>3. \A u, j \in 1..n : u # j => Apart(l[u], l[j])'
    BY <1>5, <1>6, <1>9 DEF LaidRight, Apart
  <2> QED BY <1>3, <1>6, <1>7, <2>1, <2>2, <2>3 DEF BasesRight
<1>11. VBases(m + 1)' = AllVBases(list)
  BY <1>3, <1>5 DEF VBases, NewVBasesRight
<1>12. AllVBases(bases[m + 1])' = AllVBases(list)
  <2>1. Items(bases'[m + 1]) = { l[u] : u \in 1..n }
    BY <1>3, <1>6, <1>7 DEF Items
  <2>2. Items(list) = { list[u] : u \in 1..n }
    BY <1>1 DEF Items
  <2>3. \A u \in 1..n : VBases(l[u].base)' = VBases(list[u].base)
    BY <1>3, <1>8 DEF VBases, Grows, Keeps
  <2>4. AllVBases(bases[m + 1])' =
          { l[u].base : u \in { j \in 1..n : l[j].virtual } } \cup UNION { VBases(l[u].base)' : u \in 1..n }
    BY <2>1 DEF AllVBases
  <2>5. AllVBases(list) =
          { list[u].base : u \in { j \in 1..n : list[j].virtual } } \cup UNION { VBases(list[u].base) : u \in 1..n }
    BY <2>2 DEF AllVBases
  <2>6. { l[u].base : u \in { j \in 1..n : l[j].virtual } } = { list[u].base : u \in { j \in 1..n : list[j].virtual } }
    BY <1>8
  <2>7. UNION { VBases(l[u].base)' : u \in 1..n } = UNION { VBases(list[u].base) : u \in 1..n }
    BY <2>3
  <2> QED BY <2>4, <2>5, <2>6, <2>7
<1>13. \A b \in AllVBases(list) : b \in 1..((m + 1) - 1) /\ othersize'[b] = othersize[b]
  <2> TAKE b \in AllVBases(list)
  <2>1. b \in Declared
    BY <1>1, AllVBasesDeclared
  <2> QED BY <1>2, <1>3, <2>1 DEF Grows, Keeps
<1>14. VBasesRight(m + 1)'
  BY <1>3, <1>5, <1>11, <1>12, <1>13 DEF VBasesRight, NewVBasesRight
<1>15. \A c \in Declared : (BasesRight(c) /\ VBasesRight(c))'
  BY <1>3, ClassStays DEF Grows
<1>16. HInv'
  BY <1>3, <1>4, <1>10, <1>14, <1>15 DEF HInv
<1> QED BY <1>3, <1>16

-----------------------------------------------------------------------------
(***************************************************************************)
(* The parts of an object: the least set that has the object and with      *)
(* every part its bases.                                                   *)
(***************************************************************************)
PartPlaces(c) == PartClasses(c) \X Nat

LEMMA BaseIs ==
    ASSUME HInv, NEW c \in Declared, NEW p \in PartPlaces(c), NEW u \in DOMAIN bases[p[1]]
    PROVE  /\ bases[p[1]][u] \in Entry /\ Base(c, p, bases[p[1]][u]) \in PartPlaces(c)
           /\ Base(c, p, bases[p[1]][u])[1] = bases[p[1]][u].base
           /\ p[1] \in Declared /\ p[1] \in Nat /\ p[2] \in Nat
           /\ bases[p[1]][u].base \in Declared /\ bases[p[1]][u].base < p[1]
           /\ bases[p[1]][u].virtual => bases[p[1]][u].base \in VBases(c)
<1>1. PICK m \in Nat : m = Len(bases) /\ Declared = 1..m
  BY DeclaredIs DEF HInv
<1>2. PICK d \in Declared, o \in Nat : d = p[1] /\ o = p[2] /\ VBases(d) \subseteq VBases(c)
  BY DEF PartPlaces, PartClasses
<1>3. BasesRight(d) /\ VBasesRight(d) /\ VBasesRight(c) /\ bases[d] \in Seq(Entry) /\ d \in Nat
  BY DeclaredIs DEF HInv
<1>4. PICK e \in Entry : e = bases[d][u]
  BY <1>2, <1>3
<1>5. e.base \in 1..(d - 1)
  BY <1>2, <1>3, <1>4 DEF BasesRight
<1>6. e.base \in Declared /\ e.base < d /\ e.base \in Nat /\ e.offset \in Nat
  BY <1>1, <1>4, <1>5 DEF Entry
<1>7. e \in Items(bases[d])
  BY <1>2, <1>4 DEF Items
<1>8. VBases(e.base) \subseteq VBases(d) /\ (e.virtual => e.base \in VBases(d))
  BY <1>3, <1>7 DEF VBasesRight, AllVBases
<1>9. e.base \in PartClasses(c)
  BY <1>2, <1>6, <1>8 DEF PartClasses
<1>10. BaseOffset(c, e, o) \in Nat
  BY <1>2, <1>3, <1>6, <1>8 DEF BaseOffset, VBasesRight
<1>11. PICK b : b = Base(c, p, bases[p[1]][u])
  OBVIOUS
<1>12. b = <<e.base, BaseOffset(c, e, o)>>
  BY <1>2, <1>4, <1>11 DEF Base
<1>13. b \in PartPlaces(c) /\ b[1] = e.base
  BY <1>9, <1>10, <1>12 DEF PartPlaces
<1>14. d \in Nat /\ (e.virtual => e.base \in VBases(c))
  BY <1>2, <1>3, <1>8
<1> QED BY <1>2, <1>4, <1>6, <1>11, <1>13, <1>14

PartsBody(c, f, p) == {p} \cup UNION { f[Base(c, p, e)] : e \in Items(bases[p[1]]) }
PartsFn(c) == CHOOSE f : f = [p \in PartPlaces(c) |-> PartsBody(c, f, p)]

LEMMA SubobjectsFn ==
    ASSUME NEW c
    PROVE  Subobjects(c) = PartsFn(c)[<<c, 0>>]
BY DEF Subobjects, PartsFn, PartsBody, PartPlaces

LEMMA PartsExist ==
    ASSUME HInv, NEW c \in Declared
    PROVE  PartsFn(c) = [p \in PartPlaces(c) |-> PartsBody(c, PartsFn(c), p)]
<1> DEFINE D == PartPlaces(c)
           V == SUBSET D
           step == [p \in D |-> [f \in [D -> V] |-> PartsBody(c, f, p)]]
           rank == [p \in D |-> p[1]]
<1>0. \A p \in D : \A e \in Items(bases[p[1]]) : Base(c, p, e) \in D /\ Base(c, p, e)[1] < p[1]
  BY BaseIs DEF Items
<1>1. \A p \in D : p[1] \in Nat
  BY DeclaredIs DEF PartPlaces, PartClasses, HInv
<1> HIDE DEF D
<1>2. rank \in [D -> Nat]
  BY <1>1
<1>3. step \in [D -> [[D -> V] -> V]]
  <2>1. ASSUME NEW p \in D, NEW f \in [D -> V] PROVE PartsBody(c, f, p) \in V
    <3>1. \A e \in Items(bases[p[1]]) : f[Base(c, p, e)] \in SUBSET D
      BY <1>0
    <3> QED BY <3>1 DEF PartsBody
  <2> QED BY <2>1
<1>4. LooksAtLowerRanks(step, D, V, rank)
  <2>1. ASSUME NEW p \in D, NEW g \in [D -> V], NEW h \in [D -> V],
               \A q \in D : rank[q] < rank[p] => g[q] = h[q]
        PROVE  step[p][g] = step[p][h]
    <3>1. \A e \in Items(bases[p[1]]) : g[Base(c, p, e)] = h[Base(c, p, e)]
      BY <1>0, <2>1
    <3>2. PartsBody(c, g, p) = PartsBody(c, h, p)
      BY <3>1 DEF PartsBody
    <3> QED BY <3>2
  <2> HIDE DEF step, rank, V
  <2> QED BY <2>1 DEF LooksAtLowerRanks
<1>5. HasSolution(step, D, V)
  <2>1. {} \in V
    OBVIOUS
  <2> HIDE DEF step, rank, V
  <2> QED BY <1>2, <1>3, <1>4, <2>1, RankedFunction
<1>6. PICK f \in [D -> V] : \A p \in D : f[p] = step[p][f]
  BY <1>5 DEF HasSolution
<1>7. f = [p \in D |-> PartsBody(c, f, p)]
  BY <1>6
<1> QED BY <1>7 DEF PartsFn, D

Closed(c, S) == \A p \in S : \A e \in Items(bases[p[1]]) : Base(c, p, e) \in S

\* The parts of each place in an object: it, and those of its bases.
LEMMA PartsAre ==
    ASSUME HInv, NEW c \in Declared
    PROVE  \A p \in PartPlaces(c) : PartsFn(c)[p] = {p} \cup UNION { PartsFn(c)[Base(c, p, e)] : e \in Items(bases[p[1]]) }
BY PartsExist DEF PartsBody

LEMMA ClosedHasParts ==
    ASSUME HInv, NEW c \in Declared, NEW S, Closed(c, S)
    PROVE  \A p \in PartPlaces(c) : p \in S => PartsFn(c)[p] \subseteq S
<1>1. PICK m \in Nat : m = Len(bases) /\ Declared = 1..m
  BY DeclaredIs DEF HInv
<1> DEFINE T == { k \in 0..m : \A p \in PartPlaces(c) : p[1] = k /\ p \in S => PartsFn(c)[p] \subseteq S }
<1>2. ASSUME NEW k \in 0..m, \A j \in 0..m : j < k => j \in T PROVE k \in T
  <2> SUFFICES ASSUME NEW p \in PartPlaces(c), p[1] = k, p \in S PROVE PartsFn(c)[p] \subseteq S
    OBVIOUS
  <2>1. ASSUME NEW e \in Items(bases[p[1]]) PROVE PartsFn(c)[Base(c, p, e)] \subseteq S
    <3>1. Base(c, p, e) \in PartPlaces(c) /\ Base(c, p, e)[1] \in 0..m /\ Base(c, p, e)[1] < k
      BY <1>1, BaseIs DEF Items
    <3>2. Base(c, p, e) \in S
      BY DEF Closed
    <3> QED BY <1>2, <3>1, <3>2
  <2> QED BY <2>1, PartsAre
<1>3. \A k \in 0..m : k \in T
  <2>1. Progressive(T, m)
    <3> HIDE DEF T
    <3> QED BY <1>2 DEF Progressive
  <2> HIDE DEF T
  <2> QED BY <2>1, StrongInduction
<1> QED
  <2> TAKE p \in PartPlaces(c)
  <2>1. p[1] \in 0..m
    BY <1>1 DEF PartPlaces, PartClasses
  <2> QED BY <1>3, <2>1

LEMMA PartsClosed ==
    ASSUME HInv, NEW c \in Declared
    PROVE  \A p \in PartPlaces(c) : /\ p \in PartsFn(c)[p] /\ PartsFn(c)[p] \subseteq PartPlaces(c)
                                /\ Closed(c, PartsFn(c)[p])
<1>1. PICK m \in Nat : m = Len(bases) /\ Declared = 1..m
  BY DeclaredIs DEF HInv
<1> DEFINE Good(p) == PartsFn(c)[p] \subseteq PartPlaces(c) /\ Closed(c, PartsFn(c)[p])
           T == { k \in 0..m : \A p \in PartPlaces(c) : p[1] = k => Good(p) }
<1>2. ASSUME NEW k \in 0..m, \A j \in 0..m : j < k => j \in T PROVE k \in T
  <2> SUFFICES ASSUME NEW p \in PartPlaces(c), p[1] = k PROVE Good(p)
    OBVIOUS
  <2>1. ASSUME NEW e \in Items(bases[p[1]])
        PROVE  Good(Base(c, p, e)) /\ Base(c, p, e) \in PartsFn(c)[Base(c, p, e)]
    <3>1. Base(c, p, e) \in PartPlaces(c) /\ Base(c, p, e)[1] \in 0..m /\ Base(c, p, e)[1] < k
      BY <1>1, BaseIs DEF Items
    <3>2. Base(c, p, e) \in PartsFn(c)[Base(c, p, e)]
      BY <3>1, PartsAre
    <3> QED BY <1>2, <3>1, <3>2
  <2>2. PartsFn(c)[p] = {p} \cup UNION { PartsFn(c)[Base(c, p, e)] : e \in Items(bases[p[1]]) }
    BY PartsAre
  <2>3. PartsFn(c)[p] \subseteq PartPlaces(c)
    BY <2>1, <2>2
  <2>4. ASSUME NEW q \in PartsFn(c)[p], NEW e \in Items(bases[q[1]])
        PROVE  Base(c, q, e) \in PartsFn(c)[p]
    <3>1. CASE q = p
      <4>1. Base(c, p, e) \in PartsFn(c)[Base(c, p, e)]
        BY <2>1, <3>1
      <4> QED BY <2>2, <3>1, <4>1
    <3>2. CASE q # p
      <4>1. PICK d \in Items(bases[p[1]]) : q \in PartsFn(c)[Base(c, p, d)]
        BY <2>2, <3>2
      <4>2. Base(c, q, e) \in PartsFn(c)[Base(c, p, d)]
        BY <2>1, <4>1 DEF Closed
      <4> QED BY <2>2, <4>2
    <3> QED BY <3>1, <3>2
  <2> QED BY <2>3, <2>4 DEF Closed
<1>3. \A k \in 0..m : k \in T
  <2>1. Progressive(T, m)
    <3> HIDE DEF T
    <3> QED BY <1>2 DEF Progressive
  <2> HIDE DEF T
  <2> QED BY <2>1, StrongInduction
<1> QED
  <2> TAKE p \in PartPlaces(c)
  <2>1. p[1] \in 0..m
    BY <1>1 DEF PartPlaces, PartClasses
  <2>2. Good(p)
    BY <1>3, <2>1
  <2> QED BY <2>2, PartsAre

\* What Subobjects gives.
LEMMA SubobjectsAre ==
    ASSUME HInv, NEW c \in Declared
    PROVE  /\ <<c, 0>> \in Subobjects(c) /\ Subobjects(c) \subseteq PartPlaces(c) /\ Closed(c, Subobjects(c))
           /\ \A S : <<c, 0>> \in S /\ Closed(c, S) => Subobjects(c) \subseteq S
<1>1. <<c, 0>> \in PartPlaces(c)
  BY DEF PartPlaces, PartClasses
<1> QED BY <1>1, PartsClosed, ClosedHasParts, SubobjectsFn

-----------------------------------------------------------------------------
(***************************************************************************)
(* The walk of CABI_0056e210 comes upon the pointers of the parts.         *)
(***************************************************************************)
\* The offsets of the pointers to `target' in the parts that are in S.
Cells(S, target) ==
    UNION { { p[2] + e.offset : e \in { b \in Items(bases[p[1]]) : b.virtual /\ b.base = target } } : p \in S }

OwnPointer(entry, offset, target) ==
    IF entry.base = target /\ entry.virtual THEN <<offset + entry.offset>> ELSE <<>>

WalkBody(c, target, f, p) ==
    Concat([u \in DOMAIN bases[p[1]] |-> OwnPointer(bases[p[1]][u], p[2], target) \o f[Base(c, p, bases[p[1]][u])]])

WalkFn(c, target) == CHOOSE f : f = [p \in PartPlaces(c) |-> WalkBody(c, target, f, p)]

LEMMA PointersToFn ==
    ASSUME NEW c, NEW target
    PROVE  PointersTo(c, target) = WalkFn(c, target)[<<c, 0>>]
BY DEF PointersTo, WalkFn, WalkBody, OwnPointer, PartPlaces

\* One place: its own pointers and what is found at its bases.
LEMMA WalkBodyIs ==
    ASSUME HInv, NEW c \in Declared, NEW target, NEW p \in PartPlaces(c), NEW f,
           \A u \in DOMAIN bases[p[1]] : f[Base(c, p, bases[p[1]][u])] \in Seq(Nat)
    PROVE  /\ WalkBody(c, target, f, p) \in Seq(Nat)
           /\ Items(WalkBody(c, target, f, p)) =
                 Cells({p}, target) \cup UNION { Items(f[Base(c, p, e)]) : e \in Items(bases[p[1]]) }
<1>1. PICK list \in Seq(Entry) : list = bases[p[1]]
  BY DeclaredIs DEF HInv, PartPlaces, PartClasses
<1>2. PICK n \in Nat : n = Len(list) /\ DOMAIN list = 1..n
  BY <1>1
<1>3. \A u \in 1..n : /\ list[u] \in Entry /\ f[Base(c, p, list[u])] \in Seq(Nat)
                      /\ OwnPointer(list[u], p[2], target) \in Seq(Nat)
  <2> TAKE u \in 1..n
  <2>1. list[u] \in Entry /\ f[Base(c, p, list[u])] \in Seq(Nat) /\ p[2] \in Nat
    BY <1>1, <1>2 DEF PartPlaces
  <2>2. p[2] + list[u].offset \in Nat
    BY <2>1 DEF Entry
  <2>3. OwnPointer(list[u], p[2], target) \in Seq(Nat)
    BY <2>2 DEF OwnPointer
  <2> QED BY <2>1, <2>3
<1>4. PICK seqs : seqs = [u \in 1..n |-> OwnPointer(list[u], p[2], target) \o f[Base(c, p, list[u])]]
  OBVIOUS
<1>5. \A u \in 1..n : /\ seqs[u] \in Seq(Nat)
                      /\ Items(seqs[u]) = Items(OwnPointer(list[u], p[2], target)) \cup Items(f[Base(c, p, list[u])])
  BY <1>3, <1>4, ItemsConcat
<1>6. seqs \in Seq(Seq(Nat)) /\ Len(seqs) = n
  <2>1. seqs \in [1..n -> Seq(Nat)]
    BY <1>4, <1>5
  <2> QED BY <2>1
<1>7. WalkBody(c, target, f, p) = Concat(seqs)
  BY <1>1, <1>2, <1>4 DEF WalkBody
<1>8. Concat(seqs) \in Seq(Nat) /\ Items(Concat(seqs)) = UNION { Items(seqs[u]) : u \in 1..n }
  BY <1>6, ConcatIs
<1>9. Items(list) = { list[u] : u \in 1..n }
  BY <1>2 DEF Items
<1>10. UNION { Items(f[Base(c, p, e)]) : e \in Items(bases[p[1]]) } = UNION { Items(f[Base(c, p, list[u])]) : u \in 1..n }
  BY <1>1, <1>9
<1>11. ASSUME NEW u \in 1..n, NEW x
       PROVE  x \in Items(OwnPointer(list[u], p[2], target)) <=>
                 list[u].virtual /\ list[u].base = target /\ x = p[2] + list[u].offset
  <2>1. CASE list[u].base = target /\ list[u].virtual
    <3>1. OwnPointer(list[u], p[2], target) = <<p[2] + list[u].offset>>
      BY <2>1 DEF OwnPointer
    <3>2. Items(<<p[2] + list[u].offset>>) = {p[2] + list[u].offset}
      BY DEF Items
    <3> QED BY <2>1, <3>1, <3>2
  <2>2. CASE ~(list[u].base = target /\ list[u].virtual)
    <3>1. OwnPointer(list[u], p[2], target) = <<>>
      BY <2>2 DEF OwnPointer
    <3>2. Items(<<>>) = {}
      BY DEF Items
    <3> QED BY <2>2, <3>1, <3>2
  <2> QED BY <2>1, <2>2
<1>12. ASSUME NEW x
       PROVE  x \in Cells({p}, target) <=> \E u \in 1..n : x \in Items(OwnPointer(list[u], p[2], target))
  <2>1. Cells({p}, target) = { p[2] + e.offset : e \in { b \in Items(list) : b.virtual /\ b.base = target } }
    BY <1>1 DEF Cells
  <2>2. x \in Cells({p}, target) <=>
          \E e \in Items(list) : e.virtual /\ e.base = target /\ x = p[2] + e.offset
    BY <2>1
  <2>3. x \in Cells({p}, target) <=>
          \E u \in 1..n : list[u].virtual /\ list[u].base = target /\ x = p[2] + list[u].offset
    BY <1>9, <2>2
  <2> QED BY <1>11, <2>3
<1>13. PICK R : R = UNION { Items(f[Base(c, p, list[u])]) : u \in 1..n }
  OBVIOUS
<1>14. ASSUME NEW x PROVE x \in Items(Concat(seqs)) <=> x \in Cells({p}, target) \/ x \in R
  <2>1. x \in Items(Concat(seqs)) <=> \E u \in 1..n : x \in Items(seqs[u])
    BY <1>8
  <2>2. x \in R <=> \E u \in 1..n : x \in Items(f[Base(c, p, list[u])])
    BY <1>13
  <2> QED BY <1>5, <1>12, <2>1, <2>2
<1>15. Items(Concat(seqs)) = Cells({p}, target) \cup R
  BY <1>14
<1> QED BY <1>7, <1>8, <1>10, <1>13, <1>15

LEMMA WalkExists ==
    ASSUME HInv, NEW c \in Declared, NEW target
    PROVE  WalkFn(c, target) = [p \in PartPlaces(c) |-> WalkBody(c, target, WalkFn(c, target), p)]
<1> DEFINE D == PartPlaces(c)
           V == Seq(Nat)
           step == [p \in D |-> [f \in [D -> V] |-> WalkBody(c, target, f, p)]]
           rank == [p \in D |-> p[1]]
<1>0. \A p \in D : \A u \in DOMAIN bases[p[1]] :
         Base(c, p, bases[p[1]][u]) \in D /\ Base(c, p, bases[p[1]][u])[1] < p[1]
  BY BaseIs
<1>1. \A p \in D : p[1] \in Nat
  BY DeclaredIs DEF PartPlaces, PartClasses, HInv
<1>2. rank \in [D -> Nat]
  BY <1>1
<1>3. step \in [D -> [[D -> V] -> V]]
  <2>1. ASSUME NEW p \in D, NEW f \in [D -> V] PROVE WalkBody(c, target, f, p) \in V
    <3>1. \A u \in DOMAIN bases[p[1]] : f[Base(c, p, bases[p[1]][u])] \in Seq(Nat)
      BY <1>0
    <3> QED BY <3>1, WalkBodyIs
  <2> HIDE DEF D, V
  <2> QED BY <2>1
<1> HIDE DEF D
<1>4. LooksAtLowerRanks(step, D, V, rank)
  <2>1. ASSUME NEW p \in D, NEW g \in [D -> V], NEW h \in [D -> V],
               \A q \in D : rank[q] < rank[p] => g[q] = h[q]
        PROVE  step[p][g] = step[p][h]
    <3>1. \A u \in DOMAIN bases[p[1]] : g[Base(c, p, bases[p[1]][u])] = h[Base(c, p, bases[p[1]][u])]
      BY <1>0, <2>1
    <3>2. WalkBody(c, target, g, p) = WalkBody(c, target, h, p)
      BY <3>1 DEF WalkBody
    <3> QED BY <3>2
  <2> HIDE DEF step, rank, V
  <2> QED BY <2>1 DEF LooksAtLowerRanks
<1>5. HasSolution(step, D, V)
  <2>1. <<>> \in V
    OBVIOUS
  <2> HIDE DEF step, rank, V
  <2> QED BY <1>2, <1>3, <1>4, <2>1, RankedFunction
<1>6. PICK f \in [D -> V] : \A p \in D : f[p] = step[p][f]
  BY <1>5 DEF HasSolution
<1>7. f = [p \in D |-> WalkBody(c, target, f, p)]
  BY <1>6
<1> QED BY <1>7 DEF WalkFn, D

LEMMA WalkIs ==
    ASSUME HInv, NEW c \in Declared, NEW target
    PROVE  \A p \in PartPlaces(c) : /\ WalkFn(c, target)[p] \in Seq(Nat)
                                /\ Items(WalkFn(c, target)[p]) = Cells(PartsFn(c)[p], target)
<1>1. PICK m \in Nat : m = Len(bases) /\ Declared = 1..m
  BY DeclaredIs DEF HInv
<1>2. PICK W : W = WalkFn(c, target)
  OBVIOUS
<1>3. PICK P : P = PartsFn(c)
  OBVIOUS
<1> DEFINE Good(p) == W[p] \in Seq(Nat) /\ Items(W[p]) = Cells(P[p], target)
           T == { k \in 0..m : \A p \in PartPlaces(c) : p[1] = k => Good(p) }
<1>4. ASSUME NEW k \in 0..m, \A j \in 0..m : j < k => j \in T PROVE k \in T
  <2> SUFFICES ASSUME NEW p \in PartPlaces(c), p[1] = k PROVE Good(p)
    OBVIOUS
  <2>1. ASSUME NEW u \in DOMAIN bases[p[1]] PROVE Good(Base(c, p, bases[p[1]][u]))
    <3>1. /\ Base(c, p, bases[p[1]][u]) \in PartPlaces(c) /\ Base(c, p, bases[p[1]][u])[1] \in 0..m
          /\ Base(c, p, bases[p[1]][u])[1] < k
      BY <1>1, BaseIs
    <3> QED BY <1>4, <3>1
  <2>2. W[p] = WalkBody(c, target, W, p)
    BY <1>2, WalkExists
  <2>3. /\ W[p] \in Seq(Nat)
        /\ Items(W[p]) = Cells({p}, target) \cup UNION { Items(W[Base(c, p, e)]) : e \in Items(bases[p[1]]) }
    <3>1. \A u \in DOMAIN bases[p[1]] : W[Base(c, p, bases[p[1]][u])] \in Seq(Nat)
      BY <2>1
    <3>2. /\ WalkBody(c, target, W, p) \in Seq(Nat)
          /\ Items(WalkBody(c, target, W, p)) =
                Cells({p}, target) \cup UNION { Items(W[Base(c, p, e)]) : e \in Items(bases[p[1]]) }
      BY <3>1, WalkBodyIs, Zenon
    <3> QED BY <2>2, <3>2
  <2>4. \A e \in Items(bases[p[1]]) : Items(W[Base(c, p, e)]) = Cells(P[Base(c, p, e)], target)
    BY <2>1 DEF Items
  <2>5. P[p] = {p} \cup UNION { P[Base(c, p, e)] : e \in Items(bases[p[1]]) }
    BY <1>3, PartsAre
  <2>6. Cells(P[p], target) = Cells({p}, target) \cup UNION { Cells(P[Base(c, p, e)], target) : e \in Items(bases[p[1]]) }
    BY <2>5 DEF Cells
  <2> QED BY <2>3, <2>4, <2>6
<1>5. \A k \in 0..m : k \in T
  <2>1. Progressive(T, m)
    <3> HIDE DEF T
    <3> QED BY <1>4 DEF Progressive
  <2> HIDE DEF T
  <2> QED BY <2>1, StrongInduction
<1> QED
  <2> TAKE p \in PartPlaces(c)
  <2>1. p[1] \in 0..m
    BY <1>1 DEF PartPlaces, PartClasses
  <2>2. Good(p)
    BY <1>5, <2>1
  <2> QED BY <1>2, <1>3, <2>2

\* The walk finds the pointers to its target, and only these.
LEMMA PointersToAre ==
    ASSUME HInv, NEW c \in Declared, NEW target
    PROVE  /\ PointersTo(c, target) \in Seq(Nat)
           /\ \A o : o \in Items(PointersTo(c, target)) <=> <<o, target>> \in Pointers(c)
<1>1. <<c, 0>> \in PartPlaces(c)
  BY DEF PartPlaces, PartClasses
<1>2. PointersTo(c, target) \in Seq(Nat) /\ Items(PointersTo(c, target)) = Cells(Subobjects(c), target)
  BY <1>1, WalkIs, PointersToFn, SubobjectsFn
<1>3. \A o : o \in Cells(Subobjects(c), target) <=> <<o, target>> \in Pointers(c)
  BY DEF Cells, Pointers
<1> QED BY <1>2, <1>3

-----------------------------------------------------------------------------
(***************************************************************************)
(* The parts of an object lie in it without overlapping pointers.  F[d] is *)
(* what lies at the front of an object of class d: the parts that are      *)
(* reached without virtual bases.                                          *)
(***************************************************************************)
Flat(e) == ~e.virtual
Moved(q, n) == <<q[1], q[2] + n>>

FlatStep(F, d) ==
    {<<d, 0>>} \cup UNION { { Moved(q, e.offset) : q \in F[e.base] } : e \in { b \in Items(bases[d]) : Flat(b) } }

FlatParts(F) ==
    /\ F \in [Declared -> SUBSET (Declared \X Nat)]
    /\ \A d \in Declared : F[d] = FlatStep(F, d)

\* An entry of a declared class.
LEMMA EntryIs ==
    ASSUME HInv, NEW d \in Declared, NEW e \in Items(bases[d])
    PROVE  /\ d \in Nat /\ e \in Entry /\ e.base \in Declared /\ e.base \in Nat /\ e.base < d /\ e.offset \in Nat
           /\ e.offset + Extent(e) <= othersize[d] /\ othersize[d] \in Nat /\ othersize[e.base] \in Nat
<1>1. PICK m \in Nat : m = Len(bases) /\ Declared = 1..m
  BY DeclaredIs DEF HInv
<1>2. PICK u \in DOMAIN bases[d] : e = bases[d][u]
  BY DEF Items
<1>3. bases[d] \in Seq(Entry) /\ d \in Nat /\ BasesRight(d)
  BY DeclaredIs DEF HInv
<1>4. e.base \in 1..(d - 1) /\ e.offset + Extent(e) <= othersize[d] /\ e \in Entry
  BY <1>2, <1>3 DEF BasesRight
<1>5. e.base \in Declared /\ e.base < d
  BY <1>1, <1>3, <1>4
<1> QED BY <1>3, <1>4, <1>5, DeclaredIs DEF HInv, Entry

LEMMA FlatExists == ASSUME HInv PROVE \E F : FlatParts(F)
<1>1. PICK m \in Nat : m = Len(bases) /\ Declared = 1..m
  BY DeclaredIs DEF HInv
<1> DEFINE D == Declared
           V == SUBSET (Declared \X Nat)
           step == [d \in D |-> [F \in [D -> V] |-> FlatStep(F, d)]]
<1>2. step \in [D -> [[D -> V] -> V]]
  <2>1. ASSUME NEW d \in D, NEW F \in [D -> V] PROVE FlatStep(F, d) \in V
    <3>1. \A e \in Items(bases[d]) : \A q \in F[e.base] : Moved(q, e.offset) \in Declared \X Nat
      BY EntryIs DEF Moved
    <3> QED BY <3>1 DEF FlatStep
  <2> HIDE DEF D, V
  <2> QED BY <2>1
<1>3. LooksBelow(step, D, V)
  <2>1. ASSUME NEW d \in D, NEW g \in [D -> V], NEW h \in [D -> V], \A e \in D : e < d => g[e] = h[e]
        PROVE  step[d][g] = step[d][h]
    <3>1. \A e \in Items(bases[d]) : g[e.base] = h[e.base]
      BY <2>1, EntryIs
    <3>2. FlatStep(g, d) = FlatStep(h, d)
      BY <3>1 DEF FlatStep
    <3> QED BY <3>2
  <2> HIDE DEF step, V, D
  <2> QED BY <2>1 DEF LooksBelow
<1>4. HasSolution(step, D, V)
  <2>1. D \in SUBSET (0..m) /\ {} \in V
    BY <1>1
  <2> HIDE DEF step, V, D
  <2> QED BY <1>2, <1>3, <2>1, RecursiveFunction
<1>5. PICK F \in [D -> V] : \A d \in D : F[d] = step[d][F]
  BY <1>4 DEF HasSolution
<1>6. FlatParts(F)
  BY <1>5 DEF FlatParts
<1> QED BY <1>6

\* Such a part is the object, or such a part of one of its bases.
LEMMA FlatCases ==
    ASSUME HInv, NEW F, FlatParts(F), NEW d \in Declared, NEW q \in F[d]
    PROVE  /\ q \in Declared \X Nat
           /\ \/ q = <<d, 0>>
              \/ \E u \in DOMAIN bases[d] : /\ Flat(bases[d][u])
                                            /\ \E r \in F[bases[d][u].base] : q = Moved(r, bases[d][u].offset)
<1>1. F[d] = FlatStep(F, d) /\ F[d] \subseteq Declared \X Nat
  BY DEF FlatParts
<1>2. SUFFICES ASSUME q # <<d, 0>>
               PROVE  \E u \in DOMAIN bases[d] : /\ Flat(bases[d][u])
                                                 /\ \E r \in F[bases[d][u].base] : q = Moved(r, bases[d][u].offset)
  BY <1>1
<1>3. PICK e \in { b \in Items(bases[d]) : Flat(b) } : q \in { Moved(r, e.offset) : r \in F[e.base] }
  BY <1>1, <1>2 DEF FlatStep
<1>4. PICK u \in DOMAIN bases[d] : e = bases[d][u]
  BY <1>3 DEF Items
<1> QED BY <1>3, <1>4

LEMMA FlatMoved ==
    ASSUME HInv, NEW F, FlatParts(F), NEW d \in Declared, NEW e \in Items(bases[d]), Flat(e), NEW r \in F[e.base]
    PROVE  Moved(r, e.offset) \in F[d]
<1>1. F[d] = FlatStep(F, d)
  BY DEF FlatParts
<1>2. Moved(r, e.offset) \in { Moved(q, e.offset) : q \in F[e.base] }
  OBVIOUS
<1> QED BY <1>1, <1>2 DEF FlatStep

\* It lies inside, and what is reached from it without a virtual base is
\* another one.
LEMMA FlatInside ==
    ASSUME HInv, NEW F, FlatParts(F)
    PROVE  \A d \in Declared : \A q \in F[d] : q[2] + othersize[q[1]] <= othersize[d]
<1>1. PICK m \in Nat : m = Len(bases) /\ Declared = 1..m
  BY DeclaredIs DEF HInv
<1> DEFINE Good(d) == \A q \in F[d] : q[2] + othersize[q[1]] <= othersize[d]
           T == { k \in 0..m : k \in Declared => Good(k) }
<1>2. ASSUME NEW d \in 0..m, \A j \in 0..m : j < d => j \in T PROVE d \in T
  <2> SUFFICES ASSUME d \in Declared, NEW q \in F[d] PROVE q[2] + othersize[q[1]] <= othersize[d]
    OBVIOUS
  <2>1. CASE q = <<d, 0>>
    <3>1. othersize[d] \in Nat
      BY DeclaredIs DEF HInv
    <3> QED BY <2>1, <3>1
  <2>2. CASE q # <<d, 0>>
    <3>1. PICK u \in DOMAIN bases[d] : Flat(bases[d][u]) /\ \E r \in F[bases[d][u].base] : q = Moved(r, bases[d][u].offset)
      BY <2>2, FlatCases
    <3>2. PICK e \in Items(bases[d]) : e = bases[d][u]
      BY DEF Items
    <3>3. PICK r \in F[e.base] : q = Moved(r, e.offset)
      BY <3>1, <3>2
    <3>4. /\ e.base \in Declared /\ e.base < d /\ e.offset \in Nat /\ othersize[e.base] \in Nat /\ othersize[d] \in Nat
          /\ e.offset + othersize[e.base] <= othersize[d]
      BY <3>1, <3>2, EntryIs DEF Extent, Flat
    <3>5. e.base \in T /\ e.base \in 0..m
      BY <1>1, <1>2, <3>4
    <3>6. r[2] + othersize[r[1]] <= othersize[e.base] /\ r \in Declared \X Nat
      BY <3>4, <3>5, FlatCases
    <3>7. othersize[r[1]] \in Nat /\ r[2] \in Nat
      BY <3>6, DeclaredIs DEF HInv
    <3>8. q[1] = r[1] /\ q[2] = r[2] + e.offset
      BY <3>3 DEF Moved
    <3> QED BY <3>4, <3>6, <3>7, <3>8
  <2> QED BY <2>1, <2>2
<1>3. \A k \in 0..m : k \in T
  <2>1. Progressive(T, m)
    <3> HIDE DEF T
    <3> QED BY <1>2 DEF Progressive
  <2> HIDE DEF T
  <2> QED BY <2>1, StrongInduction
<1>4. \A d \in Declared : d \in 0..m
  BY <1>1
<1> QED BY <1>3, <1>4

LEMMA FlatClosed ==
    ASSUME HInv, NEW F, FlatParts(F)
    PROVE  \A d \in Declared : \A q \in F[d] : \A e \in Items(bases[q[1]]) :
              Flat(e) => <<e.base, q[2] + e.offset>> \in F[d]
<1>1. PICK m \in Nat : m = Len(bases) /\ Declared = 1..m
  BY DeclaredIs DEF HInv
<1>2. \A d \in Declared : <<d, 0>> \in F[d]
  BY DEF FlatParts, FlatStep
<1> DEFINE Good(d) == \A q \in F[d] : \A e \in Items(bases[q[1]]) : Flat(e) => <<e.base, q[2] + e.offset>> \in F[d]
           T == { k \in 0..m : k \in Declared => Good(k) }
<1>3. ASSUME NEW d \in 0..m, \A j \in 0..m : j < d => j \in T PROVE d \in T
  <2> SUFFICES ASSUME d \in Declared, NEW q \in F[d], NEW e \in Items(bases[q[1]]), Flat(e)
               PROVE  <<e.base, q[2] + e.offset>> \in F[d]
    OBVIOUS
  <2>1. q \in Declared \X Nat
    BY FlatCases
  <2>2. e.base \in Declared /\ e.offset \in Nat
    BY <2>1, EntryIs
  <2>3. CASE q = <<d, 0>>
    <3>1. e \in Items(bases[d]) /\ q[2] = 0
      BY <2>3
    <3>2. Moved(<<e.base, 0>>, e.offset) \in F[d]
      BY <1>2, <2>2, <3>1, FlatMoved
    <3>3. Moved(<<e.base, 0>>, e.offset) = <<e.base, q[2] + e.offset>>
      BY <2>2, <3>1 DEF Moved
    <3> QED BY <3>2, <3>3
  <2>4. CASE q # <<d, 0>>
    <3>1. PICK u \in DOMAIN bases[d] : Flat(bases[d][u]) /\ \E r \in F[bases[d][u].base] : q = Moved(r, bases[d][u].offset)
      BY <2>4, FlatCases
    <3>2. PICK b \in Items(bases[d]) : b = bases[d][u]
      BY DEF Items
    <3>3. PICK r \in F[b.base] : q = Moved(r, b.offset)
      BY <3>1, <3>2
    <3>4. b.base \in Declared /\ b.base < d /\ b.offset \in Nat
      BY EntryIs
    <3>5. b.base \in T /\ b.base \in 0..m
      BY <1>1, <1>3, <3>4
    <3>6. r \in Declared \X Nat /\ r[2] \in Nat
      BY <3>4, FlatCases
    <3>7. q[1] = r[1] /\ q[2] = r[2] + b.offset
      BY <3>3 DEF Moved
    <3>8. <<e.base, r[2] + e.offset>> \in F[b.base]
      BY <3>4, <3>5, <3>7
    <3>9. Moved(<<e.base, r[2] + e.offset>>, b.offset) \in F[d]
      BY <3>1, <3>2, <3>8, FlatMoved
    <3>10. Moved(<<e.base, r[2] + e.offset>>, b.offset) = <<e.base, q[2] + e.offset>>
      BY <2>2, <3>4, <3>6, <3>7 DEF Moved
    <3> QED BY <3>9, <3>10
  <2> QED BY <2>3, <2>4
<1>4. \A k \in 0..m : k \in T
  <2>1. Progressive(T, m)
    <3> HIDE DEF T
    <3> QED BY <1>3 DEF Progressive
  <2> HIDE DEF T
  <2> QED BY <2>1, StrongInduction
<1>5. \A d \in Declared : d \in 0..m
  BY <1>1
<1> QED BY <1>4, <1>5

\* A pointer at the front of an object of class d: where it lies, and its base.
PointsFrom(F, d, q, e, x) == q \in F[d] /\ e \in Items(bases[q[1]]) /\ e.virtual /\ x = q[2] + e.offset

LEMMA PointerInside ==
    ASSUME HInv, NEW F, FlatParts(F), NEW d \in Declared, NEW q, NEW e, NEW x, PointsFrom(F, d, q, e, x)
    PROVE  x \in Nat /\ x < othersize[d] /\ othersize[d] \in Nat
<1>1. q \in Declared \X Nat /\ q[1] \in Declared /\ q[2] \in Nat
  BY FlatCases DEF PointsFrom
<1>2. e \in Items(bases[q[1]]) /\ e.virtual /\ x = q[2] + e.offset
  BY DEF PointsFrom
<1>3. e.offset \in Nat /\ e.offset + 1 <= othersize[q[1]]
  BY <1>1, <1>2, EntryIs DEF Extent
<1>4. q[2] + othersize[q[1]] <= othersize[d]
  BY FlatInside DEF PointsFrom
<1>5. othersize[q[1]] \in Nat /\ othersize[d] \in Nat
  BY <1>1, DeclaredIs DEF HInv
<1> QED BY <1>1, <1>2, <1>3, <1>4, <1>5

\* Which entry of d a pointer comes by, and what the entry takes.
LEMMA PointerEntry ==
    ASSUME HInv, NEW F, FlatParts(F), NEW d \in Declared, NEW q, NEW e, NEW x, PointsFrom(F, d, q, e, x)
    PROVE  \E u \in DOMAIN bases[d] :
              /\ bases[d][u].offset <= x /\ x < bases[d][u].offset + Extent(bases[d][u])
              /\ \/ bases[d][u].virtual /\ e.base = bases[d][u].base
                 \/ ~bases[d][u].virtual /\ \E r : PointsFrom(F, bases[d][u].base, r, e, x - bases[d][u].offset)
<1>1. q \in F[d] /\ e \in Items(bases[q[1]]) /\ e.virtual /\ x = q[2] + e.offset
  BY DEF PointsFrom
<1>2. CASE q = <<d, 0>>
  <2>1. e \in Items(bases[d]) /\ q[2] = 0
    BY <1>1, <1>2
  <2>2. PICK u \in DOMAIN bases[d] : e = bases[d][u]
    BY <2>1 DEF Items
  <2>3. e.offset \in Nat /\ x = e.offset
    BY <1>1, <2>1, EntryIs
  <2>4. Extent(e) = 1
    BY <1>1 DEF Extent
  <2> QED BY <1>1, <2>2, <2>3, <2>4
<1>3. CASE q # <<d, 0>>
  <2>1. PICK u \in DOMAIN bases[d] : Flat(bases[d][u]) /\ \E r \in F[bases[d][u].base] : q = Moved(r, bases[d][u].offset)
    BY <1>1, <1>3, FlatCases
  <2>2. PICK b \in Items(bases[d]) : b = bases[d][u]
    BY DEF Items
  <2>3. PICK r \in F[b.base] : q = Moved(r, b.offset)
    BY <2>1, <2>2
  <2>4. b.base \in Declared /\ b.offset \in Nat /\ Extent(b) = othersize[b.base] /\ ~b.virtual
    BY <2>1, <2>2, EntryIs DEF Flat, Extent
  <2>5. r \in Declared \X Nat /\ r[1] \in Declared /\ r[2] \in Nat /\ q[1] = r[1] /\ q[2] = r[2] + b.offset
    BY <2>3, <2>4, FlatCases DEF Moved
  <2>6. e \in Items(bases[r[1]]) /\ e.offset \in Nat
    BY <1>1, <2>5, EntryIs
  <2>7. x - b.offset = r[2] + e.offset
    BY <1>1, <2>4, <2>5, <2>6
  <2>8. PointsFrom(F, b.base, r, e, x - b.offset)
    BY <1>1, <2>6, <2>7 DEF PointsFrom
  <2>9. x - b.offset \in Nat /\ x - b.offset < othersize[b.base] /\ othersize[b.base] \in Nat
    BY <2>4, <2>8, PointerInside
  <2>10. x \in Nat
    BY <1>1, <2>4, <2>5, <2>6
  <2>11. b.offset <= x /\ x < b.offset + Extent(b)
    BY <2>4, <2>9, <2>10
  <2> QED BY <2>2, <2>4, <2>8, <2>11
<1> QED BY <1>2, <1>3

LEMMA FlatPointers ==
    ASSUME HInv, NEW F, FlatParts(F)
    PROVE  \A d \in Declared : \A q, e, r, f, x :
              PointsFrom(F, d, q, e, x) /\ PointsFrom(F, d, r, f, x) => e.base = f.base
<1>1. PICK m \in Nat : m = Len(bases) /\ Declared = 1..m
  BY DeclaredIs DEF HInv
<1> DEFINE Good(d) == \A q, e, r, f, x : PointsFrom(F, d, q, e, x) /\ PointsFrom(F, d, r, f, x) => e.base = f.base
           T == { k \in 0..m : k \in Declared => Good(k) }
<1>2. ASSUME NEW d \in 0..m, \A j \in 0..m : j < d => j \in T PROVE d \in T
  <2> SUFFICES ASSUME d \in Declared, NEW q, NEW e, NEW r, NEW f, NEW x,
                      PointsFrom(F, d, q, e, x), PointsFrom(F, d, r, f, x)
               PROVE  e.base = f.base
    OBVIOUS
  <2>1. PICK u \in DOMAIN bases[d] :
              /\ bases[d][u].offset <= x /\ x < bases[d][u].offset + Extent(bases[d][u])
              /\ \/ bases[d][u].virtual /\ e.base = bases[d][u].base
                 \/ ~bases[d][u].virtual /\ \E s : PointsFrom(F, bases[d][u].base, s, e, x - bases[d][u].offset)
    BY PointerEntry
  <2>2. PICK j \in DOMAIN bases[d] :
              /\ bases[d][j].offset <= x /\ x < bases[d][j].offset + Extent(bases[d][j])
              /\ \/ bases[d][j].virtual /\ f.base = bases[d][j].base
                 \/ ~bases[d][j].virtual /\ \E s : PointsFrom(F, bases[d][j].base, s, f, x - bases[d][j].offset)
    BY PointerEntry
  <2>3. PICK a \in Items(bases[d]), b \in Items(bases[d]) : a = bases[d][u] /\ b = bases[d][j]
    BY DEF Items
  <2>4. a.offset \in Nat /\ b.offset \in Nat /\ Extent(a) \in Nat /\ Extent(b) \in Nat /\ x \in Nat
    BY EntryIs, PointerInside DEF Extent
  <2>5. u = j
    <3>1. BasesRight(d)
      BY DEF HInv
    <3>2. u # j => Apart(a, b)
      BY <2>3, <3>1 DEF BasesRight
    <3>3. ~Apart(a, b)
      BY <2>1, <2>2, <2>3, <2>4 DEF Apart
    <3> QED BY <3>2, <3>3
  <2>6. CASE a.virtual
    BY <2>1, <2>2, <2>3, <2>5, <2>6
  <2>7. CASE ~a.virtual
    <3>1. PICK s : PointsFrom(F, a.base, s, e, x - a.offset)
      BY <2>1, <2>3, <2>7
    <3>2. PICK t : PointsFrom(F, a.base, t, f, x - a.offset)
      BY <2>2, <2>3, <2>5, <2>7
    <3>3. a.base \in 0..m /\ a.base < d /\ a.base \in Declared
      BY <1>1, EntryIs
    <3>4. Good(a.base)
      BY <1>2, <3>3
    <3> QED BY <3>1, <3>2, <3>4
  <2> QED BY <2>6, <2>7
<1>3. \A k \in 0..m : k \in T
  <2>1. Progressive(T, m)
    <3> HIDE DEF T
    <3> QED BY <1>2 DEF Progressive
  <2> HIDE DEF T
  <2> QED BY <2>1, StrongInduction
<1>4. \A d \in Declared : d \in 0..m
  BY <1>1
<1> QED BY <1>3, <1>4

(***************************************************************************)
(* The regions of a complete object: its front, number 0, and its virtual  *)
(* bases.                                                                  *)
(***************************************************************************)
Regions(c) == {0} \cup VBases(c)
ClassOf(c, r) == IF r = 0 THEN c ELSE r
StartOf(c, r) == IF r = 0 THEN 0 ELSE vbases[c][r]

LEMMA RegionsAre ==
    ASSUME HInv, NEW c \in Declared
    PROVE  /\ \A r \in Regions(c) : r \in Nat /\ ClassOf(c, r) \in Declared /\ StartOf(c, r) \in Nat
           /\ \A r, s \in Regions(c) : r < s => StartOf(c, r) + othersize[ClassOf(c, r)] <= StartOf(c, s)
<1>1. VBasesRight(c) /\ c \in Nat /\ othersize[c] \in Nat
  BY DeclaredIs DEF HInv
<1>2. PICK m \in Nat : m = Len(bases) /\ Declared = 1..m
  BY DeclaredIs DEF HInv
<1>3. \A b \in VBases(c) : b \in Declared /\ b \in Nat /\ b # 0 /\ vbases[c][b] \in Nat /\ othersize[c] <= vbases[c][b]
  <2> TAKE b \in VBases(c)
  <2>1. b \in 1..(c - 1) /\ vbases[c][b] \in Nat /\ othersize[c] <= vbases[c][b]
    BY <1>1 DEF VBasesRight
  <2> QED BY <1>1, <1>2, <2>1
<1>4. ASSUME NEW r \in Regions(c), NEW s \in Regions(c), r < s
      PROVE  StartOf(c, r) + othersize[ClassOf(c, r)] <= StartOf(c, s)
  <2>1. s \in VBases(c) /\ s # 0
    <3>1. r >= 0
      BY <1>3 DEF Regions
    <3>2. s # 0
      BY <1>3, <1>4, <3>1 DEF Regions
    <3> QED BY <3>2 DEF Regions
  <2>2. CASE r = 0
    BY <1>1, <1>3, <2>1, <2>2 DEF StartOf, ClassOf
  <2>3. CASE r # 0
    <3>1. r \in VBases(c)
      BY <2>3 DEF Regions
    <3>2. vbases[c][r] + othersize[r] <= vbases[c][s]
      BY <1>1, <1>4, <2>1, <3>1 DEF VBasesRight
    <3> QED BY <2>1, <2>3, <3>2 DEF StartOf, ClassOf
  <2> QED BY <2>2, <2>3
<1> QED BY <1>3, <1>4 DEF Regions, ClassOf, StartOf

\* Every part lies in one of them.
InRegion(F, c, p, r) == \E q \in F[ClassOf(c, r)] : p = Moved(q, StartOf(c, r))

LEMMA PartsInRegions ==
    ASSUME HInv, NEW c \in Declared, NEW F, FlatParts(F), NEW p \in Subobjects(c)
    PROVE  \E r \in Regions(c) : InRegion(F, c, p, r)
<1> DEFINE S == { q \in PartPlaces(c) : \E r \in Regions(c) : InRegion(F, c, q, r) }
<1>0. \A d \in Declared : <<d, 0>> \in F[d]
  BY DEF FlatParts, FlatStep
<1>1. <<c, 0>> \in S
  <2>1. <<c, 0>> \in PartPlaces(c)
    BY DEF PartPlaces, PartClasses
  <2>2. Moved(<<c, 0>>, 0) = <<c, 0>> /\ 0 \in Regions(c) /\ ClassOf(c, 0) = c /\ StartOf(c, 0) = 0
    BY DEF Moved, Regions, ClassOf, StartOf
  <2>3. InRegion(F, c, <<c, 0>>, 0)
    BY <1>0, <2>2 DEF InRegion
  <2> QED BY <2>1, <2>2, <2>3
<1>2. ASSUME NEW q \in S, NEW e \in Items(bases[q[1]]) PROVE Base(c, q, e) \in S
  <2>1. /\ Base(c, q, e) \in PartPlaces(c) /\ e \in Entry /\ q[2] \in Nat /\ q[1] \in Declared
        /\ e.base \in Declared /\ (e.virtual => e.base \in VBases(c))
    BY BaseIs DEF Items
  <2>2. CASE e.virtual
    <3>1. Base(c, q, e) = <<e.base, vbases[c][e.base]>>
      BY <2>2 DEF Base, BaseOffset
    <3>2. e.base \in Regions(c) /\ e.base # 0 /\ vbases[c][e.base] \in Nat
      <4>1. e.base # 0
        BY <2>1, DeclaredIs DEF HInv
      <4>2. StartOf(c, e.base) \in Nat
        BY <2>1, <2>2, RegionsAre DEF Regions
      <4> QED BY <2>1, <2>2, <4>1, <4>2 DEF Regions, StartOf
    <3>3. Moved(<<e.base, 0>>, StartOf(c, e.base)) = Base(c, q, e)
      BY <3>1, <3>2 DEF Moved, StartOf
    <3>4. <<e.base, 0>> \in F[ClassOf(c, e.base)]
      BY <1>0, <2>1, <3>2 DEF ClassOf
    <3>5. InRegion(F, c, Base(c, q, e), e.base)
      BY <3>3, <3>4 DEF InRegion
    <3> QED BY <2>1, <3>2, <3>5
  <2>3. CASE ~e.virtual
    <3>1. PICK r \in Regions(c) : InRegion(F, c, q, r)
      OBVIOUS
    <3>2. PICK t \in F[ClassOf(c, r)] : q = Moved(t, StartOf(c, r))
      BY <3>1 DEF InRegion
    <3>3. ClassOf(c, r) \in Declared /\ StartOf(c, r) \in Nat
      BY RegionsAre
    <3>4. t \in Declared \X Nat /\ t[2] \in Nat /\ q[1] = t[1] /\ q[2] = t[2] + StartOf(c, r)
      BY <3>2, <3>3, FlatCases DEF Moved
    <3>5. <<e.base, t[2] + e.offset>> \in F[ClassOf(c, r)]
      BY <2>3, <3>3, <3>4, FlatClosed DEF Flat
    <3>6. Base(c, q, e) = <<e.base, q[2] + e.offset>>
      BY <2>3 DEF Base, BaseOffset
    <3>7. e.offset \in Nat
      BY <2>1 DEF Entry
    <3>8. (t[2] + e.offset) + StartOf(c, r) = q[2] + e.offset
      BY <3>3, <3>4, <3>7
    <3>9. Moved(<<e.base, t[2] + e.offset>>, StartOf(c, r)) = Base(c, q, e)
      BY <3>6, <3>8 DEF Moved
    <3>10. InRegion(F, c, Base(c, q, e), r)
      BY <3>5, <3>9 DEF InRegion
    <3> QED BY <2>1, <3>10
  <2> QED BY <2>2, <2>3
<1>3. Closed(c, S)
  <2> HIDE DEF S
  <2> QED BY <1>2 DEF Closed
<1>4. Subobjects(c) \subseteq S
  <2> HIDE DEF S
  <2> QED BY <1>1, <1>3, SubobjectsAre
<1> QED BY <1>4

\* A pointer of a complete object, and the region it lies in.
LEMMA PointerRegion ==
    ASSUME HInv, NEW c \in Declared, NEW F, FlatParts(F), NEW x, NEW b, <<x, b>> \in Pointers(c)
    PROVE  \E r \in Regions(c) :
              /\ x \in Nat /\ StartOf(c, r) <= x /\ x < StartOf(c, r) + othersize[ClassOf(c, r)]
              /\ \E q, e : PointsFrom(F, ClassOf(c, r), q, e, x - StartOf(c, r)) /\ e.base = b
<1>1. PICK p \in Subobjects(c) : <<x, b>> \in { <<p[2] + e.offset, e.base>> : e \in { a \in Items(bases[p[1]]) : a.virtual } }
  BY DEF Pointers
<1>2. PICK e \in Items(bases[p[1]]) : e.virtual /\ x = p[2] + e.offset /\ b = e.base
  BY <1>1
<1>3. PICK r \in Regions(c) : InRegion(F, c, p, r)
  BY PartsInRegions
<1>4. PICK q \in F[ClassOf(c, r)] : p = Moved(q, StartOf(c, r))
  BY <1>3 DEF InRegion
<1>5. ClassOf(c, r) \in Declared /\ StartOf(c, r) \in Nat
  BY RegionsAre
<1>6. q \in Declared \X Nat /\ q[1] \in Declared /\ q[2] \in Nat /\ p[1] = q[1] /\ p[2] = q[2] + StartOf(c, r)
  BY <1>4, <1>5, FlatCases DEF Moved
<1>7. e \in Items(bases[q[1]]) /\ e.offset \in Nat
  BY <1>6, EntryIs
<1>8. x - StartOf(c, r) = q[2] + e.offset /\ x \in Nat
  BY <1>2, <1>5, <1>6, <1>7
<1>9. PointsFrom(F, ClassOf(c, r), q, e, x - StartOf(c, r))
  BY <1>2, <1>7, <1>8 DEF PointsFrom
<1>10. /\ x - StartOf(c, r) \in Nat /\ x - StartOf(c, r) < othersize[ClassOf(c, r)]
       /\ othersize[ClassOf(c, r)] \in Nat
  BY <1>5, <1>9, PointerInside
<1>11. StartOf(c, r) <= x /\ x < StartOf(c, r) + othersize[ClassOf(c, r)]
  BY <1>5, <1>8, <1>10
<1> QED BY <1>2, <1>8, <1>9, <1>11

\* No two pointers share a word.
LEMMA PointersApart ==
    ASSUME HInv, NEW c \in Declared, NEW x, NEW b, NEW d, <<x, b>> \in Pointers(c), <<x, d>> \in Pointers(c)
    PROVE  b = d /\ x \in Nat
<1>1. PICK F : FlatParts(F)
  BY FlatExists
<1>2. PICK r \in Regions(c) :
              /\ x \in Nat /\ StartOf(c, r) <= x /\ x < StartOf(c, r) + othersize[ClassOf(c, r)]
              /\ \E q, e : PointsFrom(F, ClassOf(c, r), q, e, x - StartOf(c, r)) /\ e.base = b
  BY <1>1, PointerRegion
<1>3. PICK s \in Regions(c) :
              /\ x \in Nat /\ StartOf(c, s) <= x /\ x < StartOf(c, s) + othersize[ClassOf(c, s)]
              /\ \E q, e : PointsFrom(F, ClassOf(c, s), q, e, x - StartOf(c, s)) /\ e.base = d
  BY <1>1, PointerRegion
<1>4. /\ r \in Nat /\ ClassOf(c, r) \in Declared /\ StartOf(c, r) \in Nat
      /\ s \in Nat /\ ClassOf(c, s) \in Declared /\ StartOf(c, s) \in Nat
  BY RegionsAre
<1>5. othersize[ClassOf(c, r)] \in Nat /\ othersize[ClassOf(c, s)] \in Nat
  BY <1>4, DeclaredIs DEF HInv
<1>6. ~(r < s)
  <2>1. r < s => StartOf(c, r) + othersize[ClassOf(c, r)] <= StartOf(c, s)
    BY RegionsAre
  <2> QED BY <1>2, <1>3, <1>4, <1>5, <2>1
<1>7. ~(s < r)
  <2>1. s < r => StartOf(c, s) + othersize[ClassOf(c, s)] <= StartOf(c, r)
    BY RegionsAre
  <2> QED BY <1>2, <1>3, <1>4, <1>5, <2>1
<1>8. r = s
  BY <1>4, <1>6, <1>7
<1>9. b = d
  BY <1>1, <1>2, <1>3, <1>4, <1>8, FlatPointers
<1> QED BY <1>2, <1>9

-----------------------------------------------------------------------------
(***************************************************************************)
(* The pointers of an object do not change when other classes are          *)
(* declared.                                                               *)
(***************************************************************************)
SubobjectsRight(c) ==
    /\ <<c, 0>> \in Subobjects(c) /\ Subobjects(c) \subseteq PartPlaces(c) /\ Closed(c, Subobjects(c))
    /\ \A S : <<c, 0>> \in S /\ Closed(c, S) => Subobjects(c) \subseteq S

LEMMA SubobjectsAllRight == HInv => \A c \in Declared : SubobjectsRight(c)
BY SubobjectsAre DEF SubobjectsRight

LEMMA SubobjectsRightLater == (HInv => \A c \in Declared : SubobjectsRight(c))'
BY SubobjectsAllRight, PTL

LEMMA SubobjectsStay ==
    ASSUME HInv, HInv', \A d \in Declared : d \in Declared' /\ Keeps(d), NEW c \in Declared
    PROVE  Subobjects(c)' = Subobjects(c)
<1>1. SubobjectsRight(c) /\ SubobjectsRight(c)'
  <2>1. (\A d \in Declared : SubobjectsRight(d))'
    BY SubobjectsRightLater
  <2> QED BY <2>1, SubobjectsAllRight
<1>2. PICK S : S = Subobjects(c)
  OBVIOUS
<1>3. PICK T : T = Subobjects(c)'
  OBVIOUS
<1>4. \A p \in PartPlaces(c) : \A e : Base(c, p, e)' = Base(c, p, e)
  BY DEF Base, BaseOffset, Keeps
<1>5. \A p \in PartPlaces(c) : Items(bases'[p[1]]) = Items(bases[p[1]])
  BY DEF PartPlaces, PartClasses, Keeps
<1>6. T \subseteq S
  <2>1. Closed(c, S)'
    <3>1. S \subseteq PartPlaces(c) /\ Closed(c, S)
      BY <1>1, <1>2 DEF SubobjectsRight
    <3> QED BY <1>4, <1>5, <3>1 DEF Closed
  <2>2. <<c, 0>> \in S
    BY <1>1, <1>2 DEF SubobjectsRight
  <2> QED BY <1>1, <1>3, <2>1, <2>2 DEF SubobjectsRight
<1>7. S \subseteq T
  <2>1. PICK R : R = T \cap PartPlaces(c)
    OBVIOUS
  <2>2. Closed(c, T)'
    BY <1>1, <1>3 DEF SubobjectsRight
  <2>3. Closed(c, R)
    <3> SUFFICES ASSUME NEW p \in R, NEW e \in Items(bases[p[1]]) PROVE Base(c, p, e) \in R
      BY DEF Closed
    <3>1. Base(c, p, e) \in PartPlaces(c)
      BY <2>1, BaseIs DEF Items
    <3>2. Base(c, p, e)' \in T
      BY <1>5, <2>1, <2>2 DEF Closed
    <3> QED BY <1>4, <2>1, <3>1, <3>2
  <2>4. <<c, 0>> \in R
    BY <1>1, <1>3, <2>1 DEF SubobjectsRight, PartPlaces, PartClasses
  <2>5. S \subseteq R
    BY <1>1, <1>2, <2>3, <2>4 DEF SubobjectsRight
  <2> QED BY <2>1, <2>5
<1> QED BY <1>2, <1>3, <1>6, <1>7

LEMMA PointersStay ==
    ASSUME HInv, HInv', \A d \in Declared : d \in Declared' /\ Keeps(d), NEW c \in Declared
    PROVE  Pointers(c)' = Pointers(c)
<1>1. PICK S : S = Subobjects(c) /\ S = Subobjects(c)'
  BY SubobjectsStay
<1>2. S \subseteq PartPlaces(c)
  BY <1>1, SubobjectsAre
<1>3. \A p \in S : bases'[p[1]] = bases[p[1]]
  BY <1>2 DEF PartPlaces, PartClasses, Keeps
<1>4. \A p \in S : { <<p[2] + e.offset, e.base>> : e \in { b \in Items(bases'[p[1]]) : b.virtual } } =
                   { <<p[2] + e.offset, e.base>> : e \in { b \in Items(bases[p[1]]) : b.virtual } }
  BY <1>3
<1>5. Pointers(c) = UNION { { <<p[2] + e.offset, e.base>> : e \in { b \in Items(bases[p[1]]) : b.virtual } } : p \in S }
  BY <1>1 DEF Pointers
<1>6. Pointers(c)' = UNION { { <<p[2] + e.offset, e.base>> : e \in { b \in Items(bases'[p[1]]) : b.virtual } } : p \in S }
  BY <1>1 DEF Pointers
<1> QED BY <1>4, <1>5, <1>6

-----------------------------------------------------------------------------
(***************************************************************************)
(* The translation.  Each store has all pointers to its base and no other; *)
(* the loop has made those of the bases it has come to, and known has      *)
(* their offsets.                                                          *)
(***************************************************************************)
StoreRight(c, s) ==
    /\ s.base \in VBases(c) /\ s.target = vbases[c][s.base] /\ Injective(s.cells)
    /\ \A o : o \in Items(s.cells) <=> <<o, s.base>> \in Pointers(c)

StoresInv(c) ==
    /\ \A k \in DOMAIN stores[c] : StoreRight(c, stores[c][k])
    /\ \A k, l \in DOMAIN stores[c] : stores[c][k].base = stores[c][l].base => k = l

LoopInv ==
    /\ current \in {0} \cup Declared
    /\ current = 0 => todo = {}
    /\ current # 0 =>
          /\ todo # {} /\ todo \subseteq VBases(current)
          /\ { stores[current][k].base : k \in DOMAIN stores[current] } = VBases(current) \ todo
          /\ known = UNION { Items(stores[current][k].cells) : k \in DOMAIN stores[current] }

TInv == HInv /\ LoopInv /\ \A c \in Declared : StoresInv(c)

LEMMA TInvInit == VBaseInit => TInv
<1> SUFFICES ASSUME VBaseInit PROVE TInv
  OBVIOUS
<1>1. /\ bases = <<>> /\ vbases = <<>> /\ othersize = <<>> /\ stores = <<>>
      /\ known = {} /\ current = 0 /\ todo = {}
  BY DEF VBaseInit
<1>2. HTyped
  BY <1>1 DEF HTyped
<1>3. Declared = {}
  BY <1>1 DEF Declared
<1> QED BY <1>1, <1>2, <1>3 DEF TInv, HInv, LoopInv

\* A step that leaves the hierarchy alone.
LEMMA HierarchyStays ==
    ASSUME HInv, UNCHANGED hierarchy, stores' \in Seq(Seq(Store)), Len(stores') = Len(bases)
    PROVE  /\ HInv' /\ Declared' = Declared /\ \A c \in Declared : Keeps(c)
           /\ \A c \in Declared : Pointers(c)' = Pointers(c) /\ VBases(c)' = VBases(c)
<1>1. bases' = bases /\ vbases' = vbases /\ othersize' = othersize
  BY DEF hierarchy
<1>2. Declared' = Declared
  BY <1>1 DEF Declared
<1>3. \A c \in Declared : Keeps(c)
  BY <1>1 DEF Keeps
<1>4. HTyped'
  BY <1>1 DEF HInv, HTyped
<1>5. HInv'
  <2>1. \A c \in Declared : (BasesRight(c) /\ VBasesRight(c))'
    BY <1>3, ClassStays
  <2> QED BY <1>2, <1>4, <2>1 DEF HInv
<1>6. \A c \in Declared : Pointers(c)' = Pointers(c)
  BY <1>2, <1>3, <1>5, PointersStay
<1>7. \A c \in Declared : VBases(c)' = VBases(c)
  BY <1>1 DEF VBases
<1> QED BY <1>2, <1>3, <1>5, <1>6, <1>7

\* The stores of a class stay right while it and its pointers stay.
LEMMA StoresStay ==
    ASSUME NEW c, StoresInv(c), stores'[c] = stores[c], vbases'[c] = vbases[c], Pointers(c)' = Pointers(c)
    PROVE  StoresInv(c)'
<1>1. \A k \in DOMAIN stores[c] : StoreRight(c, stores[c][k])'
  BY DEF StoresInv, StoreRight, VBases
<1> QED BY <1>1 DEF StoresInv

LEMMA CompleteTInv ==
    ASSUME TInv, NEW list \in BaseClauses, CompleteClass(list)
    PROVE  TInv'
<1>1. HInv /\ HInv' /\ Grows
  BY CompleteStep DEF TInv
<1>2. PICK m \in Nat : m = Len(bases) /\ Declared = 1..m
  BY <1>1, DeclaredIs DEF HInv
<1>3. Declared' = Declared \cup {m + 1}
  <2>1. Declared' = 1..(m + 1)
    BY <1>1, <1>2 DEF Declared, Grows
  <2> QED BY <1>2, <2>1
<1>4. \A c \in Declared : StoresInv(c)'
  <2> TAKE c \in Declared
  <2>1. Pointers(c)' = Pointers(c)
    BY <1>1, <1>3, PointersStay DEF Grows
  <2>2. stores'[c] = stores[c] /\ vbases'[c] = vbases[c]
    BY <1>1 DEF Grows, Keeps
  <2> QED BY <2>1, <2>2, StoresStay DEF TInv
<1>5. StoresInv(m + 1)'
  BY <1>1, <1>2 DEF StoresInv, Grows
<1>6. LoopInv'
  BY DEF CompleteClass, TInv, LoopInv
<1> QED BY <1>1, <1>3, <1>4, <1>5, <1>6 DEF TInv

LEMMA InitTInv ==
    ASSUME TInv, NEW c \in Declared, InitVBasePtrs(c)
    PROVE  TInv'
<1>1. HInv /\ HTyped /\ stores \in Seq(Seq(Store)) /\ Len(stores) = Len(bases)
  BY DEF TInv, HInv, HTyped
<1>2. PICK m \in Nat : m = Len(bases) /\ Declared = 1..m
  BY <1>1, DeclaredIs
<1>3. /\ current' = c /\ todo' = VBases(c) /\ known' = {} /\ VBases(c) # {}
      /\ stores' = [stores EXCEPT ![c] = <<>>] /\ UNCHANGED hierarchy
  BY DEF InitVBasePtrs
<1>4. /\ stores' \in Seq(Seq(Store)) /\ Len(stores') = Len(bases) /\ stores'[c] = <<>>
      /\ \A d \in Declared : d # c => stores'[d] = stores[d]
  BY <1>1, <1>2, <1>3
<1>5. /\ HInv' /\ Declared' = Declared /\ \A d \in Declared : Keeps(d)
      /\ \A d \in Declared : Pointers(d)' = Pointers(d) /\ VBases(d)' = VBases(d)
  BY <1>1, <1>3, <1>4, HierarchyStays
<1>6. \A d \in Declared : StoresInv(d)'
  <2> TAKE d \in Declared
  <2>1. CASE d = c
    BY <1>4, <2>1 DEF StoresInv
  <2>2. CASE d # c
    BY <1>4, <1>5, <2>2, StoresStay DEF TInv, Keeps
  <2> QED BY <2>1, <2>2
<1>7. LoopInv'
  <2>1. c # 0
    BY <1>2
  <2> QED BY <1>3, <1>4, <1>5, <2>1 DEF LoopInv
<1> QED BY <1>5, <1>6, <1>7 DEF TInv

\* The virtual bases of a declared class.
LEMMA VBasesDeclared ==
    ASSUME HInv, NEW c \in Declared, NEW b \in VBases(c)
    PROVE  b \in Declared /\ b \in Nat /\ b < c /\ vbases[c][b] \in Nat
<1>1. PICK m \in Nat : m = Len(bases) /\ Declared = 1..m
  BY DeclaredIs DEF HInv
<1>2. b \in 1..(c - 1) /\ vbases[c][b] \in Nat
  BY DEF HInv, VBasesRight
<1> QED BY <1>1, <1>2

\* What is stored for the next base: the known offsets are of other pointers.
LEMMA NextCells ==
    ASSUME TInv, current # 0, NEW b \in todo
    PROVE  /\ NewOffsets(PointersTo(current, b)) \in Seq(Nat) /\ Injective(NewOffsets(PointersTo(current, b)))
           /\ \A o : o \in Items(NewOffsets(PointersTo(current, b))) <=> <<o, b>> \in Pointers(current)
<1>1. HInv /\ current \in Declared /\ StoresInv(current)
  BY DEF TInv, LoopInv
<1>2. PICK found \in Seq(Nat) : found = PointersTo(current, b) /\ \A o : o \in Items(found) <=> <<o, b>> \in Pointers(current)
  BY <1>1, PointersToAre
<1>3. ASSUME NEW o \in known PROVE o \notin Items(found)
  <2>1. PICK k \in DOMAIN stores[current] : o \in Items(stores[current][k].cells)
    BY <1>3 DEF TInv, LoopInv
  <2>2. PICK a : a = stores[current][k].base
    OBVIOUS
  <2>3. <<o, a>> \in Pointers(current) /\ a # b
    BY <1>1, <2>1, <2>2 DEF TInv, LoopInv, StoresInv, StoreRight
  <2>4. PICK c \in Declared : c = current
    BY <1>1
  <2>5. <<o, b>> \notin Pointers(c)
    BY <1>1, <2>3, <2>4, PointersApart
  <2> QED BY <1>2, <2>4, <2>5
<1>4. /\ NewOffsets(found) \in Seq(Nat) /\ Injective(NewOffsets(found))
      /\ Items(NewOffsets(found)) = Items(found) \ known
  <2>1. Len(found) \in Nat
    OBVIOUS
  <2> QED BY <2>1, NewOffsetsAre
<1> QED BY <1>2, <1>3, <1>4

LEMMA NextTInv ==
    ASSUME TInv, NEW b \in todo, NextVBase(b)
    PROVE  TInv'
<1>1. current # 0 /\ current \in Declared /\ HInv /\ StoresInv(current)
  BY DEF TInv, LoopInv
<1>2. PICK c \in Declared : c = current
  BY <1>1
<1>3. PICK cells \in Seq(Nat) : cells = NewOffsets(PointersTo(c, b))
  BY <1>1, <1>2, NextCells
<1>4. Injective(cells) /\ \A o : o \in Items(cells) <=> <<o, b>> \in Pointers(c)
  BY <1>1, <1>2, <1>3, NextCells
<1>5. b \in VBases(c) /\ b \in Nat /\ vbases[c][b] \in Nat
  BY <1>1, <1>2, VBasesDeclared DEF TInv, LoopInv
<1>6. PICK s \in Store : s = [base |-> b, cells |-> cells, target |-> vbases[c][b]]
  BY <1>5 DEF Store
<1>7. /\ stores' = [stores EXCEPT ![c] = Append(stores[c], s)]
      /\ known' = known \cup Items(cells) /\ todo' = todo \ {b}
      /\ current' = (IF todo = {b} THEN 0 ELSE c) /\ UNCHANGED hierarchy
  BY <1>2, <1>3, <1>6 DEF NextVBase
<1>8. HTyped /\ stores \in Seq(Seq(Store)) /\ Len(stores) = Len(bases) /\ stores[c] \in Seq(Store)
  BY <1>1, DeclaredIs DEF HInv, HTyped
<1>9. PICK n \in Nat : n = Len(stores[c]) /\ DOMAIN stores[c] = 1..n
  BY <1>8
<1>10. PICK new \in Seq(Store) : /\ new = Append(stores[c], s) /\ DOMAIN new = (1..n) \cup {n + 1} /\ new[n + 1] = s
                                 /\ \A k \in 1..n : new[k] = stores[c][k] /\ k # n + 1
  <2>1. /\ Append(stores[c], s) \in Seq(Store) /\ DOMAIN Append(stores[c], s) = 1..(n + 1)
        /\ Append(stores[c], s)[n + 1] = s /\ \A k \in 1..n : Append(stores[c], s)[k] = stores[c][k]
    BY <1>8, <1>9
  <2>2. 1..(n + 1) = (1..n) \cup {n + 1} /\ \A k \in 1..n : k # n + 1
    OBVIOUS
  <2> QED BY <2>1, <2>2
<1>11. /\ stores' \in Seq(Seq(Store)) /\ Len(stores') = Len(bases) /\ stores'[c] = new
       /\ \A d \in Declared : d # c => stores'[d] = stores[d]
  <2>1. c \in DOMAIN stores /\ Declared = DOMAIN stores
    BY <1>8 DEF Declared
  <2> QED BY <1>7, <1>8, <1>10, <2>1
<1>12. /\ HInv' /\ Declared' = Declared /\ \A d \in Declared : Keeps(d)
       /\ \A d \in Declared : Pointers(d)' = Pointers(d) /\ VBases(d)' = VBases(d)
  BY <1>1, <1>7, <1>11, HierarchyStays
<1>13. PICK old : old = stores[c]
  OBVIOUS
<1>14. StoresInv(c)'
  <2>1. StoreRight(c, s)'
    BY <1>4, <1>5, <1>6, <1>12 DEF StoreRight, Keeps
  <2>2. \A k \in 1..n : StoreRight(c, old[k])'
    <3> TAKE k \in 1..n
    <3>1. StoreRight(c, old[k])
      BY <1>1, <1>2, <1>9, <1>13 DEF StoresInv
    <3> QED BY <1>12, <3>1 DEF StoreRight, Keeps
  <2>3. \A k \in DOMAIN new : StoreRight(c, new[k])'
    <3> TAKE k \in DOMAIN new
    <3>1. CASE k = n + 1
      <4>1. new[k] = s
        BY <1>10, <3>1
      <4> QED BY <2>1, <4>1 DEF StoreRight
    <3>2. CASE k \in 1..n
      <4>1. new[k] = old[k] /\ StoreRight(c, old[k])'
        BY <1>10, <1>13, <2>2, <3>2
      <4> QED BY <4>1 DEF StoreRight
    <3> QED BY <1>10, <3>1, <3>2
  <2>4. \A k, l \in 1..n : old[k].base = old[l].base => k = l
    BY <1>1, <1>2, <1>9, <1>13 DEF StoresInv
  <2>5. \A k \in 1..n : new[k].base = old[k].base /\ old[k].base # b
    <3> TAKE k \in 1..n
    <3>1. stores[current][k].base # b /\ current # 0 /\ k \in DOMAIN stores[current]
      BY <1>1, <1>2, <1>9 DEF TInv, LoopInv
    <3> QED BY <1>2, <1>10, <1>13, <3>1
  <2>6. new[n + 1].base = b
    <3>1. s.base = b
      BY <1>6
    <3>2. new[n + 1] = s
      BY <1>10
    <3> QED BY <3>1, <3>2
  <2>7. ASSUME NEW k \in DOMAIN new, NEW l \in DOMAIN new, new[k].base = new[l].base PROVE k = l
    <3>1. (k \in 1..n \/ k = n + 1) /\ (l \in 1..n \/ l = n + 1)
      BY <1>10
    <3> QED BY <2>4, <2>5, <2>6, <2>7, <3>1
  <2> QED BY <1>11, <2>3, <2>7 DEF StoresInv
<1>15. \A d \in Declared : StoresInv(d)'
  <2> TAKE d \in Declared
  <2>1. CASE d # c
    BY <1>11, <1>12, <2>1, StoresStay DEF TInv, Keeps
  <2> QED BY <1>14, <2>1
<1>16. LoopInv'
  <2>1. CASE todo = {b}
    BY <1>7, <2>1 DEF LoopInv
  <2>2. CASE todo # {b}
    <3>1. current' = c /\ todo' # {} /\ todo' \subseteq VBases(c)' /\ c # 0
      BY <1>1, <1>2, <1>7, <1>12, <2>2 DEF TInv, LoopInv
    <3>2. { stores[c][k].base : k \in 1..n } = VBases(c) \ todo
      BY <1>1, <1>2, <1>9 DEF TInv, LoopInv
    <3>3. { new[k].base : k \in DOMAIN new } = { stores[c][k].base : k \in 1..n } \cup {b}
      <4>1. { new[k].base : k \in DOMAIN new } = { new[k].base : k \in 1..n } \cup {new[n + 1].base}
        BY <1>10
      <4>2. { new[k].base : k \in 1..n } = { stores[c][k].base : k \in 1..n }
        BY <1>10
      <4>3. s.base = b
        BY <1>6
      <4>4. new[n + 1] = s
        BY <1>10
      <4> QED BY <4>1, <4>2, <4>3, <4>4
    <3>4. { new[k].base : k \in DOMAIN new } = VBases(c) \ todo'
      BY <1>5, <1>7, <3>2, <3>3
    <3>5. known = UNION { Items(stores[c][k].cells) : k \in 1..n }
      BY <1>1, <1>2, <1>9 DEF TInv, LoopInv
    <3>6. { Items(new[k].cells) : k \in DOMAIN new } = { Items(stores[c][k].cells) : k \in 1..n } \cup {Items(cells)}
      <4>1. { Items(new[k].cells) : k \in DOMAIN new } = { Items(new[k].cells) : k \in 1..n } \cup {Items(new[n + 1].cells)}
        BY <1>10
      <4>2. { Items(new[k].cells) : k \in 1..n } = { Items(stores[c][k].cells) : k \in 1..n }
        BY <1>10
      <4>3. s.cells = cells
        BY <1>6
      <4>4. new[n + 1] = s
        BY <1>10
      <4> QED BY <4>1, <4>2, <4>3, <4>4
    <3>7. known' = UNION { Items(new[k].cells) : k \in DOMAIN new }
      BY <1>7, <3>5, <3>6
    <3> QED BY <1>11, <1>12, <3>1, <3>4, <3>7 DEF LoopInv
  <2> QED BY <2>1, <2>2
<1> QED BY <1>12, <1>15, <1>16 DEF TInv

LEMMA TInvHolds == VBaseSpec => []TInv
<1>1. TInv /\ [VBaseNext]_vbasevars => TInv'
  <2> SUFFICES ASSUME TInv, [VBaseNext]_vbasevars PROVE TInv'
    OBVIOUS
  <2>1. CASE UNCHANGED vbasevars
    <3>1. UNCHANGED hierarchy /\ stores' = stores /\ known' = known /\ current' = current /\ todo' = todo
      BY <2>1 DEF vbasevars
    <3>2. HInv /\ stores' \in Seq(Seq(Store)) /\ Len(stores') = Len(bases)
      BY <3>1 DEF TInv, HInv, HTyped
    <3>3. /\ HInv' /\ Declared' = Declared /\ \A d \in Declared : Keeps(d)
          /\ \A d \in Declared : Pointers(d)' = Pointers(d) /\ VBases(d)' = VBases(d)
      BY <3>1, <3>2, HierarchyStays
    <3>4. \A d \in Declared : StoresInv(d)'
      BY <3>1, <3>3, StoresStay DEF TInv, Keeps
    <3>5. LoopInv'
      <4>1. LoopInv /\ vbases' = vbases
        BY <3>1 DEF TInv, hierarchy
      <4> QED BY <3>1, <3>3, <4>1 DEF LoopInv, VBases
    <3> QED BY <3>3, <3>4, <3>5 DEF TInv
  <2>2. CASE \E list \in BaseClauses : CompleteClass(list)
    BY <2>2, CompleteTInv
  <2>3. CASE \E c \in Declared : InitVBasePtrs(c)
    BY <2>3, InitTInv
  <2>4. CASE \E b \in todo : NextVBase(b)
    BY <2>4, NextTInv
  <2> QED BY <2>1, <2>2, <2>3, <2>4 DEF VBaseNext
<1> QED BY TInvInit, <1>1, PTL DEF VBaseSpec

LEMMA TInvStores == TInv => StoresRight
<1> SUFFICES ASSUME TInv PROVE StoresRight
  OBVIOUS
<1>1. HInv /\ LoopInv
  BY DEF TInv
<1>2. StoresTyped
  <2>1. current \in {0} \cup Declared /\ todo \subseteq Declared
    BY <1>1, VBasesDeclared DEF LoopInv
  <2>2. ASSUME NEW c \in Declared, NEW k \in DOMAIN stores[c], NEW o \in Items(stores[c][k].cells)
        PROVE  <<o, stores[c][k].base>> \in Pointers(c)
    BY DEF TInv, StoresInv, StoreRight
  <2> QED BY <2>1, <2>2 DEF StoresTyped
<1>3. StoredOnce
  <2> SUFFICES ASSUME NEW c \in Declared, NEW u \in DOMAIN stores[c], NEW j \in DOMAIN stores[c],
                      NEW k \in DOMAIN stores[c][u].cells, NEW l \in DOMAIN stores[c][j].cells,
                      stores[c][u].cells[k] = stores[c][j].cells[l]
               PROVE  u = j /\ k = l
    BY DEF StoredOnce
  <2>1. PICK o : o = stores[c][u].cells[k]
    OBVIOUS
  <2>2. o \in Items(stores[c][u].cells) /\ o \in Items(stores[c][j].cells)
    BY <2>1 DEF Items
  <2>3. StoresInv(c)
    BY DEF TInv
  <2>4. <<o, stores[c][u].base>> \in Pointers(c) /\ <<o, stores[c][j].base>> \in Pointers(c)
    BY <2>2, <2>3 DEF StoresInv, StoreRight
  <2>5. u = j
    BY <1>1, <2>3, <2>4, PointersApart DEF StoresInv
  <2>6. Injective(stores[c][u].cells)
    BY <2>3 DEF StoresInv, StoreRight
  <2> QED BY <2>5, <2>6 DEF Injective
<1> QED BY <1>2, <1>3 DEF StoresRight

(***************************************************************************)
(* For hierarchies of any size: the stores at the start of a constructor   *)
(* (CABI_InitVBasePtrs) go to pointers of its object, each to the pointers *)
(* of its own virtual base, and to no pointer twice.                       *)
(***************************************************************************)
THEOREM StoresAreRight == VBaseSpec => []StoresRight
BY TInvHolds, TInvStores, PTL

-----------------------------------------------------------------------------
(***************************************************************************)
(* Loads.  A pointer of a translated object leads to its base; a path that *)
(* an entry extends does what the path does from the base on.              *)
(***************************************************************************)
\* A pointer gets what its store stores: the stores are to different pointers.
LEMMA StoredIs ==
    ASSUME TInv, NEW c \in Declared, NEW x
    PROVE  /\ Stored(c, x) \in Int
           /\ \A k \in DOMAIN stores[c] : x \in Items(stores[c][k].cells) => Stored(c, x) = stores[c][k].target
<1>1. HInv /\ StoresInv(c) /\ stores[c] \in Seq(Store)
  BY DeclaredIs DEF TInv, HInv
<1>2. PICK here : here = { k \in DOMAIN stores[c] : x \in Items(stores[c][k].cells) }
  OBVIOUS
<1>3. Stored(c, x) = IF here = {} THEN -1 ELSE stores[c][CHOOSE k \in here : \A j \in here : j <= k].target
  BY <1>2 DEF Stored
<1>4. ASSUME NEW k \in here PROVE Stored(c, x) = stores[c][k].target /\ Stored(c, x) \in Int
  <2>1. \A j \in here : j = k
    <3> TAKE j \in here
    <3>1. <<x, stores[c][j].base>> \in Pointers(c) /\ <<x, stores[c][k].base>> \in Pointers(c)
      BY <1>1, <1>2 DEF StoresInv, StoreRight
    <3> QED BY <1>1, <1>2, <3>1, PointersApart DEF StoresInv
  <2>2. k \in Nat /\ stores[c][k] \in Store
    BY <1>1, <1>2
  <2>3. here = {k}
    BY <2>1
  <2>4. k <= k
    BY <2>2
  <2>5. (CHOOSE u \in here : \A j \in here : j <= u) = k
    BY <2>3, <2>4
  <2> QED BY <1>3, <2>2, <2>3, <2>5 DEF Store
<1>5. Stored(c, x) \in Int
  <2>1. CASE here = {}
    BY <1>3, <2>1
  <2>2. CASE here # {}
    BY <1>4, <2>2
  <2> QED BY <2>1, <2>2
<1> QED BY <1>2, <1>4, <1>5

LEMMA PointerLeads ==
    ASSUME TInv, NEW c \in Translated, NEW x, NEW b, <<x, b>> \in Pointers(c)
    PROVE  Stored(c, x) = vbases[c][b] /\ b \in VBases(c)
<1>1. c \in Declared /\ { stores[c][u].base : u \in DOMAIN stores[c] } = VBases(c)
  BY DEF Translated
<1>2. b \in VBases(c)
  <2>1. PICK p \in Subobjects(c) : <<x, b>> \in { <<p[2] + e.offset, e.base>> : e \in { a \in Items(bases[p[1]]) : a.virtual } }
    BY DEF Pointers
  <2>2. PICK e \in Items(bases[p[1]]) : e.virtual /\ b = e.base
    BY <2>1
  <2>3. p \in PartPlaces(c)
    BY <1>1, SubobjectsAre DEF TInv
  <2> QED BY <1>1, <2>2, <2>3, BaseIs DEF TInv, Items
<1>3. PICK k \in DOMAIN stores[c] : stores[c][k].base = b
  BY <1>1, <1>2
<1>4. stores[c][k].target = vbases[c][b] /\ x \in Items(stores[c][k].cells)
  BY <1>1, <1>3 DEF TInv, StoresInv, StoreRight
<1> QED BY <1>1, <1>2, <1>4, StoredIs

Loads(f, c, from, path, n) ==
    /\ f \in [0..n -> Int] /\ f[0] = from
    /\ \A u \in 1..n : f[u] = IF f[u - 1] = -1 THEN -1 ELSE Stored(c, f[u - 1] + path[u])

LEMMA LoadIs ==
    ASSUME TInv, NEW c \in Declared, NEW from \in Int, NEW n \in Nat, NEW path \in Seq(Nat), Len(path) = n
    PROVE  \E f : Loads(f, c, from, path, n) /\ Load(c, from, path) = f[n]
<1> DEFINE next == [u \in 1..n |-> [t \in Int |-> IF t = -1 THEN -1 ELSE Stored(c, t + path[u])]]
<1>1. next \in [1..n -> [Int -> Int]]
  BY StoredIs
<1>2. PICK f \in [0..n -> Int] : Follows(f, from, next, n)
  <2> HIDE DEF next
  <2> QED BY <1>1, RecursiveSequence
<1>3. f[0] = from /\ \A u \in 1..n : f[u] = IF f[u - 1] = -1 THEN -1 ELSE Stored(c, f[u - 1] + path[u])
  <2>1. \A u \in 1..n : u - 1 \in 0..n
    OBVIOUS
  <2> QED BY <1>2, <2>1 DEF Follows
<1> DEFINE F(g) == [u \in 0..n |->
                       IF u = 0 THEN from ELSE IF g[u - 1] = -1 THEN -1 ELSE Stored(c, g[u - 1] + path[u])]
           here == CHOOSE g : g = F(g)
<1>4. f = F(f)
  <2>1. ASSUME NEW u \in 0..n PROVE f[u] = F(f)[u]
    <3>1. u # 0 => u \in 1..n
      OBVIOUS
    <3> QED BY <1>3, <3>1
  <2> QED BY <2>1
<1>5. here = F(here)
  <2> HIDE DEF F
  <2> QED BY <1>4
<1>6. Load(c, from, path) = here[n]
  BY DEF Load
<1> HIDE DEF here
<1>7. PICK g : g = here
  OBVIOUS
<1>8. g = f
  <2>1. g = [u \in 0..n |-> g[u]]
    BY <1>5, <1>7
  <2>2. g[0] = from
    <3>1. g[0] = F(g)[0]
      BY <1>5, <1>7
    <3> QED BY <3>1
  <2>3. ASSUME NEW u \in 1..n PROVE g[u] = IF g[u - 1] = -1 THEN -1 ELSE Stored(c, g[u - 1] + path[u])
    <3>1. g[u] = F(g)[u]
      BY <1>5, <1>7
    <3> QED BY <3>1
  <2> HIDE DEF F, next
  <2>4. g[0] = f[0] /\ \A u \in 1..n : g[u - 1] = f[u - 1] => g[u] = f[u]
    BY <1>3, <2>2, <2>3
  <2>5. Repeats(g, f, n)
    BY <2>1, <2>4 DEF Repeats
  <2>6. f = [u \in 0..n |-> f[u]]
    OBVIOUS
  <2> QED BY <2>5, <2>6, SameSequence
<1>9. Loads(f, c, from, path, n)
  BY <1>3 DEF Loads
<1> QED BY <1>6, <1>7, <1>8, <1>9

\* One load.
LEMMA LoadOnce ==
    ASSUME TInv, NEW c \in Declared, NEW from \in Nat, NEW x \in Nat
    PROVE  Load(c, from, <<x>>) = Stored(c, from + x)
<1>1. <<x>> \in Seq(Nat) /\ Len(<<x>>) = 1 /\ <<x>>[1] = x
  OBVIOUS
<1>2. PICK path \in Seq(Nat) : path = <<x>>
  BY <1>1
<1>3. Len(path) = 1 /\ path[1] = x /\ from \in Int /\ 1 \in Nat
  BY <1>1, <1>2
<1>4. PICK f : Loads(f, c, from, path, 1) /\ Load(c, from, path) = f[1]
  BY <1>3, LoadIs
<1>5. 1 \in 1..1 /\ 1 - 1 = 0 /\ from # -1
  OBVIOUS
<1>6. f[1] = Stored(c, from + x)
  BY <1>3, <1>4, <1>5 DEF Loads
<1> QED BY <1>2, <1>4, <1>6

\* Two runs of loads that begin at one place and take the same steps.
LEMMA SameLoads ==
    ASSUME NEW c, NEW n \in Nat, NEW m \in Nat, NEW k \in 0..1, NEW l \in 0..1, NEW f, NEW g,
           NEW from, NEW start, NEW path, NEW list, Loads(f, c, from, path, n), Loads(g, c, start, list, m),
           m - l = n - k, m >= l, f[k] = g[l], \A u \in 1..(m - l) : path[k + u] = list[l + u]
    PROVE  f[n] = g[m]
<1>1. PICK h \in Nat : h = m - l /\ n = k + h /\ m = l + h
  <2>1. m - l \in Nat
    OBVIOUS
  <2> QED BY <2>1
<1> DEFINE S == { u \in Nat : u <= h => f[k + u] = g[l + u] }
<1>2. 0 \in S
  OBVIOUS
<1>3. ASSUME NEW u \in Nat, u \in S PROVE u + 1 \in S
  <2>1. SUFFICES ASSUME u + 1 <= h PROVE f[k + (u + 1)] = g[l + (u + 1)]
    OBVIOUS
  <2>2. PICK a \in 1..n, b \in 1..m : a = k + (u + 1) /\ b = l + (u + 1) /\ a - 1 = k + u /\ b - 1 = l + u
    BY <1>1, <2>1
  <2>3. f[a - 1] = g[b - 1]
    BY <1>3, <2>1, <2>2
  <2>4. path[a] = list[b]
    <3>1. u + 1 \in 1..(m - l)
      BY <1>1, <2>1
    <3> QED BY <2>2, <3>1
  <2>5. /\ f[a] = (IF f[a - 1] = -1 THEN -1 ELSE Stored(c, f[a - 1] + path[a]))
        /\ g[b] = (IF g[b - 1] = -1 THEN -1 ELSE Stored(c, g[b - 1] + list[b]))
    BY DEF Loads
  <2> QED BY <2>2, <2>3, <2>4, <2>5
<1>4. \A u \in Nat : u \in S
  <2> HIDE DEF S
  <2> QED BY <1>2, <1>3, Induction
<1>5. h \in S
  BY <1>4
<1> QED BY <1>1, <1>5

LEMMA LoadVirtual ==
    ASSUME TInv, NEW c \in Declared, NEW from \in Nat, NEW x \in Nat, NEW list \in Seq(Nat)
    PROVE  Load(c, from, <<x>> \o list) = Load(c, Stored(c, from + x), list)
<1>1. PICK m \in Nat : m = Len(list)
  OBVIOUS
<1>2. PICK path \in Seq(Nat) : path = <<x>> \o list
  <2>1. <<x>> \in Seq(Nat)
    OBVIOUS
  <2>2. <<x>> \o list \in Seq(Nat)
    BY <2>1
  <2> QED BY <2>2
<1>3. Len(path) = m + 1 /\ path[1] = x /\ \A u \in 1..m : path[1 + u] = list[u]
  BY <1>1, <1>2
<1>4. PICK f : Loads(f, c, from, path, m + 1) /\ Load(c, from, path) = f[m + 1]
  BY <1>3, LoadIs
<1>t. PICK t \in Int : t = Stored(c, from + x)
  BY StoredIs
<1>5. PICK g : Loads(g, c, t, list, m) /\ Load(c, t, list) = g[m]
  BY <1>1, LoadIs
<1>6. f[1] = t
  <2>1. 1 \in 1..(m + 1) /\ 1 - 1 = 0 /\ from # -1
    OBVIOUS
  <2> QED BY <1>3, <1>4, <1>t, <2>1 DEF Loads
<1>7. f[1] = g[0]
  BY <1>5, <1>6 DEF Loads
<1>8. /\ m - 0 = (m + 1) - 1 /\ m >= 0 /\ 1 \in 0..1 /\ 0 \in 0..1
      /\ \A u \in 1..(m - 0) : path[1 + u] = list[0 + u]
  BY <1>3
<1>9. f[m + 1] = g[m]
  BY <1>4, <1>5, <1>7, <1>8, SameLoads
<1> QED BY <1>2, <1>4, <1>5, <1>9, <1>t

LEMMA LoadFlat ==
    ASSUME TInv, NEW c \in Declared, NEW from \in Nat, NEW x \in Nat, NEW list \in Seq(Nat), list # <<>>
    PROVE  Load(c, from, [list EXCEPT ![1] = list[1] + x]) = Load(c, from + x, list)
<1>1. PICK m \in Nat : m = Len(list) /\ m >= 1 /\ 1 \in 1..m /\ DOMAIN list = 1..m
  OBVIOUS
<1>2. PICK path \in Seq(Nat) : path = [list EXCEPT ![1] = list[1] + x]
  <2>1. list[1] + x \in Nat
    BY <1>1
  <2>2. [list EXCEPT ![1] = list[1] + x] \in Seq(Nat)
    BY <1>1, <2>1
  <2> QED BY <2>2
<1>3. Len(path) = m /\ path[1] = list[1] + x /\ \A u \in 1..m : u # 1 => path[u] = list[u]
  BY <1>1, <1>2
<1>4. PICK f : Loads(f, c, from, path, m) /\ Load(c, from, path) = f[m]
  BY <1>3, LoadIs
<1>5. PICK g : Loads(g, c, from + x, list, m) /\ Load(c, from + x, list) = g[m]
  BY <1>1, LoadIs
<1>6. f[1] = g[1]
  <2>1. 1 - 1 = 0 /\ from # -1 /\ from + x # -1 /\ list[1] \in Nat
    BY <1>1
  <2>2. f[1] = Stored(c, from + path[1])
    BY <1>1, <1>4, <2>1 DEF Loads
  <2>3. g[1] = Stored(c, (from + x) + list[1])
    BY <1>1, <1>5, <2>1 DEF Loads
  <2>4. from + path[1] = (from + x) + list[1]
    BY <1>3, <2>1
  <2> QED BY <2>2, <2>3, <2>4
<1>7. /\ m - 1 = m - 1 /\ m >= 1 /\ 1 \in 0..1
      /\ \A u \in 1..(m - 1) : path[1 + u] = list[1 + u]
  BY <1>1, <1>3
<1>8. f[m] = g[m]
  BY <1>4, <1>5, <1>6, <1>7, SameLoads
<1> QED BY <1>2, <1>4, <1>5, <1>8

-----------------------------------------------------------------------------
(***************************************************************************)
(* Paths.  The path of a class is the pointer to its virtual base, or one  *)
(* of its bases' paths extended, a shortest and of those the first.        *)
(***************************************************************************)
DirectTo(d, v) == { u \in DOMAIN bases[d] : bases[d][u].base = v /\ bases[d][u].virtual }
FoundIn(d, f) == { u \in DOMAIN bases[d] : f[bases[d][u].base] # <<>> }
LoadsBy(d, f, u) == PathLength(f[bases[d][u].base], bases[d][u].virtual)
IsBest(d, f, u) ==
    \A j \in FoundIn(d, f) :
        LoadsBy(d, f, u) < LoadsBy(d, f, j) \/ (LoadsBy(d, f, u) = LoadsBy(d, f, j) /\ u <= j)
Best(d, f) == CHOOSE u \in FoundIn(d, f) : IsBest(d, f, u)

PathBody(v, f, d) ==
    IF DirectTo(d, v) # {} THEN <<bases[d][CHOOSE u \in DirectTo(d, v) : TRUE].offset>>
    ELSE IF FoundIn(d, f) = {} THEN <<>>
    ELSE Extend(bases[d][Best(d, f)], f[bases[d][Best(d, f)].base])

PathFn(v) == CHOOSE f : f = [d \in Declared |-> PathBody(v, f, d)]

LEMMA PathFnIs ==
    ASSUME NEW c, NEW v
    PROVE  GetVBasePath(c, v) = PathFn(v)[c]
BY DEF GetVBasePath, PathFn, PathBody, DirectTo, FoundIn, LoadsBy, IsBest, Best

LEMMA ExtendIs ==
    ASSUME NEW e \in Entry, NEW list \in Seq(Nat), list # <<>>
    PROVE  /\ Extend(e, list) \in Seq(Nat) /\ Extend(e, list) # <<>>
           /\ Len(Extend(e, list)) = PathLength(list, e.virtual)
<1>1. e.offset \in Nat /\ e.virtual \in BOOLEAN
  BY DEF Entry
<1>2. PICK o \in Nat : o = e.offset
  BY <1>1
<1>3. CASE e.virtual
  <2>1. PICK x \in Seq(Nat) : x = <<o>> \o list
    <3>1. <<o>> \in Seq(Nat)
      OBVIOUS
    <3>2. <<o>> \o list \in Seq(Nat)
      BY <3>1
    <3> QED BY <3>2
  <2>2. Len(x) = Len(list) + 1 /\ x # <<>>
    BY <2>1
  <2>3. Extend(e, list) = x /\ PathLength(list, e.virtual) = Len(list) + 1
    BY <1>2, <1>3, <2>1 DEF Extend, PathLength
  <2> QED BY <2>2, <2>3
<1>4. CASE ~e.virtual
  <2>1. 1 \in DOMAIN list /\ list[1] \in Nat
    OBVIOUS
  <2>2. list[1] + o \in Nat
    BY <2>1
  <2>3. [list EXCEPT ![1] = list[1] + o] \in Seq(Nat)
    BY <2>1, <2>2
  <2>4. PICK x \in Seq(Nat) : x = [list EXCEPT ![1] = list[1] + o]
    BY <2>3
  <2>5. Len(x) = Len(list) /\ x # <<>>
    BY <2>4
  <2>6. Extend(e, list) = x
    BY <1>2, <1>4, <2>4 DEF Extend
  <2>7. PathLength(list, e.virtual) = Len(list)
    BY <1>4 DEF PathLength
  <2> QED BY <2>5, <2>6, <2>7
<1> QED BY <1>1, <1>3, <1>4

Paths == [Declared -> Seq(Nat)]

LEMMA LoadsByIs ==
    ASSUME HInv, NEW d \in Declared, NEW f \in Paths, NEW u \in DOMAIN bases[d]
    PROVE  /\ LoadsBy(d, f, u) \in Nat /\ u \in Nat /\ bases[d][u] \in Entry
           /\ bases[d][u].base \in Declared /\ bases[d][u].base < d /\ f[bases[d][u].base] \in Seq(Nat)
<1>1. bases[d][u] \in Items(bases[d])
  BY DEF Items
<1>2. PICK e : e = bases[d][u]
  OBVIOUS
<1>3. e \in Entry /\ e.base \in Declared /\ e.base < d
  BY <1>1, <1>2, EntryIs
<1>4. PICK list \in Seq(Nat) : list = f[e.base]
  BY <1>3 DEF Paths
<1>5. PathLength(list, e.virtual) \in Nat
  BY DEF PathLength
<1>6. bases[d] \in Seq(Entry)
  BY DeclaredIs DEF HInv
<1>7. u \in Nat
  BY <1>6
<1>8. LoadsBy(d, f, u) = PathLength(list, e.virtual)
  BY <1>2, <1>4 DEF LoadsBy
<1> QED BY <1>2, <1>3, <1>4, <1>5, <1>7, <1>8

LEMMA BestExists ==
    ASSUME HInv, NEW d \in Declared, NEW f \in Paths, FoundIn(d, f) # {}
    PROVE  /\ Best(d, f) \in FoundIn(d, f) /\ IsBest(d, f, Best(d, f))
           /\ \A u \in FoundIn(d, f) : IsBest(d, f, u) => u = Best(d, f)
<1> DEFINE found == FoundIn(d, f)
           T == { LoadsBy(d, f, u) : u \in found }
<1>1. \A u \in found : LoadsBy(d, f, u) \in Nat /\ u \in Nat
  BY LoadsByIs DEF FoundIn
<1>2. PICK t \in T : \A x \in T : t <= x
  <2>1. T \in SUBSET Nat /\ T # {}
    BY <1>1
  <2> HIDE DEF T
  <2> QED BY <2>1, LeastNumber
<1> DEFINE S == { u \in found : LoadsBy(d, f, u) = t }
<1>3. PICK b \in S : \A u \in S : b <= u
  <2>1. S \in SUBSET Nat /\ S # {}
    BY <1>1
  <2> HIDE DEF S
  <2> QED BY <2>1, LeastNumber
<1>4. IsBest(d, f, b)
  <2> SUFFICES ASSUME NEW j \in found
               PROVE  LoadsBy(d, f, b) < LoadsBy(d, f, j) \/ (LoadsBy(d, f, b) = LoadsBy(d, f, j) /\ b <= j)
    BY DEF IsBest
  <2>1. t <= LoadsBy(d, f, j) /\ LoadsBy(d, f, b) = t /\ t \in Nat /\ LoadsBy(d, f, j) \in Nat
    BY <1>1, <1>2
  <2>2. LoadsBy(d, f, j) = t => b <= j
    BY <1>3
  <2> QED BY <2>1, <2>2
<1>5. Best(d, f) \in found /\ IsBest(d, f, Best(d, f))
  <2>1. b \in found
    OBVIOUS
  <2> QED BY <1>4, <2>1 DEF Best
<1>6. PICK k : k = Best(d, f)
  OBVIOUS
<1>7. ASSUME NEW u \in found, IsBest(d, f, u) PROVE u = k
  <2>1. \/ LoadsBy(d, f, u) < LoadsBy(d, f, k)
        \/ LoadsBy(d, f, u) = LoadsBy(d, f, k) /\ u <= k
    BY <1>5, <1>6, <1>7 DEF IsBest
  <2>2. \/ LoadsBy(d, f, k) < LoadsBy(d, f, u)
        \/ LoadsBy(d, f, k) = LoadsBy(d, f, u) /\ k <= u
    BY <1>5, <1>6 DEF IsBest
  <2>3. LoadsBy(d, f, u) \in Nat /\ LoadsBy(d, f, k) \in Nat /\ u \in Nat /\ k \in Nat
    BY <1>1, <1>5, <1>6
  <2> QED BY <2>1, <2>2, <2>3
<1> QED BY <1>5, <1>6, <1>7

\* What is chosen for d depends on the paths of its bases.
LEMMA BodyLooksBelow ==
    ASSUME HInv, NEW v, NEW d \in Declared, NEW g, NEW h \in Paths,
           \A e \in Declared : e < d => g[e] = h[e]
    PROVE  PathBody(v, g, d) = PathBody(v, h, d)
<1>1. \A u \in DOMAIN bases[d] : g[bases[d][u].base] = h[bases[d][u].base]
  BY LoadsByIs
<1>2. FoundIn(d, g) = FoundIn(d, h)
  BY <1>1 DEF FoundIn
<1>3. CASE FoundIn(d, g) = {}
  BY <1>2, <1>3 DEF PathBody
<1>4. CASE FoundIn(d, g) # {}
  <2>1. PICK b : b = Best(d, h)
    OBVIOUS
  <2>2. b \in FoundIn(d, g) /\ IsBest(d, h, b)
    BY <1>2, <1>4, <2>1, BestExists
  <2>3. \A j \in FoundIn(d, g) : LoadsBy(d, g, j) = LoadsBy(d, h, j)
    BY <1>1 DEF LoadsBy, FoundIn
  <2>4. \A j \in FoundIn(d, g) : IsBest(d, g, j) <=> IsBest(d, h, j)
    BY <1>2, <2>3 DEF IsBest
  <2>5. b = Best(d, g)
    <3>1. PICK a : a = Best(d, g)
      OBVIOUS
    <3>2. a \in FoundIn(d, g) /\ IsBest(d, g, a)
      BY <2>2, <2>4, <3>1 DEF Best
    <3>3. a = b
      BY <1>2, <1>4, <2>1, <2>4, <3>2, BestExists
    <3> QED BY <3>1, <3>3
  <2>6. g[bases[d][b].base] = h[bases[d][b].base]
    BY <1>1, <2>2 DEF FoundIn
  <2> QED BY <1>2, <2>1, <2>5, <2>6 DEF PathBody
<1> QED BY <1>3, <1>4

LEMMA BodyTyped ==
    ASSUME HInv, NEW v, NEW d \in Declared, NEW f \in Paths
    PROVE  PathBody(v, f, d) \in Seq(Nat)
<1>1. CASE DirectTo(d, v) # {}
  <2>1. PICK u : u = CHOOSE j \in DirectTo(d, v) : TRUE
    OBVIOUS
  <2>2. u \in DirectTo(d, v)
    BY <1>1, <2>1
  <2>3. bases[d][u] \in Entry
    BY <2>2, LoadsByIs DEF DirectTo
  <2>4. PICK o \in Nat : o = bases[d][u].offset
    BY <2>3 DEF Entry
  <2>5. <<o>> \in Seq(Nat)
    OBVIOUS
  <2> QED BY <1>1, <2>1, <2>4, <2>5 DEF PathBody
<1>2. CASE DirectTo(d, v) = {} /\ FoundIn(d, f) = {}
  BY <1>2 DEF PathBody
<1>3. CASE DirectTo(d, v) = {} /\ FoundIn(d, f) # {}
  <2>1. PICK b : b = Best(d, f)
    OBVIOUS
  <2>2. b \in FoundIn(d, f)
    BY <1>3, <2>1, BestExists
  <2>3. bases[d][b] \in Entry /\ f[bases[d][b].base] \in Seq(Nat) /\ f[bases[d][b].base] # <<>>
    BY <2>2, LoadsByIs DEF FoundIn
  <2>4. Extend(bases[d][b], f[bases[d][b].base]) \in Seq(Nat)
    BY <2>3, ExtendIs
  <2> QED BY <1>3, <2>1, <2>4 DEF PathBody
<1> QED BY <1>1, <1>2, <1>3

LEMMA PathsExist ==
    ASSUME HInv, NEW v
    PROVE  PathFn(v) \in Paths /\ \A d \in Declared : PathFn(v)[d] = PathBody(v, PathFn(v), d)
<1>1. PICK m \in Nat : m = Len(bases) /\ Declared = 1..m
  BY DeclaredIs DEF HInv
<1> DEFINE D == Declared
           V == Seq(Nat)
           step == [d \in D |-> [f \in [D -> V] |-> PathBody(v, f, d)]]
<1>2. step \in [D -> [[D -> V] -> V]]
  BY BodyTyped DEF Paths
<1>3. LooksBelow(step, D, V)
  <2>1. ASSUME NEW d \in D, NEW g \in [D -> V], NEW h \in [D -> V], \A e \in D : e < d => g[e] = h[e]
        PROVE  step[d][g] = step[d][h]
    <3>1. PathBody(v, g, d) = PathBody(v, h, d)
      BY <2>1, BodyLooksBelow DEF Paths
    <3> QED BY <3>1
  <2> HIDE DEF step, V, D
  <2> QED BY <2>1 DEF LooksBelow
<1>4. HasSolution(step, D, V)
  <2>1. D \in SUBSET (0..m) /\ <<>> \in V
    BY <1>1
  <2> HIDE DEF step, V, D
  <2> QED BY <1>2, <1>3, <2>1, RecursiveFunction
<1>5. PICK f \in [D -> V] : \A d \in D : f[d] = step[d][f]
  BY <1>4 DEF HasSolution
<1>6. f = [d \in Declared |-> PathBody(v, f, d)]
  BY <1>5
<1>7. PathFn(v) = [d \in Declared |-> PathBody(v, PathFn(v), d)]
  BY <1>6 DEF PathFn
<1>8. PICK g : g = PathFn(v)
  OBVIOUS
<1>9. \A d \in Declared : g[d] = f[d]
  <2> DEFINE T == { k \in 0..m : k \in Declared => g[k] = f[k] }
  <2>1. ASSUME NEW k \in 0..m, \A j \in 0..m : j < k => j \in T PROVE k \in T
    <3> SUFFICES ASSUME k \in Declared PROVE g[k] = f[k]
      OBVIOUS
    <3>1. \A e \in Declared : e < k => g[e] = f[e]
      BY <1>1, <2>1
    <3>2. PathBody(v, g, k) = PathBody(v, f, k)
      BY <3>1, BodyLooksBelow DEF Paths
    <3>3. g[k] = PathBody(v, g, k)
      BY <1>7, <1>8
    <3> QED BY <1>6, <3>2, <3>3
  <2>2. Progressive(T, m)
    <3> HIDE DEF T
    <3> QED BY <2>1 DEF Progressive
  <2>3. \A k \in 0..m : k \in T
    <3> HIDE DEF T
    <3> QED BY <2>2, StrongInduction
  <2> QED BY <1>1, <2>3
<1>10. g = f
  <2>1. g = [d \in Declared |-> g[d]]
    BY <1>7, <1>8
  <2> QED BY <1>9, <2>1
<1> QED BY <1>6, <1>8, <1>10 DEF Paths

(***************************************************************************)
(* The three cases of a path.                                              *)
(***************************************************************************)
Names(d, v) == \E e \in Items(bases[d]) : e.virtual /\ e.base = v

Goes(v, e) == PathFn(v)[e.base] # <<>>
Cost(v, e) == PathLength(PathFn(v)[e.base], e.virtual)

LEMMA PathCases ==
    ASSUME HInv, NEW v, NEW d \in Declared
    PROVE  /\ PathFn(v)[d] \in Seq(Nat)
           /\ Names(d, v) => \E e \in Items(bases[d]) : e.virtual /\ e.base = v /\ PathFn(v)[d] = <<e.offset>>
           /\ ~Names(d, v) /\ (\A e \in Items(bases[d]) : ~Goes(v, e)) => PathFn(v)[d] = <<>>
           /\ ~Names(d, v) /\ (\E e \in Items(bases[d]) : Goes(v, e)) =>
                  \E e \in Items(bases[d]) :
                      /\ Goes(v, e) /\ PathFn(v)[d] = Extend(e, PathFn(v)[e.base])
                      /\ \A a \in Items(bases[d]) : Goes(v, a) => Cost(v, e) <= Cost(v, a)
<1>1. PICK f \in Paths : f = PathFn(v) /\ \A k \in Declared : f[k] = PathBody(v, f, k)
  BY PathsExist
<1>2. f[d] \in Seq(Nat) /\ f[d] = PathBody(v, f, d)
  BY <1>1 DEF Paths
<1>3. ASSUME Names(d, v)
      PROVE  \E e \in Items(bases[d]) : e.virtual /\ e.base = v /\ f[d] = <<e.offset>>
  <2>1. DirectTo(d, v) # {}
    BY <1>3 DEF Names, DirectTo, Items
  <2>2. PICK u : u = CHOOSE j \in DirectTo(d, v) : TRUE
    OBVIOUS
  <2>3. u \in DirectTo(d, v)
    BY <2>1, <2>2
  <2>4. f[d] = <<bases[d][u].offset>>
    BY <1>2, <2>1, <2>2 DEF PathBody
  <2> QED BY <2>3, <2>4 DEF DirectTo, Items
<1>4. ~Names(d, v) => DirectTo(d, v) = {}
  BY DEF Names, DirectTo, Items
<1>5. ASSUME ~Names(d, v), \A e \in Items(bases[d]) : ~Goes(v, e) PROVE f[d] = <<>>
  <2>1. FoundIn(d, f) = {}
    BY <1>1, <1>5 DEF FoundIn, Items, Goes
  <2> QED BY <1>2, <1>4, <1>5, <2>1 DEF PathBody
<1>6. ASSUME ~Names(d, v), NEW x \in Items(bases[d]), Goes(v, x)
      PROVE  \E e \in Items(bases[d]) :
                 /\ Goes(v, e) /\ f[d] = Extend(e, f[e.base])
                 /\ \A a \in Items(bases[d]) : Goes(v, a) => Cost(v, e) <= Cost(v, a)
  <2>1. FoundIn(d, f) # {}
    BY <1>1, <1>6 DEF FoundIn, Items, Goes
  <2>2. PICK b : b = Best(d, f)
    OBVIOUS
  <2>3. b \in FoundIn(d, f) /\ IsBest(d, f, b)
    BY <2>1, <2>2, BestExists
  <2>4. PICK e : e = bases[d][b]
    OBVIOUS
  <2>5. e \in Items(bases[d]) /\ Goes(v, e)
    BY <1>1, <2>3, <2>4 DEF FoundIn, Items, Goes
  <2>6. f[d] = Extend(e, f[e.base])
    BY <1>2, <1>4, <1>6, <2>1, <2>2, <2>4 DEF PathBody
  <2>7. ASSUME NEW a \in Items(bases[d]), Goes(v, a) PROVE Cost(v, e) <= Cost(v, a)
    <3>1. PICK u \in DOMAIN bases[d] : a = bases[d][u]
      BY DEF Items
    <3>2. u \in FoundIn(d, f)
      BY <1>1, <2>7, <3>1 DEF FoundIn, Goes
    <3>3. LoadsBy(d, f, b) \in Nat /\ LoadsBy(d, f, u) \in Nat
      BY <2>3, LoadsByIs DEF FoundIn
    <3>4. LoadsBy(d, f, b) <= LoadsBy(d, f, u)
      BY <2>3, <3>2, <3>3 DEF IsBest
    <3> QED BY <1>1, <2>4, <3>1, <3>4 DEF LoadsBy, Cost
  <2> QED BY <2>5, <2>6, <2>7
<1> QED BY <1>1, <1>2, <1>3, <1>5, <1>6

(***************************************************************************)
(* There is a path to every virtual base, and it leads there.              *)
(***************************************************************************)
LEMMA PathToVBase ==
    ASSUME HInv, NEW v
    PROVE  \A d \in Declared : v \in VBases(d) => PathFn(v)[d] # <<>>
<1>1. PICK m \in Nat : m = Len(bases) /\ Declared = 1..m
  BY DeclaredIs DEF HInv
<1> DEFINE T == { k \in 0..m : k \in Declared /\ v \in VBases(k) => PathFn(v)[k] # <<>> }
<1>2. ASSUME NEW k \in 0..m, \A j \in 0..m : j < k => j \in T PROVE k \in T
  <2> SUFFICES ASSUME k \in Declared, v \in VBases(k) PROVE PathFn(v)[k] # <<>>
    OBVIOUS
  <2>1. CASE Names(k, v)
    <3>1. PICK e : PathFn(v)[k] = <<e.offset>>
      BY <2>1, PathCases
    <3> QED BY <3>1
  <2>2. CASE ~Names(k, v)
    <3>1. v \in AllVBases(bases[k])
      BY DEF HInv, VBasesRight
    <3>2. PICK e \in Items(bases[k]) : v \in VBases(e.base)
      BY <2>2, <3>1 DEF AllVBases, Names
    <3>3. e.base \in Declared /\ e.base \in 0..m /\ e.base < k
      BY <1>1, EntryIs
    <3>4. Goes(v, e)
      BY <1>2, <3>2, <3>3 DEF Goes
    <3>5. PICK b \in Items(bases[k]) : Goes(v, b) /\ PathFn(v)[k] = Extend(b, PathFn(v)[b.base])
      BY <2>2, <3>4, PathCases
    <3>6. b \in Entry /\ b.base \in Declared
      BY EntryIs
    <3>7. PathFn(v)[b.base] \in Seq(Nat) /\ PathFn(v)[b.base] # <<>>
      BY <3>5, <3>6, PathCases DEF Goes
    <3> QED BY <3>5, <3>6, <3>7, ExtendIs
  <2> QED BY <2>1, <2>2
<1>3. \A k \in 0..m : k \in T
  <2>1. Progressive(T, m)
    <3> HIDE DEF T
    <3> QED BY <1>2 DEF Progressive
  <2> HIDE DEF T
  <2> QED BY <2>1, StrongInduction
<1> QED BY <1>1, <1>3

LeadsTo(c, v, p) == PathFn(v)[p[1]] # <<>> => Load(c, p[2], PathFn(v)[p[1]]) = vbases[c][v]

\* One part: by its own pointer, or from one of its bases on.
LEMMA PartLeads ==
    ASSUME TInv, NEW c \in Translated, NEW v, NEW p \in Subobjects(c),
           \A q \in Subobjects(c) : q[1] < p[1] => LeadsTo(c, v, q)
    PROVE  LeadsTo(c, v, p)
<1>1. HInv /\ c \in Declared
  BY DEF TInv, Translated
<1>2. p \in PartPlaces(c)
  BY <1>1, SubobjectsAre
<1>3. PICK d \in Declared, o \in Nat : p = <<d, o>> /\ p[1] = d /\ p[2] = o
  BY <1>2 DEF PartPlaces, PartClasses
<1>4. ASSUME NEW e \in Items(bases[d])
      PROVE  /\ e \in Entry /\ e.base \in Declared /\ e.base < d /\ e.offset \in Nat
             /\ Base(c, p, e) \in Subobjects(c)
             /\ e.virtual => Stored(c, o + e.offset) = vbases[c][e.base]
  <2>1. e \in Entry /\ e.base \in Declared /\ e.base < d /\ e.offset \in Nat
    BY <1>1, EntryIs
  <2>2. Base(c, p, e) \in Subobjects(c)
    BY <1>1, <1>3, SubobjectsAre DEF Closed
  <2>3. ASSUME e.virtual PROVE Stored(c, o + e.offset) = vbases[c][e.base]
    <3>1. <<p[2] + e.offset, e.base>> \in Pointers(c)
      BY <1>3, <2>3 DEF Pointers
    <3>2. PICK x : x = p[2] + e.offset
      OBVIOUS
    <3>3. PICK b : b = e.base
      OBVIOUS
    <3>4. Stored(c, x) = vbases[c][b]
      BY <3>1, <3>2, <3>3, PointerLeads
    <3> QED BY <1>3, <3>2, <3>3, <3>4
  <2> QED BY <2>1, <2>2, <2>3
<1>5. SUFFICES ASSUME PathFn(v)[d] # <<>> PROVE Load(c, o, PathFn(v)[d]) = vbases[c][v]
  BY <1>3 DEF LeadsTo
<1>6. CASE Names(d, v)
  <2>1. PICK e \in Items(bases[d]) : e.virtual /\ e.base = v /\ PathFn(v)[d] = <<e.offset>>
    BY <1>1, <1>6, PathCases
  <2>2. PICK x \in Nat : x = e.offset
    BY <1>4
  <2>3. Load(c, o, <<x>>) = Stored(c, o + x)
    BY <1>1, LoadOnce
  <2> QED BY <1>4, <2>1, <2>2, <2>3
<1>7. CASE ~Names(d, v)
  <2>1. PICK e \in Items(bases[d]) : Goes(v, e) /\ PathFn(v)[d] = Extend(e, PathFn(v)[e.base])
    BY <1>1, <1>5, <1>7, PathCases
  <2>2. PICK x \in Nat : x = e.offset
    BY <1>4
  <2>3. PICK list \in Seq(Nat) : list = PathFn(v)[e.base] /\ list # <<>>
    BY <1>1, <1>4, <2>1, PathCases DEF Goes
  <2>4. PICK q \in Subobjects(c) : q = Base(c, p, e)
    BY <1>4
  <2>5. q = <<e.base, BaseOffset(c, e, o)>> /\ q[1] = e.base /\ q[2] = BaseOffset(c, e, o)
    BY <1>3, <2>4 DEF Base
  <2>6. q[1] < p[1]
    BY <1>3, <1>4, <2>5
  <2>7. Load(c, q[2], list) = vbases[c][v]
    BY <2>3, <2>5, <2>6 DEF LeadsTo
  <2>8. CASE e.virtual
    <3>1. q[2] = Stored(c, o + x)
      BY <1>4, <2>2, <2>5, <2>8 DEF BaseOffset
    <3>2. Load(c, o, <<x>> \o list) = Load(c, Stored(c, o + x), list)
      BY <1>1, LoadVirtual
    <3>3. PathFn(v)[d] = <<x>> \o list
      BY <2>1, <2>2, <2>3, <2>8 DEF Extend
    <3> QED BY <2>7, <3>1, <3>2, <3>3
  <2>9. CASE ~e.virtual
    <3>1. q[2] = o + x
      BY <2>2, <2>5, <2>9 DEF BaseOffset
    <3>2. Load(c, o, [list EXCEPT ![1] = list[1] + x]) = Load(c, o + x, list)
      BY <1>1, <2>3, LoadFlat
    <3>3. PathFn(v)[d] = [list EXCEPT ![1] = list[1] + x]
      BY <2>1, <2>2, <2>3, <2>9 DEF Extend
    <3> QED BY <2>7, <3>1, <3>2, <3>3
  <2> QED BY <2>8, <2>9
<1> QED BY <1>6, <1>7

LEMMA PathsLead ==
    ASSUME TInv, NEW c \in Translated, NEW v
    PROVE  \A p \in Subobjects(c) : LeadsTo(c, v, p)
<1>1. HInv /\ c \in Declared
  BY DEF TInv, Translated
<1>2. PICK m \in Nat : m = Len(bases) /\ Declared = 1..m
  BY <1>1, DeclaredIs DEF HInv
<1>3. \A p \in Subobjects(c) : p[1] \in 0..m
  <2> TAKE p \in Subobjects(c)
  <2>1. p \in PartPlaces(c)
    BY <1>1, SubobjectsAre
  <2>2. p[1] \in Declared
    BY <2>1 DEF PartPlaces, PartClasses
  <2> QED BY <1>2, <2>2
<1> DEFINE T == { k \in 0..m : \A p \in Subobjects(c) : p[1] = k => LeadsTo(c, v, p) }
<1>4. ASSUME NEW k \in 0..m, \A j \in 0..m : j < k => j \in T PROVE k \in T
  <2> SUFFICES ASSUME NEW p \in Subobjects(c), p[1] = k PROVE LeadsTo(c, v, p)
    OBVIOUS
  <2>1. \A q \in Subobjects(c) : q[1] < p[1] => LeadsTo(c, v, q)
    BY <1>3, <1>4
  <2> QED BY <2>1, PartLeads
<1>5. \A k \in 0..m : k \in T
  <2>1. Progressive(T, m)
    <3> HIDE DEF T
    <3> QED BY <1>4 DEF Progressive
  <2> HIDE DEF T
  <2> QED BY <2>1, StrongInduction
<1> QED BY <1>3, <1>5

LEMMA PathsReach == TInv => PathsReachBases
<1> SUFFICES ASSUME TInv, NEW c \in Translated, NEW p \in Subobjects(c), NEW v \in VBases(p[1])
             PROVE  /\ GetVBasePath(p[1], v) # <<>>
                    /\ Load(c, p[2], GetVBasePath(p[1], v)) = vbases[c][v]
  BY DEF PathsReachBases
<1>1. HInv /\ c \in Declared
  BY DEF TInv, Translated
<1>2. p[1] \in Declared
  BY <1>1, SubobjectsAre DEF PartPlaces, PartClasses
<1>3. PathFn(v)[p[1]] # <<>>
  BY <1>1, <1>2, PathToVBase
<1> QED BY <1>3, PathsLead, PathFnIs DEF LeadsTo

-----------------------------------------------------------------------------
(***************************************************************************)
(* No way takes fewer loads.                                               *)
(***************************************************************************)
LoadsOf(e) == IF e.virtual THEN 1 ELSE 0
WaysBy(v, f, e) == { n + LoadsOf(e) : n \in f[e.base] \cup (IF e.base = v /\ e.virtual THEN {0} ELSE {}) }
CountsBody(v, f, d) == UNION { WaysBy(v, f, e) : e \in Items(bases[d]) }
CountsFn(v) == CHOOSE f : f = [d \in Declared |-> CountsBody(v, f, d)]

LEMMA CountsFnIs ==
    ASSUME NEW c, NEW v
    PROVE  LoadCounts(c, v) = CountsFn(v)[c]
BY DEF LoadCounts, CountsFn, CountsBody, WaysBy, LoadsOf

LEMMA CountsExist ==
    ASSUME HInv, NEW v
    PROVE  \A d \in Declared : CountsFn(v)[d] = CountsBody(v, CountsFn(v), d)
<1>1. PICK m \in Nat : m = Len(bases) /\ Declared = 1..m
  BY DeclaredIs DEF HInv
<1> DEFINE D == Declared
           V == SUBSET Nat
           step == [d \in D |-> [f \in [D -> V] |-> CountsBody(v, f, d)]]
<1>2. step \in [D -> [[D -> V] -> V]]
  <2>1. ASSUME NEW d \in D, NEW f \in [D -> V] PROVE CountsBody(v, f, d) \in V
    <3>1. ASSUME NEW e \in Items(bases[d]) PROVE WaysBy(v, f, e) \in V
      <4>1. f[e.base] \in SUBSET Nat /\ LoadsOf(e) \in Nat
        BY EntryIs DEF LoadsOf
      <4> QED BY <4>1 DEF WaysBy
    <3> QED BY <3>1 DEF CountsBody
  <2> HIDE DEF D, V
  <2> QED BY <2>1
<1>3. LooksBelow(step, D, V)
  <2>1. ASSUME NEW d \in D, NEW g \in [D -> V], NEW h \in [D -> V], \A e \in D : e < d => g[e] = h[e]
        PROVE  step[d][g] = step[d][h]
    <3>1. \A e \in Items(bases[d]) : g[e.base] = h[e.base]
      BY <2>1, EntryIs
    <3>2. \A e \in Items(bases[d]) : WaysBy(v, g, e) = WaysBy(v, h, e)
      BY <3>1 DEF WaysBy
    <3>3. CountsBody(v, g, d) = CountsBody(v, h, d)
      BY <3>2 DEF CountsBody
    <3> QED BY <3>3
  <2> HIDE DEF step, V, D
  <2> QED BY <2>1 DEF LooksBelow
<1>4. HasSolution(step, D, V)
  <2>1. D \in SUBSET (0..m) /\ {} \in V
    BY <1>1
  <2> HIDE DEF step, V, D
  <2> QED BY <1>2, <1>3, <2>1, RecursiveFunction
<1>5. PICK f \in [D -> V] : \A d \in D : f[d] = step[d][f]
  BY <1>4 DEF HasSolution
<1>6. f = [d \in Declared |-> CountsBody(v, f, d)]
  BY <1>5
<1>7. CountsFn(v) = [d \in Declared |-> CountsBody(v, CountsFn(v), d)]
  BY <1>6 DEF CountsFn
<1> QED BY <1>7

Shortest(v, d) ==
    /\ \A n \in CountsFn(v)[d] : n \in Nat /\ n >= 1 /\ Len(PathFn(v)[d]) <= n
    /\ PathFn(v)[d] = <<>> <=> CountsFn(v)[d] = {}

LEMMA ClassShortest ==
    ASSUME HInv, NEW v, NEW d \in Declared, \A e \in Declared : e < d => Shortest(v, e)
    PROVE  Shortest(v, d)
<1>1. ASSUME NEW e \in Items(bases[d])
      PROVE  /\ e \in Entry /\ e.base \in Declared /\ Shortest(v, e.base)
             /\ LoadsOf(e) \in Nat /\ (e.virtual => LoadsOf(e) = 1)
             /\ PathFn(v)[e.base] \in Seq(Nat)
             /\ Cost(v, e) = Len(PathFn(v)[e.base]) + LoadsOf(e)
  <2>1. e \in Entry /\ e.base \in Declared /\ e.base < d
    BY EntryIs
  <2>2. PathFn(v)[e.base] \in Seq(Nat)
    BY <2>1, PathCases
  <2>3. Shortest(v, e.base)
    BY <2>1
  <2> QED BY <2>1, <2>2, <2>3 DEF Cost, PathLength, LoadsOf
<1>2. CountsFn(v)[d] = UNION { WaysBy(v, CountsFn(v), e) : e \in Items(bases[d]) }
  BY CountsExist DEF CountsBody
<1>3. ASSUME NEW n \in CountsFn(v)[d]
      PROVE  \E e \in Items(bases[d]) :
                \/ e.virtual /\ e.base = v /\ n = 1
                \/ \E k \in CountsFn(v)[e.base] : n = k + LoadsOf(e)
  <2>1. PICK e \in Items(bases[d]) : n \in WaysBy(v, CountsFn(v), e)
    BY <1>2
  <2>2. PICK k \in CountsFn(v)[e.base] \cup (IF e.base = v /\ e.virtual THEN {0} ELSE {}) : n = k + LoadsOf(e)
    BY <2>1 DEF WaysBy
  <2>3. CASE k \in CountsFn(v)[e.base]
    BY <2>2, <2>3
  <2>4. CASE k \notin CountsFn(v)[e.base]
    <3>1. e.base = v /\ e.virtual /\ k = 0
      BY <2>2, <2>4
    <3>2. n = 1
      BY <1>1, <2>2, <3>1
    <3> QED BY <3>1, <3>2
  <2> QED BY <2>3, <2>4
<1>4. \A n \in CountsFn(v)[d] : n \in Nat /\ n >= 1
  <2> TAKE n \in CountsFn(v)[d]
  <2>1. PICK e \in Items(bases[d]) : n = 1 \/ \E k \in CountsFn(v)[e.base] : n = k + LoadsOf(e)
    BY <1>3
  <2>2. ASSUME NEW k \in CountsFn(v)[e.base], n = k + LoadsOf(e) PROVE n \in Nat /\ n >= 1
    <3>1. k \in Nat /\ k >= 1 /\ LoadsOf(e) \in Nat
      BY <1>1 DEF Shortest
    <3> QED BY <2>2, <3>1
  <2> QED BY <2>1, <2>2
<1>5. CASE Names(d, v)
  <2>1. PICK e \in Items(bases[d]) : e.virtual /\ e.base = v /\ PathFn(v)[d] = <<e.offset>>
    BY <1>5, PathCases
  <2>2. PathFn(v)[d] # <<>> /\ Len(PathFn(v)[d]) = 1
    BY <2>1
  <2>3. 0 + LoadsOf(e) \in WaysBy(v, CountsFn(v), e)
    BY <2>1 DEF WaysBy
  <2>4. CountsFn(v)[d] # {}
    BY <1>2, <2>3
  <2> QED BY <1>4, <2>2, <2>4 DEF Shortest
<1>6. CASE ~Names(d, v)
  <2>1. ASSUME NEW n \in CountsFn(v)[d]
        PROVE  \E e \in Items(bases[d]) : \E k \in CountsFn(v)[e.base] : n = k + LoadsOf(e)
    BY <1>3, <1>6 DEF Names
  <2>2. CASE \A e \in Items(bases[d]) : ~Goes(v, e)
    <3>1. PathFn(v)[d] = <<>>
      BY <1>6, <2>2, PathCases
    <3>2. \A e \in Items(bases[d]) : CountsFn(v)[e.base] = {}
      BY <1>1, <2>2 DEF Goes, Shortest
    <3>3. CountsFn(v)[d] = {}
      BY <2>1, <3>2
    <3> QED BY <3>1, <3>3 DEF Shortest
  <2>3. CASE \E e \in Items(bases[d]) : Goes(v, e)
    <3>1. PICK b \in Items(bases[d]) :
             /\ Goes(v, b) /\ PathFn(v)[d] = Extend(b, PathFn(v)[b.base])
             /\ \A a \in Items(bases[d]) : Goes(v, a) => Cost(v, b) <= Cost(v, a)
      BY <1>6, <2>3, PathCases
    <3>2. PathFn(v)[d] # <<>> /\ Len(PathFn(v)[d]) = Cost(v, b)
      BY <1>1, <3>1, ExtendIs DEF Goes, Cost
    <3>3. ASSUME NEW n \in CountsFn(v)[d] PROVE Len(PathFn(v)[d]) <= n
      <4>1. PICK e \in Items(bases[d]) : \E k \in CountsFn(v)[e.base] : n = k + LoadsOf(e)
        BY <2>1
      <4>2. PICK k \in CountsFn(v)[e.base] : n = k + LoadsOf(e)
        BY <4>1
      <4>3. k \in Nat /\ Len(PathFn(v)[e.base]) <= k /\ Goes(v, e)
        BY <1>1, <4>2 DEF Shortest, Goes
      <4>4. Cost(v, b) <= Cost(v, e) /\ Cost(v, e) = Len(PathFn(v)[e.base]) + LoadsOf(e)
        BY <1>1, <3>1, <4>3
      <4>5. PICK l \in Nat : l = Len(PathFn(v)[e.base])
        BY <1>1
      <4>6. PICK x \in Nat : x = Len(PathFn(v)[b.base]) + LoadsOf(b)
        BY <1>1
      <4>7. Cost(v, b) = x /\ LoadsOf(e) \in Nat
        BY <1>1, <4>6
      <4> QED BY <3>2, <4>2, <4>3, <4>4, <4>5, <4>7
    <3>4. CountsFn(v)[d] # {}
      <4>1. PICK k : k \in CountsFn(v)[b.base]
        BY <1>1, <3>1 DEF Shortest, Goes
      <4>2. k + LoadsOf(b) \in WaysBy(v, CountsFn(v), b)
        BY <4>1 DEF WaysBy
      <4> QED BY <1>2, <4>2
    <3> QED BY <1>4, <3>2, <3>3, <3>4 DEF Shortest
  <2> QED BY <2>2, <2>3
<1> QED BY <1>5, <1>6

LEMMA ShortestPaths == HInv => PathsAreShortest
<1> SUFFICES ASSUME HInv, NEW c \in Declared, NEW v \in Declared PROVE Shortest(v, c)
  BY PathFnIs, CountsFnIs DEF PathsAreShortest, Shortest
<1>1. PICK m \in Nat : m = Len(bases) /\ Declared = 1..m
  BY DeclaredIs DEF HInv
<1> DEFINE T == { k \in 0..m : k \in Declared => Shortest(v, k) }
<1>2. ASSUME NEW k \in 0..m, \A j \in 0..m : j < k => j \in T PROVE k \in T
  <2> SUFFICES ASSUME k \in Declared PROVE Shortest(v, k)
    OBVIOUS
  <2>1. \A e \in Declared : e < k => Shortest(v, e)
    BY <1>1, <1>2
  <2> QED BY <2>1, ClassShortest
<1>3. \A k \in 0..m : k \in T
  <2>1. Progressive(T, m)
    <3> HIDE DEF T
    <3> QED BY <1>2 DEF Progressive
  <2> HIDE DEF T
  <2> QED BY <2>1, StrongInduction
<1> QED BY <1>1, <1>3

(***************************************************************************)
(* For hierarchies of any size: in an object of a class whose constructor  *)
(* is translated, the path that CABI_GetVBasePath makes for a part ends at *)
(* the one copy of the virtual base, and no other way takes fewer loads.   *)
(***************************************************************************)
THEOREM PathsAreRight == VBaseSpec => []PathsRight
<1>1. TInv => PathsRight
  BY PathsReach, ShortestPaths DEF TInv, PathsRight
<1> QED BY <1>1, TInvHolds, PTL
=============================================================================
