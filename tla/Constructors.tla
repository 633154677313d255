---------------------------- MODULE Constructors ----------------------------
(***************************************************************************)
(* The functions the compiler writes itself, in source/CABI.c: what        *)
(* CABI_TransConstructor adds to a constructor's list of statements, and   *)
(* the default constructor, copy constructor, assignment operator and      *)
(* destructor of a class (CABI_MakeDefault...).  The statements are run    *)
(* here, to say what a constructor does to an object.                      *)
(* The translation uses the locals vbase and expr of earlier loops where   *)
(* they are NULL, stale or never set; all outcomes of that are behaviours. *)
(***************************************************************************)
EXTENDS Integers, Sequences, FiniteSets, SequencesExt

CONSTANTS
    Subs,      \* kinds of base: [ctor, dtor], ctor = "call", "none" or "error"
    Members,   \* kinds of member: [shape, ctor, dtor]
    MaxParts   \* bound: the bases and members of a class

ASSUME ConstructorsAssumption ==
    /\ Subs \subseteq [ctor : {"call", "none", "error"}, dtor : BOOLEAN]
    /\ Members \subseteq [shape : {"scalar", "class", "array"},
                          ctor : {"call", "none", "error"}, dtor : BOOLEAN]
    /\ MaxParts \in Nat

VARIABLES
    cls,        \* the class: [handle, vtable, vbases, bases, ivars]
    func,       \* the function: [kind, copy, try, chain], chain = what has an initialiser
    phase, i,   \* the part of the translation and the turn of its loop
    code, at,   \* the statements, and the one after which the next goes (stmt)
    vbase, expr,\* the locals of that name: Undefined, Null or a value
    cleanup,    \* what CExcept_Register... was told: [part, at, flag]
    compiler,   \* [scope, instances, filesyminfo, anyerrors]
    saved,      \* the locals savedScope, stack and saveDebugInfo
    outer       \* what the rest of the compiler is at: [scope, instances, filesyminfo]

translation == <<cls, func, i, code, at, vbase, expr, cleanup>>
vars == <<cls, func, phase, i, code, at, vbase, expr, cleanup, compiler, saved, outer>>

Null == <<"null">>
Undefined == <<"undefined">>

Idle == phase = "idle"

Lists(S, n) == UNION { [1..k -> S] : k \in 0..n }

\* same: the virtual base that is of the same class as this base, or 0.
Bases(n) == { [virtual |-> v, same |-> s, sub |-> b] : v \in BOOLEAN, s \in 0..n, b \in Subs }

BaseLists(vs) ==
    { l \in Lists(Bases(Len(vs)), MaxParts - Len(vs)) :
        \A k \in DOMAIN l : IF l[k].same = 0 THEN ~l[k].virtual ELSE l[k].sub = vs[l[k].same] }

Classes ==
    UNION { { [handle |-> h, vtable |-> t, vbases |-> p[1], bases |-> p[2], ivars |-> ms] :
                h, t \in BOOLEAN, ms \in Lists(Members, MaxParts - Len(p[1]) - Len(p[2])) } :
            p \in UNION { {vs} \X BaseLists(vs) : vs \in Lists(Subs, MaxParts) } }

Chains(c) == SUBSET ({ <<"vbase", k>> : k \in DOMAIN c.vbases } \cup { <<"member", 1>> : k \in DOMAIN c.ivars })

-----------------------------------------------------------------------------
\* Statements.  A statement is a type with what its expression does.
Stmt(type, does) == [type |-> type, expr |-> does, label |-> "none"]
Jump(does, label) == [type |-> "IFGOTO", expr |-> does, label |-> label]
Label(label) == [type |-> "LABEL", expr |-> <<"nothing">>, label |-> label]

\* CFunc_InsertStatement: the new statements go behind `at', which moves on.
Insert(stmts) ==
    /\ code' = SubSeq(code, 1, at) \o stmts \o SubSeq(code, at + 1, Len(code))
    /\ at' = at + Len(stmts)

\* `if (expr)' a statement that does it.
Expression(e) == IF e = Null THEN <<>> ELSE <<Stmt("EXPRESSION", e)>>

Register(has, part, flag) ==
    cleanup' = IF has THEN Append(cleanup, [part |-> part, at |-> at', flag |-> flag]) ELSE cleanup

NoClass == [handle |-> FALSE, vtable |-> FALSE, vbases |-> <<>>, bases |-> <<>>, ivars |-> <<>>]
NoFunction == [kind |-> "none", copy |-> FALSE, try |-> FALSE, chain |-> {}]

\* No function is being made.
Nothing ==
    /\ cls' = NoClass /\ func' = NoFunction /\ code' = <<>> /\ at' = 0
    /\ vbase' = Undefined /\ expr' = Undefined /\ cleanup' = <<>>

Goto(p, n) == phase' = p /\ i' = n
Complain(bad) == compiler' = [compiler EXCEPT !.anyerrors = @ \/ bad]

\* CError_FATAL, a failed CError_ASSERT or an access violation.
Stop ==
    /\ phase' = "stopped"
    /\ UNCHANGED <<translation, compiler, saved, outer>>

-----------------------------------------------------------------------------
\* The body of a constructor: statements of the user's around what is added.
Written(f) ==
    <<Stmt("NOP", <<"nothing">>)>>
    \o (IF f.chain = {} THEN <<>> ELSE <<Stmt("EXPRESSION", <<"ctorinit">>)>>)
    \o (IF f.try THEN <<Stmt("BEGINCATCH", <<"nothing">>)>> ELSE <<>>)
    \o (IF f.kind = "user" THEN <<Stmt("EXPRESSION", <<"body">>)>> ELSE <<>>)
    \o (IF f.kind = "assignment" THEN <<>> ELSE <<Stmt("RETURN", <<"nothing">>)>>)

Start(c, f, p) ==
    /\ Idle
    /\ cls' = c /\ func' = f /\ code' = Written(f) /\ at' = 1
    /\ vbase' = Undefined /\ expr' = Undefined /\ cleanup' = <<>>
    /\ Goto(p, 1)

\* CABI_FinishConstructor, for a constructor the user wrote.
FinishConstructor(c, copy, try, chain) ==
    /\ Start(c, [kind |-> "user", copy |-> copy, try |-> try, chain |-> chain], "prologue")
    /\ UNCHANGED <<compiler, saved, outer>>

\* The beginning of the four CABI_MakeDefault...: nothing after an error.
Bug_MakeDefault(c, kind) ==
    /\ Start(c, [kind |-> kind, copy |-> kind = "copy", try |-> FALSE, chain |-> {}],
             IF kind \in {"constructor", "copy"} THEN "prologue" ELSE kind)
    /\ ~compiler.anyerrors
    /\ saved' = [compiler EXCEPT !.filesyminfo = FALSE]
    /\ compiler' = [compiler EXCEPT !.instances = Append(@, kind), !.scope = kind, !.filesyminfo = FALSE]
    /\ UNCHANGED outer

MakeDefault(c, kind) ==
    /\ Start(c, [kind |-> kind, copy |-> kind = "copy", try |-> FALSE, chain |-> {}],
             IF kind \in {"constructor", "copy"} THEN "prologue" ELSE kind)
    /\ ~compiler.anyerrors
    /\ saved' = compiler
    /\ compiler' = [compiler EXCEPT !.instances = Append(@, kind), !.scope = kind, !.filesyminfo = FALSE]
    /\ UNCHANGED outer

MakeDefaultConstructor(c) == MakeDefault(c, "constructor")
MakeDefaultCopyConstructor(c) == MakeDefault(c, "copy")
MakeDefaultAssignmentOperator(c) == MakeDefault(c, "assignment")
MakeDefaultDestructor(c) == MakeDefault(c, "destructor")

-----------------------------------------------------------------------------
(***************************************************************************)
(* CABI_TransConstructor.                                                  *)
(***************************************************************************)
\* Where the first statement goes: the one that held the initialisers, or
\* the first of the list.
CtorInit == SelectInSeq(code, LAMBDA s : s.expr = <<"ctorinit">>)

\* In a handle class: if this is null, allocate; if that fails, return.
NewCall ==
    IF cls.handle
    THEN <<Jump(<<"this">>, "allocated"), Jump(<<"new">>, "allocated"),
           Stmt("RETURN", <<"nothing">>), Label("allocated")>>
    ELSE <<>>

\* expr keeps the `this = new(...)' of a handle class.
Prologue ==
    /\ phase = "prologue"
    /\ LET first == IF CtorInit = 0 THEN 1 ELSE CtorInit
           blank == [code EXCEPT ![first] = Stmt("NOP", <<"nothing">>)]
           with == SubSeq(blank, 1, first) \o NewCall \o SubSeq(blank, first + 1, Len(blank))
           try == IF func.try THEN SelectInSeq(with, LAMBDA s : s.type = "BEGINCATCH") ELSE first + Len(NewCall)
       IN  code' = with /\ at' = try
    /\ expr' = IF cls.handle THEN <<"new">> ELSE expr
    /\ IF cls.vbases # <<>> THEN Goto("guard", 1) ELSE Goto("bases", 1)
    /\ UNCHANGED <<cls, func, vbase, cleanup, compiler, saved, outer>>

\* Virtual bases belong to the complete object, whose constructor is called
\* with a flag that is not 0: all pointers to them first, then each of them.
Bug_Guard ==
    /\ phase = "guard"
    /\ Insert([k \in DOMAIN cls.vbases |-> Stmt("EXPRESSION", <<"pointer", k>>)]
              \o <<Jump(<<"noflag">>, "nobases")>>)
    /\ expr' = <<"pointer", Len(cls.vbases)>>
    /\ Goto("vbases", 1)
    /\ UNCHANGED <<cls, func, vbase, cleanup, compiler, saved, outer>>

Guard ==
    /\ phase = "guard"
    /\ Insert(<<Jump(<<"noflag">>, "nobases")>>
              \o [k \in DOMAIN cls.vbases |-> Stmt("EXPRESSION", <<"pointer", k>>)])
    /\ expr' = <<"pointer", Len(cls.vbases)>>
    /\ Goto("vbases", 1)
    /\ UNCHANGED <<cls, func, vbase, cleanup, compiler, saved, outer>>

VBaseExpr(k) ==
    IF ~func.copy /\ <<"vbase", k>> \in func.chain THEN <<"vbase", k>>
    ELSE IF cls.vbases[k].ctor = "call" THEN <<"vbase", k>> ELSE Null

ConstructVBase ==
    /\ phase = "vbases" /\ i <= Len(cls.vbases)
    /\ expr' = VBaseExpr(i)
    /\ Insert(Expression(expr'))
    /\ Register(cls.vbases[i].dtor, <<"vbase", i>>, TRUE)
    /\ Complain(~func.copy /\ <<"vbase", i>> \notin func.chain /\ cls.vbases[i].ctor = "error")
    /\ Goto("vbases", i + 1)
    /\ UNCHANGED <<cls, func, vbase, saved, outer>>

Bug_VBasesDone ==
    /\ phase = "vbases" /\ i > Len(cls.vbases)
    /\ vbase' = Null
    /\ Goto("bases", 1)
    /\ UNCHANGED <<cls, func, code, at, expr, cleanup, compiler, saved, outer>>

VBasesDone ==
    /\ phase = "vbases" /\ i > Len(cls.vbases)
    /\ Insert(<<Label("nobases")>>)
    /\ vbase' = Null
    /\ Goto("bases", 1)
    /\ UNCHANGED <<cls, func, expr, cleanup, compiler, saved, outer>>

(***************************************************************************)
(* The other bases.  vbase is what the loop above left: NULL, or never set *)
(* in a class without virtual bases.  expr is what the last virtual base   *)
(* was constructed by or, without virtual bases, never set or, in a handle *)
(* class, the allocation of the prologue.  A copy constructor follows      *)
(* vbase; another looks vbase up among the initialisers, finds none (one   *)
(* that matches by accident fails the assertion) and inserts what expr     *)
(* holds: a handle allocates again, and nothing tests the outcome.         *)
(***************************************************************************)
Leftover(e) == IF e = Undefined THEN {Null, <<"garbage">>} ELSE {e}

SkipBase ==
    /\ phase = "bases" /\ i <= Len(cls.bases) /\ cls.bases[i].virtual
    /\ Goto("bases", i + 1)
    /\ UNCHANGED <<cls, func, code, at, vbase, expr, cleanup, compiler, saved, outer>>

ConstructBase ==
    /\ phase = "bases" /\ i <= Len(cls.bases) /\ ~cls.bases[i].virtual
    /\ func.copy => vbase = Undefined
    /\ expr' \in (IF func.copy THEN Leftover(Undefined) ELSE Leftover(expr))
    /\ Insert(Expression(expr'))
    /\ Register(cls.bases[i].sub.dtor, <<"base", i>>, FALSE)
    /\ Goto("bases", i + 1)
    /\ UNCHANGED <<cls, func, vbase, compiler, saved, outer>>

BadBase ==
    /\ phase = "bases" /\ i <= Len(cls.bases) /\ ~cls.bases[i].virtual
    /\ func.copy \/ (vbase = Undefined /\ func.chain # {})
    /\ Stop

\* CABI_InitVTablePtrs and CABI_InitVBaseCtorOffsets are not in the repository;
\* one statement stands for theirs.  A copy constructor then copies all members
\* (CABI_0056abb0, likewise).
Bug_BasesDone ==
    /\ phase = "bases" /\ i > Len(cls.bases)
    /\ Insert((IF func.copy THEN <<Stmt("EXPRESSION", <<"copies">>)>> ELSE <<>>)
              \o (IF cls.vtable THEN <<Stmt("EXPRESSION", <<"vtable">>)>> ELSE <<>>))
    /\ IF func.copy THEN Goto("returns", 1) ELSE Goto("members", 1)
    /\ UNCHANGED <<cls, func, vbase, expr, cleanup, compiler, saved, outer>>

BasesDone ==
    /\ phase = "bases" /\ i > Len(cls.bases)
    /\ Insert((IF cls.vtable THEN <<Stmt("EXPRESSION", <<"vtable">>)>> ELSE <<>>)
              \o (IF func.copy THEN <<Stmt("EXPRESSION", <<"copies">>)>> ELSE <<>>))
    /\ IF func.copy THEN Goto("returns", 1) ELSE Goto("members", 1)
    /\ UNCHANGED <<cls, func, vbase, expr, cleanup, compiler, saved, outer>>

\* The members' initialisers are looked up by vbase too, so that each member
\* is constructed by default.
Bug_MemberStmts(k) ==
    LET m == cls.ivars[k]
    IN  IF m.shape # "scalar" /\ m.ctor = "call" THEN <<Stmt("EXPRESSION", <<"member", k>>)>>
        ELSE <<>>

MemberStmts(k) ==
    LET m == cls.ivars[k]
    IN  IF m.shape # "scalar" /\ m.ctor = "call" THEN <<Stmt("EXPRESSION", <<"member", k>>)>>
        ELSE IF m.shape = "class" /\ m.dtor THEN <<Stmt("EXPRESSION", <<"nothing">>)>>
        ELSE <<>>

\* An array is told to the exceptions only where it is constructed.
MemberCleanup(m) ==
    m.dtor /\ (m.shape = "class" \/ (m.shape = "array" /\ m.ctor = "call"))

ConstructMember ==
    /\ phase = "members" /\ i <= Len(cls.ivars)
    /\ Insert(MemberStmts(i))
    /\ Register(MemberCleanup(cls.ivars[i]), <<"member", i>>, FALSE)
    /\ Complain(cls.ivars[i].shape # "scalar" /\ cls.ivars[i].ctor = "error")
    /\ Goto("members", i + 1)
    /\ UNCHANGED <<cls, func, vbase, expr, saved, outer>>

BadMember ==
    /\ phase = "members" /\ i <= Len(cls.ivars)
    /\ vbase = Undefined /\ func.chain # {}
    /\ Stop

MembersDone ==
    /\ phase = "members" /\ i > Len(cls.ivars)
    /\ Goto("returns", 1)
    /\ UNCHANGED <<cls, func, code, at, vbase, expr, cleanup, compiler, saved, outer>>

Returns ==
    /\ phase = "returns"
    /\ code' = [k \in DOMAIN code |-> IF k > 1 /\ code[k].type = "RETURN"
                                       THEN [code[k] EXCEPT !.expr = <<"this">>] ELSE code[k]]
    /\ Goto("generate", 1)
    /\ UNCHANGED <<cls, func, at, vbase, expr, cleanup, compiler, saved, outer>>

-----------------------------------------------------------------------------
(***************************************************************************)
(* CABI_MakeDefaultAssignmentOperator: the object as a whole if that is    *)
(* enough, or its bases.  The two kinds of base have changed places: for a *)
(* virtual one vbase is followed as it is, for another it is searched for. *)
(***************************************************************************)
AssignWhole ==
    /\ phase = "assignment" /\ i = 1
    /\ \E sized \in BOOLEAN :
          Insert((IF sized THEN <<Stmt("EXPRESSION", <<"assigned">>)>> ELSE <<>>)
                 \o <<Stmt("RETURN", <<"this">>)>>)
    /\ Goto("generate", 1)
    /\ UNCHANGED <<cls, func, vbase, expr, cleanup, compiler, saved, outer>>

AssignVirtual ==
    /\ phase = "assignment" /\ i <= Len(cls.bases) /\ cls.bases[i].virtual
    /\ \/ /\ vbase = Undefined
          /\ \E e \in Leftover(Undefined) : expr' = e /\ Insert(Expression(e))
       \/ /\ vbase # Undefined
          /\ expr' \in {Null, <<"assigned", vbase[2]>>} /\ Insert(Expression(expr'))
    /\ Goto("assignment", i + 1)
    /\ UNCHANGED <<cls, func, vbase, cleanup, compiler, saved, outer>>

AssignOther ==
    /\ phase = "assignment" /\ i <= Len(cls.bases) /\ ~cls.bases[i].virtual /\ cls.bases[i].same # 0
    /\ vbase' = <<"vbase", cls.bases[i].same>>
    /\ expr' \in {Null, <<"assigned", cls.bases[i].same>>} /\ Insert(Expression(expr'))
    /\ Goto("assignment", i + 1)
    /\ UNCHANGED <<cls, func, cleanup, compiler, saved, outer>>

\* The search found nothing, or vbase was followed and pointed nowhere.
AssignFails ==
    /\ phase = "assignment" /\ i <= Len(cls.bases)
    /\ IF cls.bases[i].virtual THEN vbase = Undefined ELSE cls.bases[i].same = 0
    /\ Stop

AssignDone ==
    /\ phase = "assignment" /\ i > Len(cls.bases)
    /\ Insert(<<Stmt("EXPRESSION", <<"copies">>), Stmt("RETURN", <<"this">>)>>)
    /\ Goto("generate", 1)
    /\ UNCHANGED <<cls, func, vbase, expr, cleanup, compiler, saved, outer>>

\* CABI_MakeDefaultDestructor: CABI_TransDestructor is not in the repository.
Destructor ==
    /\ phase = "destructor"
    /\ Insert(<<Stmt("EXPRESSION", <<"destroyed">>)>>)
    /\ Goto("generate", 1)
    /\ UNCHANGED <<cls, func, vbase, expr, cleanup, compiler, saved, outer>>

\* CFunc_Gen, and what a CABI_MakeDefault... puts back.
Generate ==
    /\ phase = "generate"
    /\ compiler' = IF func.kind = "user" THEN compiler
                   ELSE [saved EXCEPT !.anyerrors = compiler.anyerrors]
    /\ saved' = compiler'
    /\ Goto("idle", 1) /\ Nothing
    /\ UNCHANGED outer

\* The rest of the compiler, between two calls: it enters and leaves functions
\* and instances of templates, and #pragma sym sets the option.
Outers ==
    { [scope |-> "file", instances |-> <<>>, filesyminfo |-> on] : on \in BOOLEAN }
        \cup { [scope |-> "function", instances |-> <<"template">>, filesyminfo |-> TRUE] }

With(state, errors) ==
    [scope |-> state.scope, instances |-> state.instances,
     filesyminfo |-> state.filesyminfo, anyerrors |-> errors]

Elsewhere(state) ==
    /\ Idle
    /\ outer' = state /\ compiler' = With(state, compiler.anyerrors)
    /\ saved' = compiler'
    /\ UNCHANGED <<translation, phase>>

-----------------------------------------------------------------------------
Init ==
    /\ cls = NoClass /\ func = NoFunction /\ code = <<>> /\ at = 0
    /\ phase = "idle" /\ i = 1
    /\ vbase = Undefined /\ expr = Undefined /\ cleanup = <<>>
    /\ outer = [scope |-> "file", instances |-> <<>>, filesyminfo |-> FALSE]
    /\ compiler = With(outer, FALSE)
    /\ saved = compiler

TransConstructor ==
    \/ Prologue \/ Guard \/ ConstructVBase \/ VBasesDone
    \/ SkipBase \/ ConstructBase \/ BadBase \/ BasesDone
    \/ ConstructMember \/ BadMember \/ MembersDone \/ Returns

Assignment == AssignWhole \/ AssignVirtual \/ AssignOther \/ AssignFails \/ AssignDone

Begin ==
    Idle /\ \E c \in Classes :
        \/ \E copy, try \in BOOLEAN, chain \in Chains(c) : FinishConstructor(c, copy, try, chain)
        \/ MakeDefaultConstructor(c) \/ MakeDefaultCopyConstructor(c)
        \/ MakeDefaultAssignmentOperator(c) \/ MakeDefaultDestructor(c)

Next ==
    \/ Begin \/ TransConstructor \/ Assignment \/ Destructor
    \/ Generate
    \/ \E state \in Outers : Elsewhere(state)

Spec == Init /\ [][Next]_vars

-----------------------------------------------------------------------------
\* Types; statements are inserted within the list and the jumps that are
\* added go forward, to the one place of their label.
TypeOK ==
    /\ at \in 0..Len(code)
    /\ \A r \in ToSet(cleanup) : r.at \in DOMAIN code
    /\ phase = "generate" => \A k \in DOMAIN code : code[k].type = "IFGOTO" =>
          \E n \in k + 1 .. Len(code) :
             { m \in DOMAIN code : code[m] = Label(code[k].label) } = {n}

Made == phase = "generate" /\ func.kind \in {"user", "constructor", "copy"}

\* One run of the constructor: it is called with `this', null or not, and the
\* flag for a complete object, and the allocation that is tested succeeds or
\* fails.  What becomes of the others changes nothing in what is done.
Calls == [this : BOOLEAN, flag : BOOLEAN, alloc : BOOLEAN]

Taken(e, does) ==
    \/ does = <<"this">> /\ e.this
    \/ does = <<"new">> /\ e.alloc
    \/ does = <<"noflag">> /\ ~e.flag

\* What that call does, one expression after another.
Run(e) ==
    LET target(s) == CHOOSE n \in DOMAIN code : code[n] = Label(s.label)
        from[k \in DOMAIN code] ==
            LET s == code[k]
            IN  IF s.type = "RETURN" THEN <<<<"return">> \o s.expr>>
                ELSE IF s.type = "IFGOTO"
                THEN IF Taken(e, s.expr) THEN from[target(s)] ELSE from[k + 1]
                ELSE (IF s.expr = <<"nothing">> THEN <<>> ELSE <<s.expr>>) \o from[k + 1]
    IN  from[1]

Refused(e) == cls.handle /\ ~e.this /\ ~e.alloc

Count(trace, x) == Cardinality({ k \in DOMAIN trace : trace[k] = x })

Rank(x) ==
    IF x[1] = "pointer" THEN 1
    ELSE IF x[1] \in {"vbase", "garbage", "new"} THEN 2
    ELSE IF x[1] = "vtable" THEN 3
    ELSE IF x[1] \in {"member", "copies"} THEN 4
    ELSE IF x[1] = "body" THEN 5 ELSE 6

(***************************************************************************)
(* An object is made from the inside out on every path of the constructor: *)
(* the pointers to virtual bases, then bases, then the pointers to virtual *)
(* tables, then members, then the user's body.  A base sees only pointers  *)
(* that are set; a member, and the body, only the final virtual table.     *)
(* Where a handle is allocated again (NullIsReturned) it is so before the  *)
(* virtual tables: all that follows goes to the storage it then has.       *)
(***************************************************************************)
InsideOut ==
    Made => \A e \in Calls :
        LET trace == Run(e)
        IN  \A k, n \in DOMAIN trace : k < n => Rank(trace[k]) <= Rank(trace[n])

\* How often a handle is allocated behind the test of its first allocation:
\* for each base that is not virtual, if the class has no virtual bases and
\* is not copied.
OtherBases == { k \in DOMAIN cls.bases : ~cls.bases[k].virtual }
Untested == IF cls.handle /\ cls.vbases = <<>> /\ ~func.copy THEN Cardinality(OtherBases) ELSE 0

\* A handle whose storage cannot be had at first is left alone: nothing is done
\* to the object.  On every path the constructor returns this.  A handle that
\* has its storage loses it once for each untested allocation, and no other
\* object is allocated: what each of them returns, null or not, is `this' then.
NullIsReturned ==
    Made => \A e \in Calls :
        /\ Refused(e) => Len(Run(e)) = 1
        /\ Last(Run(e)) = <<"return", "this">>
        /\ Count(Run(e), <<"new">>) = IF Refused(e) THEN 0 ELSE Untested

\* Every path through a constructor ends with the return of this, a handle is
\* allocated as often as Untested says, and no path is lost in a jump: types,
\* and the jumps to the one place of their label.
EveryPathReturns == TypeOK /\ NullIsReturned

(***************************************************************************)
(* The complete object, and it alone, sets the pointers to virtual bases,  *)
(* each once.  If all bases of the class are virtual, it alone constructs  *)
(* them; a base that is not virtual repeats the last of them (see expr).   *)
(***************************************************************************)
CompleteObjectMakesVBases ==
    Made => \A e \in Calls : \A k \in DOMAIN cls.vbases :
        LET complete == e.flag /\ ~Refused(e)
            made == cls.vbases[k].ctor = "call" \/ (~func.copy /\ <<"vbase", k>> \in func.chain)
        IN  /\ Count(Run(e), <<"pointer", k>>) = IF complete THEN 1 ELSE 0
            /\ complete /\ made => Count(Run(e), <<"vbase", k>>) >= 1
            /\ (\A b \in ToSet(cls.bases) : b.virtual) =>
                  Count(Run(e), <<"vbase", k>>) = IF complete /\ made THEN 1 ELSE 0

(***************************************************************************)
(* Parts are told to the exception code in the order of construction, and  *)
(* a member on a statement of its own: if the construction of the part     *)
(* before it throws, the member must not be destroyed.  The registration   *)
(* of a virtual base is skipped where its construction is.                 *)
(***************************************************************************)
CleanupInOrder ==
    Made =>
        /\ \A k, n \in DOMAIN cleanup : k < n => cleanup[k].at <= cleanup[n].at
        /\ \A r \in ToSet(cleanup) : r.part[1] = "member" => code[r.at].expr \in {r.part, <<"nothing">>}
        /\ \A r \in ToSet(cleanup) : r.part[1] = "vbase" =>
              SelectInSeq(code, LAMBDA s : s.expr = <<"noflag">>) < r.at /\ r.flag

(***************************************************************************)
(* When a generated function is done the compiler is where it was: in the  *)
(* scope, in the instances of templates and with the option that the rest  *)
(* of the compiler had, however the translation ended.  Only errors stay.  *)
(***************************************************************************)
CompilerRestored == Idle => compiler = With(outer, compiler.anyerrors)
=============================================================================
