----------------------------- MODULE TypeNames -----------------------------
(***************************************************************************)
(* How source/CMangler.c spells types, namespaces and signatures.  What    *)
(* LinkNames takes as one token, the encoding of a type, is spelled out    *)
(* here, character by character: a name is a string.  Names are asked for  *)
(* one after the other, so that a step relates any two of them.            *)
(***************************************************************************)
EXTENDS Integers, Sequences, SequencesExt, TLC

CONSTANTS
    StackSize,  \* char *stack[10] in CMangler_MangleNameSpaceName
    StackLimit, \* 9: how many names it takes
    Options,    \* bound: the values of copts
    Entity      \* bound: what names are asked for

ASSUME StackLimit \in 1..StackSize - 1

VARIABLES
    copts,  \* always_vdispatch and new_mangler
    asked,  \* the entity whose name was asked for last
    name    \* its name, left in name_mangle_list or returned

vars == <<copts, asked, name>>

-----------------------------------------------------------------------------
(***************************************************************************)
(* Types.  A qualifier is a set; with a pointer, the qualifier that comes  *)
(* beside the type is that of what is pointed to in the end.               *)
(***************************************************************************)
IntegralType ==
    [IT_BOOL |-> "b", IT_CHAR |-> "c", IT_WCHAR_T |-> "w", IT_UCHAR |-> "Uc", IT_SCHAR |-> "Sc",
     IT_SHORT |-> "s", IT_USHORT |-> "Us", IT_INT |-> "i", IT_UINT |-> "Ui", IT_LONG |-> "l",
     IT_ULONG |-> "Ul", IT_LONGLONG |-> "x", IT_ULONGLONG |-> "Ux", IT_FLOAT |-> "f",
     IT_SHORTDOUBLE |-> "D", IT_DOUBLE |-> "d", IT_LONGDOUBLE |-> "r",
     IT_23 |-> "0", IT_24 |-> "1", IT_25 |-> "2", IT_26 |-> "3", IT_27 |-> "4", IT_28 |-> "5",
     IT_29 |-> "6", IT_30 |-> "7",
     IT_IMAG_FLOAT |-> "16_Imaginary float", IT_IMAG_DOUBLE |-> "17_Imaginary double",
     IT_IMAG_LONG_DOUBLE |-> "22_Imaginary long double", IT_COMPLEX_FLOAT |-> "14_Complex float",
     IT_COMPLEX_DOUBLE |-> "15_Complex double", IT_COMPLEX_LONG_DOUBLE |-> "20_Complex long double"]

VectorType ==
    [STRUCT_VECTOR_UCHAR |-> "XUc", STRUCT_VECTOR_SCHAR |-> "Xc", STRUCT_VECTOR_BCHAR |-> "XC",
     STRUCT_VECTOR_USHORT |-> "XUs", STRUCT_VECTOR_SSHORT |-> "Xs", STRUCT_VECTOR_BSHORT |-> "XS",
     STRUCT_VECTOR_UINT |-> "XUi", STRUCT_VECTOR_SINT |-> "Xi", STRUCT_VECTOR_BINT |-> "XI",
     STRUCT_VECTOR_FLOAT |-> "Xf", STRUCT_VECTOR_PIXEL |-> "Xp"]

StructType == [STRUCT_TYPE_STRUCT |-> "struct", STRUCT_TYPE_UNION |-> "union",
               STRUCT_TYPE_CLASS |-> "class"]

Qual == {"const", "volatile", "reference", "mutable"}
Q_CV == {"const", "volatile"}

NULL == ""  \* no name

\* Type records, by their type field; a namespace is a path, innermost first.
Void == [type |-> "TYPEVOID"]
Integral(it) == [type |-> "TYPEINT", integral |-> it]
Enum(id, nspace) == [type |-> "TYPEENUM", name |-> id, nspace |-> nspace]
Class(id, nspace) == [type |-> "TYPECLASS", name |-> id, nspace |-> nspace]
Struct(id, stype) == [type |-> "TYPESTRUCT", name |-> id, stype |-> stype]
Pointer(target, qual) == [type |-> "TYPEPOINTER", target |-> target, qual |-> qual]
MemberPointer(ty1, ty2, qual) ==
    [type |-> "TYPEMEMBERPOINTER", target |-> ty1, ty2 |-> ty2, qual |-> qual]
Array(target, n) == [type |-> "TYPEARRAY", target |-> target, n |-> n]
Func(args, functype, qual) ==
    [type |-> "TYPEFUNC", args |-> args, functype |-> functype, qual |-> qual]
Template == [type |-> "TYPETEMPLATE"]

\* FuncArg: the lists may end in elipsis, or be the one that has no types.
FuncArg(type, qual) == [type |-> type, qual |-> qual]
elipsis == FuncArg([type |-> "elipsis"], {})
oldstyle == FuncArg([type |-> "NULL"], {})

-----------------------------------------------------------------------------
Concat(strings) == FoldLeft(LAMBDA s, t : s \o t, "", strings)

Bug_CMangler_MangleTypeName(str) == str

CMangler_MangleTypeName(str) == ToString(Len(str)) \o str

\* The name and those of the namespaces around it, the outermost left out
\* when there are too many.
NameStack(nspace, str) ==
    LET named == SelectSeq(nspace, LAMBDA n : n # NULL)
    IN  <<str>> \o IF Len(named) < StackLimit THEN named ELSE SubSeq(named, 1, StackLimit - 1)

CMangler_MangleNameSpaceName(nspace, str) ==
    LET stack == NameStack(nspace, str)
    IN  (IF Len(stack) > 1 THEN "Q" \o ToString(Len(stack)) ELSE "")
            \o Concat([k \in DOMAIN stack |-> CMangler_MangleTypeName(Reverse(stack)[k])])

CMangler_MangleClassName(tclass) ==
    CMangler_MangleNameSpaceName(tclass.nspace, IF tclass.name = NULL THEN "class" ELSE tclass.name)

CMangler_MangleQualifier(qual) ==
    (IF "const" \in qual THEN "C" ELSE "") \o (IF "volatile" \in qual THEN "V" ELSE "")

PointerCode(qual) ==
    IF "reference" \notin qual THEN "P"
    ELSE IF copts.always_vdispatch /\ "mutable" \in qual THEN "O" ELSE "R"

StructName(type) ==
    IF type.stype \in DOMAIN VectorType THEN VectorType[type.stype]
    ELSE IF type.name # NULL THEN CMangler_MangleTypeName(type.name) ELSE StructType[type.stype]

RECURSIVE CMangler_MangleTypeAppend(_, _)

\* The qualifiers of a parameter itself do not count; those of what it points
\* to come with the FuncArg, and only for a pointer are they passed on.
CMangler_MangleArgs(args) ==
    LET Arg(a) == IF a = elipsis THEN "e"
                  ELSE IF a.type.type = "TYPEPOINTER"
                  THEN CMangler_MangleTypeAppend([a.type EXCEPT !.qual = @ \ Q_CV], a.qual)
                  ELSE CMangler_MangleTypeAppend(a.type, {})
    IN  IF args = <<>> THEN "v" ELSE IF args[1] = oldstyle THEN "e"
        ELSE Concat([k \in DOMAIN args |-> Arg(args[k])])

CMangler_MangleTypeAppend(type, qual) ==
    LET q == CMangler_MangleQualifier(qual)
    IN  CASE type.type = "TYPEVOID" -> q \o "v"
        [] type.type = "TYPEINT" -> q \o IntegralType[type.integral]
        [] type.type = "TYPEENUM" ->
               q \o CMangler_MangleNameSpaceName(type.nspace, IF type.name = NULL THEN "enum" ELSE type.name)
        [] type.type = "TYPEPOINTER" ->
               CMangler_MangleQualifier(type.qual) \o PointerCode(type.qual)
                   \o CMangler_MangleTypeAppend(type.target, qual)
        [] type.type = "TYPEMEMBERPOINTER" ->
               IF type.ty2.type # "TYPECLASS" THEN "3<T>"
               ELSE CMangler_MangleQualifier(type.qual) \o "M" \o CMangler_MangleClassName(type.ty2)
                        \o CMangler_MangleTypeAppend(type.target, qual)
        [] type.type = "TYPEARRAY" ->
               "A" \o ToString(type.n) \o "_" \o CMangler_MangleTypeAppend(type.target, qual)
        [] type.type = "TYPEFUNC" ->
               q \o "F" \o CMangler_MangleArgs(type.args) \o "_"
                   \o CMangler_MangleTypeAppend(type.functype, type.qual)
        [] type.type = "TYPESTRUCT" -> q \o StructName(type)
        [] type.type = "TYPECLASS" -> q \o CMangler_MangleClassName(type)
        [] type.type = "TYPETEMPLATE" -> "1T"

-----------------------------------------------------------------------------
(***************************************************************************)
(* Template arguments: numbers, types, and what still depends on an        *)
(* argument.  (Those that name an object are in LinkNames.)                *)
(***************************************************************************)
CMangler_AppendTemplateArgumentList(args) ==
    LET Arg(a) == CASE a.type = "TPT_TYPE" -> CMangler_MangleTypeAppend(a.of, a.qual)
                    [] a.type = "TPT_NONTYPE" -> IF a.dependent THEN "T" ELSE ToString(a.intval)
    IN  "<" \o Concat([k \in DOMAIN args |-> (IF k > 1 THEN "," ELSE "") \o Arg(args[k])]) \o ">"

(***************************************************************************)
(* Functions.  The real arguments of a member follow `this', and those of  *)
(* the constructor of a class with virtual bases a flag.                   *)
(***************************************************************************)
constructor_name == "__ct"
destructor_name == "__dt"

Arguments(f) ==
    (IF f.member /\ ~f.static
     THEN <<FuncArg(Pointer(Class("this", <<>>), {}), f.this)>>
              \o IF f.name = constructor_name /\ f.vbases
                 THEN <<FuncArg(Integral("IT_SHORT"), {})>> ELSE <<>>
     ELSE <<>>) \o f.args

CABI_GetFirstRealArgument(f) ==
    IF ~f.member \/ f.static THEN Arguments(f)
    ELSE IF f.name = destructor_name THEN <<>>
    ELSE IF f.vbases /\ f.name = constructor_name THEN Tail(Tail(Arguments(f)))
    ELSE Tail(Arguments(f))

Bug_Signature(f) ==
    IF f.name = constructor_name THEN "F" \o CMangler_MangleArgs(CABI_GetFirstRealArgument(f))
    ELSE "F" \o CMangler_MangleArgs(f.args)

\* The qualifiers of the object come before the arguments, which are all of
\* them if the function is no member.
Signature(f) ==
    IF ~f.member THEN "F" \o CMangler_MangleArgs(f.args)
    ELSE IF f.name = constructor_name THEN "F" \o CMangler_MangleArgs(CABI_GetFirstRealArgument(f))
    ELSE IF f.static THEN "F" \o CMangler_MangleArgs(f.args)
    ELSE CMangler_MangleQualifier(f.this) \o "F" \o CMangler_MangleArgs(Tail(Arguments(f)))

CMangler_MangleFunction(f) ==
    LET scope == SelectSeq(f.nspace, LAMBDA n : n # NULL)
        instance == f.inst # <<>>
    IN  f.name
        \o (IF instance /\ f.conversion THEN CMangler_MangleTypeAppend(f.functype, f.qual) ELSE "")
        \o (IF instance THEN CMangler_AppendTemplateArgumentList(f.inst) ELSE "")
        \o "__"
        \o (IF scope = <<>> THEN "" ELSE CMangler_MangleNameSpaceName(Tail(scope), Head(scope)))
        \o (IF f.member /\ f.name = destructor_name THEN "Fv"
            ELSE Signature(f) \o IF instance /\ copts.new_mangler
                                 THEN "_" \o CMangler_MangleTypeAppend(f.functype, f.qual) ELSE "")

\* An object with a named namespace around it, innermost first.
CMangler_DataLinkName(d) ==
    LET scope == SelectSeq(d.nspace, LAMBDA n : n # NULL)
    IN  d.name \o IF scope = <<>> THEN ""
                  ELSE "__" \o CMangler_MangleNameSpaceName(Tail(scope), Head(scope))

-----------------------------------------------------------------------------
(***************************************************************************)
(* Operators: the name of each, and what it is called in messages.  Tokens *)
(* are written as they are spelled.                                        *)
(***************************************************************************)
Codes ==
    " new" :> "__nw" @@ " delete" :> "__dl" @@ " new[]" :> "__nwa" @@ " delete[]" :> "__dla" @@
    "+" :> "__pl" @@ "-" :> "__mi" @@ "*" :> "__ml" @@ "/" :> "__dv" @@ "%" :> "__md" @@
    "^" :> "__er" @@ "&" :> "__ad" @@ "|" :> "__or" @@ "~" :> "__co" @@ "!" :> "__nt" @@
    "=" :> "__as" @@ "<" :> "__lt" @@ ">" :> "__gt" @@ "+=" :> "__apl" @@ "-=" :> "__ami" @@
    "*=" :> "__amu" @@ "/=" :> "__adv" @@ "%=" :> "__amd" @@ "^=" :> "__aer" @@ "&=" :> "__aad" @@
    "|=" :> "__aor" @@ "<<" :> "__ls" @@ ">>" :> "__rs" @@ "<?" :> "__min" @@ ">?" :> "__max" @@
    "<<=" :> "__als" @@ ">>=" :> "__ars" @@ "==" :> "__eq" @@ "!=" :> "__ne" @@ "<=" :> "__le" @@
    ">=" :> "__ge" @@ "&&" :> "__aa" @@ "||" :> "__oo" @@ "++" :> "__pp" @@ "--" :> "__mm" @@
    "," :> "__cm" @@ "->*" :> "__rm" @@ "->" :> "__rf" @@ "()" :> "__cl" @@ "[]" :> "__vc"

Bug_OperatorName(token) == IF token = "!=" THEN "__nt" ELSE Codes[token]

OperatorName(token) == Codes[token]

Spellings ==
    [__as |-> "=", __nw |-> " new", __dl |-> " delete", __nwa |-> " new[]", __dla |-> " delete[]",
     __pl |-> "+", __mi |-> "-", __ml |-> "*", __dv |-> "/", __md |-> "%", __er |-> "^",
     __ad |-> "&", __or |-> "|", __co |-> "~", __nt |-> "!", __lt |-> "<", __gt |-> ">",
     __apl |-> "+=", __ami |-> "-=", __amu |-> "*=", __adv |-> "/=", __amd |-> "%=",
     __aer |-> "^=", __aad |-> "&=", __aor |-> "|=", __ls |-> "<<", __rs |-> ">>",
     __als |-> "<<=", __ars |-> ">>=", __eq |-> "==", __ne |-> "!=", __le |-> "<=", __ge |-> ">=",
     __aa |-> "&&", __oo |-> "||", __pp |-> "++", __mm |-> "--", __cm |-> ",", __rm |-> "->*",
     __rf |-> "*", __cl |-> "()", __vc |-> "[]"]

CMangler_GetOperator(n) == IF n \in DOMAIN Spellings THEN "operator" \o Spellings[n] ELSE NULL

-----------------------------------------------------------------------------
Nothing == [kind |-> "nothing"]

Answer(e, text) == asked' = e /\ name' = text /\ UNCHANGED copts

\* keep_size appends to what is there; here that is nothing.
CMangler_MangleType(e, keep_size) ==
    /\ e.kind = "type" /\ (keep_size => asked = Nothing)
    /\ Answer(e, (IF keep_size THEN name ELSE "") \o CMangler_MangleTypeAppend(e.type, e.qual))

CMangler_VTableName(e) ==
    e.kind = "vtable" /\ Answer(e, "__vt__" \o CMangler_MangleClassName(e.type))

CMangler_RTTIObjectName(e) ==
    e.kind = "rtti" /\ Answer(e, "__RTTI__" \o CMangler_MangleTypeAppend(e.type, e.qual))

CMangler_ConversionFuncName(e) ==
    /\ e.kind = "conversion"
    /\ Answer(e, IF e.type = Template THEN "__op" ELSE "__op" \o CMangler_MangleTypeAppend(e.type, e.qual))

CMangler_TemplateInstanceName(e) ==
    e.kind = "instance" /\ Answer(e, e.name \o CMangler_AppendTemplateArgumentList(e.args))

CMangler_FunctionLinkName(e) == e.kind = "function" /\ Answer(e, CMangler_MangleFunction(e))

CMangler_GetLinkName(e) == e.kind = "data" /\ Answer(e, CMangler_DataLinkName(e))

CMangler_OperatorName(e) == e.kind = "operator" /\ Answer(e, OperatorName(e.token))

Init == copts \in Options /\ asked = Nothing /\ name = ""

Next ==
    \E e \in Entity :
        \/ \E keep_size \in BOOLEAN : CMangler_MangleType(e, keep_size)
        \/ CMangler_VTableName(e) \/ CMangler_RTTIObjectName(e) \/ CMangler_ConversionFuncName(e)
        \/ CMangler_TemplateInstanceName(e) \/ CMangler_FunctionLinkName(e)
        \/ CMangler_GetLinkName(e) \/ CMangler_OperatorName(e)

Spec == Init /\ [][Next]_vars

-----------------------------------------------------------------------------
(***************************************************************************)
(* Not in the code: when two entities are the same to C++.  A qualifier of *)
(* a parameter itself makes no difference, nor does one on a reference     *)
(* unless the option always_vdispatch is set, nor the result of a function *)
(* that is no instance of a template; a list without types takes anything. *)
(***************************************************************************)
Named(nspace) == SelectSeq(nspace, LAMBDA n : n # NULL)

RECURSIVE CanonType(_)

CanonArg(a) ==
    IF a = oldstyle THEN elipsis
    ELSE IF a.type.type = "TYPEPOINTER"
    THEN FuncArg(CanonType([a.type EXCEPT !.qual = @ \ Q_CV]), a.qual)
    ELSE FuncArg(CanonType(a.type), {})

CanonType(t) ==
    CASE t.type = "TYPEPOINTER" ->
             [t EXCEPT !.target = CanonType(@),
                       !.qual = IF copts.always_vdispatch /\ "reference" \in @ THEN @ ELSE @ \ {"mutable"}]
      [] t.type \in {"TYPEMEMBERPOINTER", "TYPEARRAY"} -> [t EXCEPT !.target = CanonType(@)]
      [] t.type = "TYPEFUNC" ->
             [t EXCEPT !.args = [k \in DOMAIN @ |-> CanonArg(@[k])], !.functype = CanonType(@)]
      [] t.type \in {"TYPECLASS", "TYPEENUM"} -> [type |-> "named", name |-> t.name, nspace |-> Named(t.nspace)]
      [] OTHER -> t

CanonTemplate(args) ==
    [k \in DOMAIN args |-> IF args[k].type = "TPT_TYPE" THEN [args[k] EXCEPT !.of = CanonType(@)] ELSE args[k]]

Canon(e) ==
    CASE e.kind = "function" ->
             [kind |-> "function", name |-> e.name, nspace |-> Named(e.nspace),
              this |-> IF e.static \/ e.name = constructor_name THEN {} ELSE e.this,
              args |-> [k \in DOMAIN e.args |-> CanonArg(e.args[k])],
              inst |-> CanonTemplate(e.inst),
              result |-> IF e.inst # <<>> /\ (copts.new_mangler \/ e.conversion)
                         THEN <<CanonType(e.functype), e.qual>> ELSE <<>>]
      [] e.kind \in {"type", "vtable", "rtti", "conversion"} -> [e EXCEPT !.type = CanonType(@)]
      [] e.kind = "instance" -> [e EXCEPT !.args = CanonTemplate(@)]
      [] OTHER -> e

(***************************************************************************)
(* The encoding has to tell apart only types without a template parameter  *)
(* and with a name that is not cut.  Types without a name share one, the   *)
(* types IT_23 to IT_30 are written as a digit, which may also begin the   *)
(* length of a name, and of a parameter that points to a member of a class *)
(* the qualifiers are not those that count.                                *)
(***************************************************************************)
RECURSIVE RegularType(_)

RegularArg(a) == RegularType(a.type) /\ a.type.type # "TYPEMEMBERPOINTER"

RegularType(t) ==
    CASE t.type \in {"TYPECLASS", "TYPEENUM"} -> t.name # NULL /\ Len(Named(t.nspace)) < StackLimit
      [] t.type = "TYPESTRUCT" -> t.name # NULL \/ t.stype \in DOMAIN VectorType
      [] t.type = "TYPEINT" -> t.integral \notin {"IT_23", "IT_24", "IT_25", "IT_26", "IT_27", "IT_28", "IT_29", "IT_30"}
      [] t.type = "TYPETEMPLATE" -> FALSE
      [] t.type = "TYPEMEMBERPOINTER" -> RegularType(t.target) /\ RegularType(t.ty2)
      [] t.type \in {"TYPEPOINTER", "TYPEARRAY"} -> RegularType(t.target)
      [] t.type = "TYPEFUNC" -> RegularType(t.functype) /\ \A k \in DOMAIN t.args : RegularArg(t.args[k])
      [] OTHER -> TRUE

RegularTemplate(args) ==
    \A k \in DOMAIN args : IF args[k].type = "TPT_TYPE" THEN RegularType(args[k].of) ELSE ~args[k].dependent

Regular(e) ==
    CASE e.kind = "function" ->
             /\ Len(Named(e.nspace)) <= StackLimit
             /\ \A k \in DOMAIN e.args : RegularArg(e.args[k])
             /\ RegularTemplate(e.inst) /\ RegularType(e.functype)
      [] e.kind \in {"type", "vtable", "rtti", "conversion"} -> RegularType(e.type)
      [] e.kind = "instance" -> RegularTemplate(e.args)
      [] e.kind = "data" -> Len(Named(e.nspace)) <= StackLimit
      [] OTHER -> e # Nothing

\* An encoding of a type is no name by itself: it is compared with others.
BothRegular ==
    /\ Regular(asked) /\ Regular(asked')
    /\ asked.kind = "type" <=> asked'.kind = "type"

-----------------------------------------------------------------------------
\* Types; no stack of namespaces overflows, however deep a name lies.
TypeOK ==
    /\ copts \in [always_vdispatch : BOOLEAN, new_mangler : BOOLEAN]
    /\ asked \in Entity \cup {Nothing} /\ name \in STRING
    /\ asked.kind \in {"function", "data"} => Len(NameStack(asked.nspace, asked.name)) <= StackSize
    /\ asked.kind \in {"type", "vtable", "rtti"} /\ asked.type.type \in {"TYPECLASS", "TYPEENUM"} =>
          Len(NameStack(asked.type.nspace, asked.type.name)) <= StackSize

(***************************************************************************)
(* Two entities have the same name exactly if they are the same to C++.    *)
(* Whatever differs, shows; but neither the qualifiers of parameters nor   *)
(* the hidden arguments of constructors do, which differ between           *)
(* declarations of one entity.                                             *)
(***************************************************************************)
NamesTellApart ==
    [][BothRegular => (name' = name <=> Canon(asked') = Canon(asked))]_vars

\* No name of a type is the beginning of another's: where types follow each
\* other in a name, it is clear where each of them ends.
TypesArePrefixFree ==
    [][BothRegular /\ asked.kind = "type" /\ asked'.kind = "type" =>
           ~IsStrictPrefix(name, name')]_vars

(***************************************************************************)
(* What messages call an operator is the operator, as it is spelled.  Not  *)
(* so for ->, which is called operator*, and for <? and >?, which have no  *)
(* entry.                                                                  *)
(***************************************************************************)
OperatorsSpelled ==
    asked.kind = "operator" /\ asked.token \notin {"->", "<?", ">?"} =>
        CMangler_GetOperator(name) = "operator" \o asked.token

\* The small tables are large enough and agree: types, and the operators.
TablesAgree == TypeOK /\ OperatorsSpelled
=============================================================================
