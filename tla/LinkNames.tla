------------------------------ MODULE LinkNames ------------------------------
(***************************************************************************)
(* The link names of source/CMangler.c.  Every name is assembled in one    *)
(* global buffer, name_mangle_list, and CMangler_GetLinkName, which also   *)
(* assembles in that buffer, is called from inside the assembly of another *)
(* name.  The code is sequential; its procedure calls are the frames of    *)
(* `stack'.  A name is a sequence of tokens, one for each piece the code   *)
(* appends; the spelling of a piece (a type, a signature) is a token.      *)
(***************************************************************************)
EXTENDS Integers, Sequences, FiniteSets

CONSTANTS
    Function,    \* objects of datatype DFUNC or DVFUNC
    Data,        \* objects of datatype DDATA
    Alias,       \* objects of datatype DALIAS
    Other,       \* objects of datatype DLOCAL, DABSOLUTE or DLABEL
    Class,       \* template classes whose instance name is asked for
    AliasTarget, \* u.alias.object of an alias, its chain followed to the end
    TemplArgs,   \* template arguments of a function's inst or of a class
    Mangled,     \* Q_MANGLE_NAME is set (and the object is not ::main)
    Pascal,      \* is_pascal_object, and not a member of a class
    Scoped,      \* data objects inside a named namespace
    LocalVar,    \* data objects that are local statics
    OwnerOf,     \* the function a local static belongs to
    LocalNum,    \* the varnum its declaration passes
    Virtual,     \* the functions that are overridden through thunks
    VarName,     \* the identifier of an object, or the name of a template class
    Identifier,  \* the identifiers of the program
    DependentType, \* types that depend on a template argument
    MangledType, \* types whose mangled spelling is asked for
    Age,         \* when an object or a template class came into being
    ThunkOffset, \* <<this_delta, return_delta, ctoroffset>> triples
    StringNum,   \* the varnum arguments of local strings
    MaxGiven     \* bound: how many answers `given' remembers

VARIABLES
    linkname,    \* u.func.linkname / u.data.linkname, NULL when not yet set
    buf,         \* name_mangle_list, emptied by "size = 0"
    stack,       \* the procedures under way, the innermost last
    given        \* the names handed to callers: <<request, name>> pairs

vars == <<linkname, buf, stack, given>>

NULL == <<>>

Object == Function \cup Data \cup Alias \cup Other
Named == Function \cup Data

(***************************************************************************)
(* A template argument: only an EOBJREF, or an EOBJACCESS of an OT_OBJECT, *)
(* carries an object whose link name is spelled inside the argument list.  *)
(***************************************************************************)
PlainArg == {"int", "member", "dependent", "type"}
RefArg == {"objref", "objaccess"}
TemplArg == [kind : PlainArg, ref : {NULL}] \cup [kind : RefArg, ref : Object]

ASSUME ObjectAssumption ==
    /\ Function \cap (Data \cup Alias \cup Other \cup Class) = {}
    /\ Data \cap (Alias \cup Other \cup Class) = {}
    /\ Alias \cap (Other \cup Class) = {} /\ Other \cap Class = {}
    /\ AliasTarget \in [Alias -> Function \cup Data \cup Other]
    /\ TemplArgs \in [Function \cup Class -> Seq(TemplArg)]
    /\ Mangled \subseteq Named /\ Pascal \subseteq Function
    /\ Scoped \subseteq Data /\ LocalVar \subseteq Data
    /\ OwnerOf \in [LocalVar -> Function]
    /\ VarName \in [Object \cup Class -> Identifier]
    /\ DependentType \subseteq MangledType
    /\ ThunkOffset \subseteq Int \X Int \X Int
    /\ LocalNum \in [LocalVar -> Int] /\ Virtual \subseteq Function
    /\ StringNum \subseteq Int /\ MaxGiven \in Nat
    /\ Age \in [Object \cup Class -> Nat]

\* A DALIAS is followed to the object it stands for.
Resolve(o) == IF o \in Alias THEN AliasTarget[o] ELSE o

(***************************************************************************)
(* An instance is made from arguments that already exist, so the objects   *)
(* among them are older than it is; none of them is a local static, which  *)
(* has no linkage.                                                         *)
(***************************************************************************)
ASSUME ArgumentsAreOlder ==
    \A f \in Function \cup Class : \A i \in 1..Len(TemplArgs[f]) :
        TemplArgs[f][i].kind \in RefArg =>
            /\ Age[Resolve(TemplArgs[f][i].ref)] < Age[f]
            /\ Resolve(TemplArgs[f][i].ref) \notin LocalVar

(***************************************************************************)
(* The requests the rest of the compiler makes of this file.  `num' is the *)
(* varnum of a local, the offsets of a thunk, the class of a covariant     *)
(* name; NULL where there is none.                                         *)
(***************************************************************************)
LinkRequest == [op : {"link"}, obj : Function, num : {NULL}]
ListRequest ==
    LinkRequest
      \cup [op : {"instance"}, obj : Class, num : {NULL}]
      \cup [op : {"local"}, obj : LocalVar, num : Int]
      \cup [op : {"string"}, obj : Function, num : StringNum]
AfterLinkRequest ==
    [op : {"thunk"}, obj : Function, num : ThunkOffset]
      \cup [op : {"covariant"}, obj : Function, num : MangledType]
Request == ListRequest \cup AfterLinkRequest

\* CheckTemplateArguments, AppendTemplateArgumentList, or a GetLinkName
\* that a thunk or covariant name starts with, and how far it has come.
Frame == [req : ListRequest, phase : {"check", "append"}, i : Nat \ {0}]
           \cup [req : AfterLinkRequest, phase : {"await"}, i : {1}]

-----------------------------------------------------------------------------
\* The function whose template arguments a request spells, or the class.
Spelled(req) == IF req.op = "local" THEN OwnerOf[req.obj] ELSE req.obj

Args(req) == TemplArgs[Spelled(req)]

\* One piece of a name: what was appended, and what it spells.
Piece(text, of) == << [text |-> text, of |-> of] >>

Ident(o) == Piece("ident", <<VarName[o]>>)

\* What MangleFunction or TemplateInstanceName writes before the arguments.
NameHead(req) ==
    CASE req.op = "local"  -> Piece("@LOCAL@", NULL) \o Ident(Spelled(req))
      [] req.op = "string" -> Piece("@STRING@", NULL) \o Ident(Spelled(req))
      [] OTHER             -> Ident(Spelled(req))

\* The number of a local or of a string: none for varnum <= 0, else varnum - 1.
NumberSuffix(num) == IF num > 0 THEN Piece("@", <<num - 1>>) ELSE <<>>

\* What is written after the arguments: "__", the scope, the signature.
Signature(f) == Piece("__F", <<f>>)

NameTail(req) ==
    CASE req.op = "instance" -> <<>>
      [] req.op = "link"     -> Signature(req.obj)
      [] req.op = "local"    -> Signature(Spelled(req))
                                  \o Piece("@", NULL) \o Ident(req.obj)
                                  \o NumberSuffix(req.num)
      [] req.op = "string"   -> Signature(req.obj) \o NumberSuffix(req.num)

\* One argument of the list, with the bracket or comma on either side of it.
ArgText(args, i, name) ==
    Piece(IF i = 1 THEN "<" ELSE ",", NULL)
      \o (IF args[i].kind \in RefArg THEN Piece("&", NULL) \o name
                                     ELSE Piece(args[i].kind, NULL))
      \o (IF i = Len(args) THEN Piece(">", NULL) ELSE <<>>)


\* "@-this@", "@-this@ctor@" or "@-this@ctor@return@".
ThunkPrefix(num) ==
    IF num[2] = 0
    THEN IF num[3] < 0 THEN Piece("@", <<-num[1]>>)
                       ELSE Piece("@", <<-num[1], num[3]>>)
    ELSE Piece("@", <<-num[1], num[3], num[2]>>)

AfterLinkName(req, name) ==
    IF req.op = "thunk" THEN ThunkPrefix(req.num) \o name
                        ELSE name \o Piece("@@", <<req.num>>)

\* CMangler_DataLinkName; outside every namespace it is the plain identifier.
DataName(d) ==
    IF d \in Scoped /\ d \in Mangled THEN Ident(d) \o Piece("__", <<d>>)
                                     ELSE Ident(d)

\* The part of a guarded variable's name that its guard's name keeps: the scan
\* stops at the first '@', and what precedes it is dropped with "@LOCAL@".
AtSign == {"@", "@@", "@LOCAL@", "@STRING@", "@GUARD@"}
FirstIsLocal(name, k) ==
    name[k].text = "@LOCAL@" /\ \A j \in 1..(k - 1) : name[j].text \notin AtSign

GuardText(name) ==
    IF \E k \in 1..Len(name) : FirstIsLocal(name, k)
    THEN SubSeq(name, (CHOOSE k \in 1..Len(name) : FirstIsLocal(name, k)) + 1, Len(name))
    ELSE name

GuardName(name) == Piece("@GUARD@", NULL) \o GuardText(name)

-----------------------------------------------------------------------------
Known(o) == Resolve(o) \in Named => linkname[Resolve(o)] # NULL

\* What GetLinkName returns for a known object.
LinkName(o) == IF Resolve(o) \in Named THEN linkname[Resolve(o)]
                                       ELSE Ident(Resolve(o))

\* FunctionLinkName keeps the plain identifier of these.
Plain(f) == f \in Pascal \/ f \notin Mangled

NeedsName(arg) == arg.kind \in RefArg /\ ~Known(arg.ref)

Bug_StartFrame(req) ==
    [req |-> req, i |-> 0,
     phase |-> IF req.op \in {"thunk", "covariant"} THEN "await" ELSE "check"]

StartFrame(req) ==
    [req |-> req, i |-> 1,
     phase |-> IF req.op \in {"thunk", "covariant"} THEN "await" ELSE "check"]

Top == stack[Len(stack)]
TopArgs == Args(Top.req)
Running(phase) == stack # <<>> /\ Top.phase = phase

Call(req) == stack' = Append(stack, StartFrame(req))
Return == stack' = SubSeq(stack, 1, Len(stack) - 1)

Bug_Advance == stack' = stack
Advance == stack' = [stack EXCEPT ![Len(stack)].i = @ + 1]

Assign(o, name) == linkname' = [linkname EXCEPT ![o] = name]
Remember(req, name) == given' = given \cup { <<req, name>> }

Idle == stack = <<>>
MayRemember == Cardinality(given) < MaxGiven

\* GetLinkName of an object without a name: DataLinkName, or FunctionLinkName.
LinkData(d) ==
    /\ buf' = IF d \in Scoped THEN DataName(d) ELSE <<>>
    /\ Assign(d, DataName(d))
    /\ UNCHANGED <<stack, given>>

LinkFunction(f) ==
    /\ Call([op |-> "link", obj |-> f, num |-> NULL])
    /\ UNCHANGED <<linkname, buf, given>>

LinkObject(o) ==
    \/ Resolve(o) \in Data /\ LinkData(Resolve(o))
    \/ Resolve(o) \in Function /\ LinkFunction(Resolve(o))

-----------------------------------------------------------------------------
(***************************************************************************)
(* The requests.  A local static is named when it is declared, so nothing  *)
(* asks for its link name before SetupLocalVarName has set it.             *)
(***************************************************************************)
Bug_GetLinkName(o) ==
    /\ Idle
    /\ Resolve(o) \in LocalVar => Known(o)
    /\ IF Resolve(o) \in Other THEN UNCHANGED vars ELSE LinkObject(o)

GetLinkName(o) ==
    /\ Idle
    /\ Resolve(o) \in LocalVar => Known(o)
    /\ IF Known(o) THEN UNCHANGED vars ELSE LinkObject(o)

SetupLocalVarName(d) ==
    /\ Idle /\ linkname[d] = NULL
    /\ Call([op |-> "local", obj |-> d, num |-> LocalNum[d]])
    /\ UNCHANGED <<linkname, buf, given>>

Ask(req) ==
    /\ Idle /\ MayRemember
    /\ Call(req)
    /\ UNCHANGED <<linkname, buf, given>>

TemplateInstanceName(c) == Ask([op |-> "instance", obj |-> c, num |-> NULL])
SetupLocalStringName(f, varnum) == Ask([op |-> "string", obj |-> f, num |-> varnum])
ThunkName(f, offsets) == Ask([op |-> "thunk", obj |-> f, num |-> offsets])
CovariantFunctionName(f, t) == Ask([op |-> "covariant", obj |-> f, num |-> t])

\* The assertion on guarded->u.data.linkname is the guard linkname[d] # NULL.
SetupGuardVarName(d) ==
    /\ Idle /\ MayRemember /\ linkname[d] # NULL
    /\ buf' = GuardName(linkname[d])
    /\ Remember([op |-> "guard", obj |-> d, num |-> NULL], buf')
    /\ UNCHANGED <<linkname, stack>>

\* VTableName, RTTIObjectName, ConversionFuncName: a prefix and a spelled type.
TypeName(prefix, t) ==
    /\ Idle /\ MayRemember
    /\ buf' = Piece(prefix, <<t>>)
    /\ Remember([op |-> prefix, obj |-> t, num |-> NULL], buf')
    /\ UNCHANGED <<linkname, stack>>

VTableName(t) == TypeName("__vt__", t)
RTTIObjectName(t) == TypeName("__RTTI__", t)

ConversionFuncName(t) ==
    \/ t \notin DependentType /\ TypeName("__op", t)
    \/ /\ Idle /\ MayRemember /\ t \in DependentType
       /\ Remember([op |-> "__op", obj |-> t, num |-> NULL], Piece("__op", NULL))
       /\ UNCHANGED <<linkname, buf, stack>>

-----------------------------------------------------------------------------
(***************************************************************************)
(* The steps of the procedure on top of the stack.                         *)
(***************************************************************************)
\* CheckTemplateArguments names every object the list will spell.
Bug_CheckArg ==
    /\ Running("check") /\ Top.i <= Len(TopArgs)
    /\ IF TopArgs[Top.i].kind = "objref" /\ NeedsName(TopArgs[Top.i])
       THEN LinkObject(TopArgs[Top.i].ref)
       ELSE Advance /\ UNCHANGED <<linkname, buf, given>>

CheckArg ==
    /\ Running("check") /\ Top.i <= Len(TopArgs)
    /\ IF NeedsName(TopArgs[Top.i])
       THEN LinkObject(TopArgs[Top.i].ref)
       ELSE Advance /\ UNCHANGED <<linkname, buf, given>>

\* "name_mangle_list.size = 0", then the name as far as its argument list.
BeginName ==
    /\ Running("check") /\ Top.i > Len(TopArgs)
    /\ ~(Top.req.op = "link" /\ Plain(Top.req.obj))
    /\ buf' = NameHead(Top.req)
    /\ stack' = [stack EXCEPT ![Len(stack)] =
                              [req |-> Top.req, phase |-> "append", i |-> 1]]
    /\ UNCHANGED <<linkname, given>>

KeepIdentifier ==
    /\ Running("check") /\ Top.i > Len(TopArgs)
    /\ Top.req.op = "link" /\ Plain(Top.req.obj)
    /\ buf' = <<>>
    /\ Assign(Top.req.obj, Ident(Top.req.obj))
    /\ Return
    /\ UNCHANGED given

\* AppendTemplateArgumentList asks GetLinkName again, in the middle of the name.
AppendArg ==
    /\ Running("append") /\ Top.i <= Len(TopArgs)
    /\ IF NeedsName(TopArgs[Top.i])
       THEN LinkObject(TopArgs[Top.i].ref)
       ELSE /\ buf' = buf \o ArgText(TopArgs, Top.i,
                                     IF TopArgs[Top.i].kind \in RefArg
                                     THEN LinkName(TopArgs[Top.i].ref) ELSE NULL)
            /\ Advance
            /\ UNCHANGED <<linkname, given>>

FinishName ==
    /\ Running("append") /\ Top.i > Len(TopArgs)
    /\ buf' = buf \o NameTail(Top.req)
    /\ \/ /\ Top.req.op \in {"link", "local"}
          /\ Assign(Top.req.obj, buf')
          /\ UNCHANGED given
       \/ /\ Top.req.op \in {"instance", "string"}
          /\ Remember(Top.req, buf')
          /\ UNCHANGED linkname
    /\ Return

\* ThunkName and GetCovariantFunctionName empty the buffer after GetLinkName.
Bug_AwaitLink ==
    /\ Running("await")
    /\ IF Known(Top.req.obj)
       THEN /\ buf' = buf \o AfterLinkName(Top.req, LinkName(Top.req.obj))
            /\ Remember(Top.req, buf')
            /\ Return
            /\ UNCHANGED linkname
       ELSE LinkObject(Top.req.obj)

AwaitLink ==
    /\ Running("await")
    /\ IF Known(Top.req.obj)
       THEN /\ buf' = AfterLinkName(Top.req, LinkName(Top.req.obj))
            /\ Remember(Top.req, buf')
            /\ Return
            /\ UNCHANGED linkname
       ELSE LinkObject(Top.req.obj)

-----------------------------------------------------------------------------
Init ==
    /\ linkname = [o \in Named |-> NULL]
    /\ buf = <<>> /\ stack = <<>> /\ given = {}

EntryPoint ==
    \/ \E o \in Object : GetLinkName(o)
    \/ \E d \in LocalVar : SetupLocalVarName(d)
    \/ \E c \in Class : TemplateInstanceName(c)
    \/ \E f \in Function, n \in StringNum : SetupLocalStringName(f, n)
    \/ \E f \in Virtual, offsets \in ThunkOffset : ThunkName(f, offsets)
    \/ \E f \in Virtual, t \in MangledType : CovariantFunctionName(f, t)
    \/ \E d \in Data : SetupGuardVarName(d)
    \/ \E t \in MangledType :
          VTableName(t) \/ RTTIObjectName(t) \/ ConversionFuncName(t)

Step ==
    \/ CheckArg \/ BeginName \/ KeepIdentifier
    \/ AppendArg \/ FinishName \/ AwaitLink

Next == EntryPoint \/ Step

\* The code is sequential: a call that has begun is executed to its end.
Spec == Init /\ [][Next]_vars /\ WF_vars(Step)

-----------------------------------------------------------------------------
Text == {"ident", "<", ",", ">", "&", "__", "__F", "@", "@@", "@LOCAL@", "@STRING@",
         "@GUARD@", "__vt__", "__RTTI__", "__op"} \cup PlainArg
Spelling == Int \cup Identifier \cup Function \cup Data \cup MangledType
Token == [text : Text, of : Seq(Spelling)]

\* State types; a frame's index never leaves the list it walks.
TypeOK ==
    /\ linkname \in [Named -> Seq(Token)]
    /\ buf \in Seq(Token)
    /\ stack \in Seq(Frame)
    /\ \A k \in 1..Len(stack) : stack[k].i <= Len(Args(stack[k].req)) + 1
    /\ \A answer \in given : answer[2] \in Seq(Token)

(***************************************************************************)
(* The names as a definition: what each request spells when no buffer is   *)
(* shared.  `names' holds the link names of the objects among the          *)
(* arguments.                                                              *)
(***************************************************************************)
Texts(args, names) ==
    LET text[n \in 0..Len(args)] ==
            IF n = 0 THEN <<>> ELSE text[n - 1] \o ArgText(args, n, names[n])
    IN  text

ListText(args, names) == Texts(args, names)[Len(args)]

Assembled(req, names) ==
    NameHead(req) \o ListText(Args(req), names) \o NameTail(req)

RefLinkName[o \in Object] ==
    LET target == Resolve(o)
        names == [i \in 1..Len(TemplArgs[target]) |->
                    IF TemplArgs[target][i].kind \in RefArg
                    THEN RefLinkName[TemplArgs[target][i].ref] ELSE NULL]
    IN  CASE target \in Other -> Ident(target)
          [] target \in Data -> DataName(target)
          [] target \in Function /\ Plain(target) -> Ident(target)
          [] OTHER -> Assembled([op |-> "link", obj |-> target, num |-> NULL], names)

RefNames(args) ==
    [i \in 1..Len(args) |->
        IF args[i].kind \in RefArg THEN RefLinkName[args[i].ref] ELSE NULL]

RefName(req) ==
    CASE req.op \in {"instance", "local", "string"} -> Assembled(req, RefNames(Args(req)))
      [] req.op \in {"thunk", "covariant"} -> AfterLinkName(req, RefLinkName[req.obj])
      [] req.op = "guard" -> GuardName(linkname[req.obj])
      [] req.op = "__op" /\ req.obj \in DependentType -> Piece("__op", NULL)
      [] OTHER -> Piece(req.op, <<req.obj>>)

(***************************************************************************)
(* Every name handed out or cached is the name of its object, however the  *)
(* calls that share name_mangle_list were nested and ordered.              *)
(***************************************************************************)
NamesExact ==
    /\ \A o \in Named \ LocalVar : linkname[o] \in {NULL, RefLinkName[o]}
    /\ \A d \in LocalVar : linkname[d] # NULL =>
          linkname[d] = RefName([op |-> "local", obj |-> d, num |-> LocalNum[d]])
    /\ \A answer \in given : answer[2] = RefName(answer[1])

\* The linker sees one symbol per entity: two entities never share a name.
\* Conversions to dependent types all go by "__op" and are left out.
NamesDistinct ==
    LET Linked == { <<[op |-> "link", obj |-> o, num |-> NULL], linkname[o]>> :
                      o \in {x \in Named : linkname[x] # NULL} }
        Answers == {a \in given : a[1].op = "__op" => a[1].obj \notin DependentType}
    IN  \A a, b \in Linked \cup Answers : a[2] = b[2] => a[1] = b[1]

\* The names of the program: each as it has to be, and no two the same.
NamesRight == NamesExact /\ NamesDistinct

\* While an argument list is being spelled, no nested call empties or
\* overwrites name_mangle_list: a step only appends to it.
Extends(s, t) == Len(s) <= Len(t) /\ \A k \in 1..Len(s) : t[k] = s[k]

BufferOnlyGrows == [][Running("append") => Extends(buf, buf')]_vars

\* A link name, once some object file may hold it, never changes.
LinkNameStable ==
    [][\A o \in Named : linkname[o] # NULL => linkname'[o] = linkname[o]]_vars

\* Every call returns: the nesting of GetLinkName comes to an end.
EveryCallReturns == (stack # <<>>) ~> (stack = <<>>)

-----------------------------------------------------------------------------
(***************************************************************************)
(* The strengthening the proofs need.                                      *)
(***************************************************************************)
\* The pre-pass is ahead of the list: what it has passed is named, and when
\* the list is spelled all of it is.
PrepassDone ==
    \A k \in 1..Len(stack) :
        /\ stack[k].phase = "check" =>
              \A j \in 1..(stack[k].i - 1) : ~NeedsName(Args(stack[k].req)[j])
        /\ stack[k].phase = "append" =>
              \A j \in 1..Len(Args(stack[k].req)) : ~NeedsName(Args(stack[k].req)[j])

\* An object whose name is being assembled has none yet.
NotYetNamed ==
    \A k \in 1..Len(stack) :
        stack[k].req.op \in {"link", "local"} => linkname[stack[k].req.obj] = NULL

\* A nested call links an object older than what its callers spell.
NestedAreOlder ==
    \A k \in 1..Len(stack) : \A j \in 1..(k - 1) :
        /\ stack[k].req.op = "link"
        /\ stack[j].phase # "await" => Age[stack[k].req.obj] < Age[Spelled(stack[j].req)]

IInv == TypeOK /\ PrepassDone /\ NotYetNamed /\ NestedAreOlder

\* Only the innermost call is spelling an argument list, and not for a function
\* that keeps its identifier; a local is numbered by its own declaration.
OnlyTopSpells ==
    \A k \in 1..Len(stack) :
        /\ stack[k].phase = "append" =>
              /\ k = Len(stack)
              /\ ~(stack[k].req.op = "link" /\ Plain(stack[k].req.obj))
        /\ stack[k].req.op = "local" =>
              stack[k].req.num = LocalNum[stack[k].req.obj]

\* What has been spelled of a name is the beginning of what it has to be.
BufferExact ==
    Running("append") =>
        buf = NameHead(Top.req)
                \o Texts(Args(Top.req), RefNames(Args(Top.req)))[Top.i - 1]

\* A guard's name was taken from a variable that has its name.
GuardedIsNamed ==
    \A answer \in given : answer[1].op = "guard" =>
        answer[1].obj \in Data /\ linkname[answer[1].obj] # NULL

ExactInv ==
    IInv /\ NamesExact /\ OnlyTopSpells /\ BufferExact /\ GuardedIsNamed
=============================================================================
