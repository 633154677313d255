---------------------------- MODULE TypeNamesMC ----------------------------
(***************************************************************************)
(* Every kind of type, alone and below pointers, references, pointers to   *)
(* members, arrays and functions; functions with every kind of parameter;  *)
(* names that are the beginning of one another; namespaces that are just   *)
(* deep enough for the limit and deeper.                                   *)
(***************************************************************************)
EXTENDS TypeNames

IntT == Integral("IT_INT")
CharT == Integral("IT_CHAR")
Foo == Class("Foo", <<>>)
Const == {"const"}

Named0 == { Foo, Class("Foo1", <<>>), Class("Foo", <<"Ns">>), Class("Ns", <<"Foo", NULL>>),
            Enum("Num", <<"Foo">>), Class("Foo", <<"B", "A">>), Class("Foo", <<"C", "B", "A">>),
            Class("Foo", <<"C", "B", "D">>), Class(NULL, <<>>), Enum(NULL, <<"Ns">>) }

Simple == { Void } \cup { Integral(it) : it \in DOMAIN IntegralType }
          \cup { Struct("Vec", st) : st \in DOMAIN VectorType }
          \cup { Struct("Rec", "STRUCT_TYPE_STRUCT"), Struct("Uni", "STRUCT_TYPE_UNION"),
                 Struct(NULL, "STRUCT_TYPE_STRUCT"), Struct(NULL, "STRUCT_TYPE_UNION") }
          \cup Named0 \cup { Template }

Few == { Void, IntT, CharT, Integral("IT_UCHAR"), Foo, Class("Foo", <<"Ns">>), Struct("Rec", "STRUCT_TYPE_STRUCT") }

Pointers(ts) == { Pointer(t, q) : t \in ts, q \in {{}, Const, {"reference"}, {"reference", "mutable"}} }
Members(ts) == { MemberPointer(t, c, q) : t \in ts, c \in {Foo, Template}, q \in {{}, Const} }
Arrays(ts) == { Array(t, n) : t \in ts, n \in {0, 12} }

Compound == Pointers(Few) \cup Members({IntT, Foo}) \cup Arrays(Few) \cup Pointers(Pointers({IntT, Foo}))
            \cup Arrays(Arrays({IntT})) \cup Pointers(Arrays({CharT}))

Args == { FuncArg(t, {}) : t \in {IntT, CharT, Foo, Class("Foo", <<"Ns">>), Array(IntT, 2)} }
        \cup { FuncArg(IntT, Const), FuncArg(MemberPointer(IntT, Foo, {}), {}) }
        \cup { FuncArg(Pointer(IntT, p), q) : p \in {{}, Const, {"reference"}}, q \in {{}, Const} }
        \cup { FuncArg(Pointer(Func(<<FuncArg(IntT, Const)>>, Void, {}), {}), {}) }

ArgLists == { <<>>, <<oldstyle>>, <<elipsis>> } \cup { <<a>> : a \in Args }
            \cup { <<a, b>> : a \in { FuncArg(IntT, {}), FuncArg(Pointer(IntT, {}), Const) },
                              b \in { FuncArg(IntT, {}), FuncArg(IntT, Const), FuncArg(Foo, {}), elipsis } }

Functions == { Func(a, t, {}) : a \in ArgLists, t \in {IntT, Pointer(IntT, {})} }

ByTemplate == { <<[type |-> "TPT_NONTYPE", dependent |-> FALSE, intval |-> 12]>>,
                <<[type |-> "TPT_NONTYPE", dependent |-> TRUE, intval |-> 0]>>,
                <<[type |-> "TPT_TYPE", of |-> IntT, qual |-> {}],
                  [type |-> "TPT_TYPE", of |-> Pointer(IntT, {}), qual |-> Const]>> }

F == [kind |-> "function", name |-> "f", nspace |-> <<>>, member |-> FALSE, static |-> FALSE, this |-> {},
      args |-> <<>>, inst |-> <<>>, functype |-> IntT, qual |-> {}, conversion |-> FALSE, vbases |-> FALSE]
Method == [F EXCEPT !.nspace = <<"Foo">>, !.member = TRUE]
Ctor == [Method EXCEPT !.name = constructor_name]

FunctionEntities ==
    { [F EXCEPT !.args = a] : a \in ArgLists } \cup { [Method EXCEPT !.args = a] : a \in ArgLists }
    \cup { [Method EXCEPT !.this = Const, !.static = s] : s \in BOOLEAN }
    \cup { [Ctor EXCEPT !.args = a, !.vbases = v] : a \in ArgLists, v \in BOOLEAN }
    \cup { [Method EXCEPT !.name = destructor_name], [Method EXCEPT !.name = "__pl"] }
    \cup { [F EXCEPT !.nspace = n] : n \in { <<"Foo">>, <<"Foo", "Ns">>, <<NULL, "Ns">>, <<"C", "B", "A">>,
                                            <<"C", "B", "A", "D">>, <<"C", "B", "A", "E">> } }
    \cup { [F EXCEPT !.inst = i, !.functype = t] : i \in ByTemplate, t \in {IntT, Foo} }
    \cup { [Method EXCEPT !.name = "__op", !.inst = i, !.functype = t, !.conversion = TRUE]
             : i \in ByTemplate, t \in {IntT, Foo} }

MCEntity ==
    { [kind |-> "type", type |-> t, qual |-> q] : t \in Simple \cup Compound, q \in {{}, Const, Q_CV} }
    \cup { [kind |-> "type", type |-> t, qual |-> {}] : t \in Functions }
    \cup { [kind |-> k, type |-> t, qual |-> {}] : k \in {"rtti", "conversion"}, t \in Few \cup {Template} }
    \cup { [kind |-> "vtable", type |-> t, qual |-> {}] : t \in { c \in Named0 : c.type = "TYPECLASS" } }
    \cup { [kind |-> "instance", name |-> n, args |-> a] : n \in {"Foo", "f"}, a \in ByTemplate }
    \cup { [kind |-> "data", name |-> "x", nspace |-> n] : n \in { <<>>, <<"Foo">>, <<NULL, "Foo", "Ns">> } }
    \cup { [kind |-> "operator", token |-> t] : t \in DOMAIN Codes }
    \cup FunctionEntities

MCOptions == { [always_vdispatch |-> b, new_mangler |-> b] : b \in BOOLEAN }
=============================================================================
