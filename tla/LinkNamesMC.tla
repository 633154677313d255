---------------------------- MODULE LinkNamesMC ----------------------------
(***************************************************************************)
(* A program with a function f, template instances g and h that name other *)
(* objects in their argument lists (g names f and a scoped datum, h names  *)
(* g through an alias and a label), a template class C, a pascal function, *)
(* and two local statics of the same identifier inside the instance h.     *)
(***************************************************************************)
EXTENDS LinkNames

CONSTANTS f, g, h, p, d, s, t, al, lab, C, x, y,
    nf, ng, nh, np, nd, ns, nlab, nC

MCFunction == {f, g, h, p}
MCData == {d, s, t}
MCAlias == {al}
MCOther == {lab}
MCClass == {C}
MCAliasTarget == [o \in MCAlias |-> g]

Plain_(k) == [kind |-> k, ref |-> NULL]
Ref_(k, o) == [kind |-> k, ref |-> o]

MCTemplArgs ==
    [o \in MCFunction \cup MCClass |->
        CASE o = g -> << Plain_("int"), Ref_("objref", f), Ref_("objaccess", d) >>
          [] o = h -> << Ref_("objaccess", al), Plain_("type"), Ref_("objref", lab) >>
          [] o = p -> << Ref_("objref", f) >>
          [] o = C -> << Ref_("objref", p), Ref_("objaccess", f) >>
          [] OTHER -> <<>>]

MCMangled == {f, g, h, d}
MCPascal == {p}
MCScoped == {d}
MCLocalVar == {s, t}
MCOwnerOf == [v \in MCLocalVar |-> h]
MCVarName ==
    [o \in MCFunction \cup MCData \cup MCAlias \cup MCOther \cup MCClass |->
        CASE o \in {f, al} -> nf [] o = g -> ng [] o = h -> nh
          [] o = p -> np [] o = d -> nd [] o \in {s, t} -> ns
          [] o = lab -> nlab [] o = C -> nC]
MCIdentifier == {nf, ng, nh, np, nd, ns, nlab, nC}
MCMangledType == {x, y}
MCDependentType == {y}
MCAge ==
    [o \in MCFunction \cup MCData \cup MCAlias \cup MCOther \cup MCClass |->
        CASE o \in {f, d, s, t, lab} -> 0 [] o \in {g, p} -> 1
          [] o \in {al, h, C} -> 2]
MCThunkOffset == { <<4, 0, -1>>, <<4, 0, 8>>, <<4, 8, 8>> }
MCStringNum == {1, 2}
MCLocalNum == [v \in MCLocalVar |-> IF v = s THEN 0 ELSE 1]
MCVirtual == {g}
=============================================================================
