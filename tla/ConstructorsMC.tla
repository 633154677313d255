--------------------------- MODULE ConstructorsMC ---------------------------
(* Kinds of base and member for TLC: every way a part is constructed.      *)
EXTENDS Constructors

MCSubs == { [ctor |-> "call", dtor |-> TRUE], [ctor |-> "none", dtor |-> TRUE],
            [ctor |-> "error", dtor |-> FALSE] }

MCMembers == { [shape |-> "scalar", ctor |-> "none", dtor |-> FALSE],
               [shape |-> "class", ctor |-> "call", dtor |-> TRUE],
               [shape |-> "class", ctor |-> "none", dtor |-> TRUE],
               [shape |-> "class", ctor |-> "error", dtor |-> FALSE],
               [shape |-> "array", ctor |-> "call", dtor |-> TRUE],
               [shape |-> "array", ctor |-> "error", dtor |-> TRUE] }
=============================================================================
