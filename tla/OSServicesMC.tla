---------------------------- MODULE OSServicesMC ----------------------------
(***************************************************************************)
(* Directories of up to four entries: a file, a directory, one that is     *)
(* passed over for its name and one for its length.  Two or three calls of *)
(* OS_Execute, each with none to two arguments: empty, plain, with a space, *)
(* with a quote first or further on; each stream is redirected or not.     *)
(***************************************************************************)
EXTENDS OSServices

CONSTANTS f, d, up, long

MCName == {f, d, up, long}
MCEntry(n) == [name |-> n, kind |-> IF n \in {d, up} THEN "dir" ELSE "file",
               dot |-> n = up, short |-> n # long]
MCDirectory == UNION { [1..n -> {MCEntry(x) : x \in MCName}] : n \in 1..4 }

MCArguments ==
    LET one == { [len |-> 0, shape |-> "plain"], [len |-> 1, shape |-> "quote first"] }
               \cup [len : {3}, shape : {"plain", "space", "quote", "quote first"}]
    IN  UNION { [1..n -> one] : n \in 0..2 }
=============================================================================
