------------------------------ MODULE OSPathMC ------------------------------
(***************************************************************************)
(* All paths of up to four characters over a drive's letter in both cases, *)
(* a digit, both separators and a colon, and all paths of six under the    *)
(* prefix, which may be empty; paths that fill their buffer, names that    *)
(* are longer than theirs, and volumes and directories that together fill  *)
(* theirs.                                                                 *)
(***************************************************************************)
EXTENDS OSPath

Chars == {"c", "C", "1", "/", Sep, ":"}

UpTo(n) == UNION { [1..k -> Chars] : k \in 0..n }

MCStrings == UpTo(4) \cup { <<"/", "c">> \o s : s \in [1..4 -> Chars] }
                          \cup { <<"/", "/", "1">> \o s : s \in [1..4 -> {"1", "/"}] }
                          \cup { <<"/", "c", "/">> \o s : s \in [1..5 -> {"c", "/", ":"}] }

\* Behind a path: nothing, a drive's separator alone or with more, more than fits.
MCMemory == { <<>>, <<"1">>, <<Sep>>, <<Sep, "/", "1">>, <<Sep, "c", ":">>,
              <<Sep, "/", "/", "/">>, [k \in 1..9 |-> Sep] }

MCStale == { Zero, "1", "/" }

MCParts == { Unset, <<>>, <<"c">>, <<"c", ":">>, <<Sep>>, <<Sep, "1">>, <<"1", "1", "1", "1">>,
             <<Sep, "1", "1", "1">>, <<"1", "1", "1", "1", "1">> }

MCPrefixes == { <<"unset">>, <<>>, <<"/", "c">> }
MCRoots == { <<"unset">>, <<"c", ":">>, <<"C", ":", Sep>> }
=============================================================================
