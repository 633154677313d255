----------------------------- MODULE OSServices -----------------------------
(***************************************************************************)
(* The two services of source/OS/MsDos.c that are a sequence of calls of   *)
(* the system: the reading of directories (OSDir) and the execution of a   *)
(* program (OSExecute).  They share no variable, and a call of one is over *)
(* when the other is called.                                               *)
(***************************************************************************)
EXTENDS OSExecute

CONSTANTS Name, Directory, NULL, Blank, Nothing, CloseFailures

VARIABLES dir, data, rest, reading, answer, failures

directory == <<dir, data, rest, reading, answer, failures>>

Dir == INSTANCE OSDir

ASSUME ServicesAssumption == Dir!DirAssumption

ServicesInit == Init /\ Dir!Init

\* Bound: a behaviour uses one of the two, since nothing passes between them.
Executes(step) == step /\ Dir!Init /\ UNCHANGED directory
Reads(step) == step /\ Init /\ UNCHANGED vars

ServicesNext == Executes(Next) \/ Reads(Dir!Next)

ServicesSpec ==
    /\ ServicesInit /\ [][ServicesNext]_<<vars, directory>>
    /\ WF_<<vars, directory>>(Executes(Step))
    /\ WF_<<vars, directory>>(Reads(Dir!Round))

-----------------------------------------------------------------------------
\* Types of both: no uninitialized handle is made a standard one, and the
\* buffer of a search is there exactly as long as the search is open.
TypesOK == TypeOK /\ Dir!TypeOK

\* Whatever fails, the child has the files for its standard streams and the
\* parent has its own handles back.
HandlesKept == TypesOK /\ RedirectionsEnd

\* Each readable entry of a directory is answered once, in order and with its
\* own kind, as AbstractDir promises.
Implements == Dir!Implements

\* Every call returns, whatever fails and whatever there is to pass over; only
\* an argument with a quote is copied for ever.
CallsReturn == Returns /\ Dir!ReadReturns
=============================================================================
