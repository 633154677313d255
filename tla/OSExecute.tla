----------------------------- MODULE OSExecute -----------------------------
(***************************************************************************)
(* OS_Execute and RedirectStream of source/OS/MsDos.c: a command line is   *)
(* put together argument by argument, the standard handles of the process  *)
(* are redirected to files, a child is created, the handles are put back   *)
(* and the child is waited for.  Each system call is a step and may fail;  *)
(* putting a valid handle back does not.                                   *)
(***************************************************************************)
EXTENDS Integers, Sequences

CONSTANTS
    Arguments,    \* bound: the argument vectors, sequences of Argument
    Lengths,      \* the lengths of arguments
    Slack,        \* how many bytes behind cli can be written before the process ends
    MaxFiles      \* bound: how many files are opened for redirection

\* An argument has a space, or no space and a quote, first or further on, or is
\* plain; with length 0 it is empty.
Argument == [len : Lengths, shape : {"plain", "space", "quote", "quote first"}]

ASSUME ExecuteAssumption ==
    /\ Lengths \subseteq Nat /\ Slack \in Nat /\ MaxFiles \in Nat
    /\ Arguments \subseteq Seq(Argument)

Stream == {"stdout", "stderr"}

VARIABLES
    pc,       \* where OS_Execute is; "idle" outside it
    argv,     \* the arguments of the call
    args,     \* arg2: what is left of them
    room,     \* the size of cli
    i,        \* the index at which cli is written
    top,      \* behind the last byte of cli that was written
    files,    \* the streams for which a file was given
    std,      \* std[s]: the handle that is standard stream s of the process
    saved,    \* saved[s]: stdout_handle and stderr_handle
    opened,   \* the handles opened by RedirectStream: 1..opened
    child,    \* the standard handles with which the child was created
    reply,    \* what the last call returned
    before    \* not in the program: the standard handles at the call

vars == <<pc, argv, args, room, i, top, files, std, saved, opened, child, reply, before>>
redirection == <<std, saved, opened, child>>
line == <<argv, args, room, i, top>>
input == <<files, before>>

Console == 0    \* the handle that both streams have at first
NoHandle == -1  \* an uninitialized local

Bug_Sum(s) ==
    LET sum[k \in 0..Len(s)] == IF k = 0 THEN 0 ELSE sum[k - 1] + s[k].len + 2
    IN  sum[Len(s)]

Sum(s) ==
    LET sum[k \in 0..Len(s)] == IF k = 0 THEN 0 ELSE sum[k - 1] + s[k].len + 3
    IN  sum[Len(s)]

Return(answer) == pc' = "idle" /\ reply' = answer

Call ==
    /\ pc = "idle" /\ opened + 2 <= MaxFiles
    /\ argv' \in Arguments /\ args' = argv' /\ files' \in SUBSET Stream
    /\ room' = Sum(argv') /\ i' = 0 /\ top' = 0
    /\ saved' = [s \in Stream |-> NoHandle]
    /\ \/ Return("no memory")
       \/ pc' = "build" /\ UNCHANGED reply
    /\ before' = std /\ UNCHANGED <<std, opened, child>>

\* The loop that copies an argument with a quote and no space looks at the same
\* character in every round.
Unending(arg) == arg.len > 0 /\ arg.shape \in {"quote", "quote first"}

Written(arg) == IF arg.len = 0 \/ arg.shape = "space" THEN arg.len + 2 ELSE arg.len

\* The space behind an argument is written at i, which stays where it is.
BuildArgument ==
    /\ pc = "build" /\ args # <<>> /\ ~Unending(Head(args))
    /\ i' = i + Written(Head(args)) /\ top' = i' + 1 /\ args' = Tail(args)
    /\ UNCHANGED <<pc, argv, room, input, redirection, reply>>

\* One round of that loop: the character, or the quote with a backslash before it,
\* until what is written is no memory of the process.
BuildQuote ==
    /\ pc = "build" /\ args # <<>> /\ Unending(Head(args))
    /\ i' = i + (IF Head(args).shape = "quote first" THEN 2 ELSE 1) /\ top' = i'
    /\ pc' = IF top' > room + Slack THEN "crashed" ELSE pc
    /\ UNCHANGED <<argv, args, room, input, redirection, reply>>

\* The null character, written into no bytes if there is no argument.
BuildEnd ==
    /\ pc = "build" /\ args = <<>>
    /\ top' = i + 1
    /\ pc' = IF top' > room + Slack THEN "crashed" ELSE "redirect stdout"
    /\ UNCHANGED <<argv, args, room, i, input, redirection, reply>>

\* The file is opened and becomes the standard stream; the old handle is saved.
RedirectStream(s) ==
    /\ opened' = opened + 1
    /\ std' = [std EXCEPT ![s] = opened + 1] /\ saved' = [saved EXCEPT ![s] = std[s]]

\* CreateFile fails, or SetStdHandle does and the new handle stays open.
RedirectFails == opened' \in {opened, opened + 1} /\ UNCHANGED saved

Restore == std' = [s \in Stream |-> IF s \in files THEN saved[s] ELSE std[s]]

RedirectStdout ==
    /\ pc = "redirect stdout"
    /\ \/ /\ "stdout" \notin files
          /\ pc' = "redirect stderr" /\ UNCHANGED <<std, saved, opened, reply>>
       \/ /\ "stdout" \in files
          /\ RedirectStream("stdout") /\ pc' = "redirect stderr" /\ UNCHANGED reply
       \/ /\ "stdout" \in files
          /\ RedirectFails /\ UNCHANGED std /\ Return("redirect failed")
    /\ UNCHANGED <<line, input, child>>

RedirectStderr ==
    /\ pc = "redirect stderr"
    /\ \/ /\ "stderr" \notin files
          /\ pc' = "create" /\ UNCHANGED <<std, saved, opened, reply>>
       \/ /\ "stderr" \in files
          /\ RedirectStream("stderr") /\ pc' = "create" /\ UNCHANGED reply
       \/ /\ "stderr" \in files
          /\ RedirectFails
          /\ std' = [std EXCEPT !["stdout"] = IF "stdout" \in files THEN saved["stdout"] ELSE @]
          /\ Return("redirect failed")
    /\ UNCHANGED <<line, input, child>>

Bug_CreateProcess ==
    /\ pc = "create"
    /\ Restore
    /\ \/ pc' = "wait" /\ child' = std' /\ UNCHANGED reply
       \/ Return("not created") /\ UNCHANGED child
    /\ UNCHANGED <<line, input, saved, opened>>

\* OS_SpecToString is given a buffer and so never answers NULL: the return
\* that would leave the streams redirected is not taken.
CreateProcess ==
    /\ pc = "create"
    /\ \/ pc' = "wait" /\ child' = std /\ UNCHANGED reply
       \/ Return("not created") /\ UNCHANGED child
    /\ Restore
    /\ UNCHANGED <<line, input, saved, opened>>

\* The exit code is read after the child has ended.
Wait ==
    /\ pc = "wait"
    /\ \E answer \in {"ok", "no exit code", "still active"} : Return(answer)
    /\ UNCHANGED <<line, input, redirection>>

Init ==
    /\ pc = "idle" /\ argv = <<>> /\ args = <<>> /\ room = 0 /\ i = 0 /\ top = 0 /\ files = {}
    /\ std = [s \in Stream |-> Console] /\ saved = [s \in Stream |-> NoHandle]
    /\ opened = 0 /\ child = std /\ reply = "none" /\ before = std

Step ==
    \/ BuildArgument \/ BuildQuote \/ BuildEnd
    \/ RedirectStdout \/ RedirectStderr \/ CreateProcess \/ Wait

Next == Call \/ Step

\* OS_Execute goes on until it returns; the child it waits for ends.
Spec == Init /\ [][Next]_vars /\ WF_vars(Step)

-----------------------------------------------------------------------------
Handle == 0..MaxFiles

\* Types; a handle that is put back has been saved, and what is standard is a
\* handle: no uninitialized local is ever made a standard handle.
TypeOK ==
    /\ pc \in {"idle", "build", "crashed", "redirect stdout", "redirect stderr", "create", "wait"}
    /\ argv \in Seq(Argument) /\ args \in Seq(Argument) /\ files \subseteq Stream
    /\ room \in Nat /\ i \in Nat /\ top \in Nat
    /\ std \in [Stream -> Handle] /\ child \in [Stream -> Handle]
    /\ saved \in [Stream -> Handle \cup {NoHandle}] /\ opened \in Handle
    /\ pc = "redirect stderr" => ("stdout" \in files => saved["stdout"] \in Handle)
    /\ pc = "create" => \A s \in files : saved[s] \in Handle

\* After OS_Execute the standard handles are what they were at the call,
\* whatever failed: a file that cannot be opened for either stream, a program
\* that cannot be started.
StandardHandlesBack == pc = "idle" => std = before

\* The child writes each stream to the file given for it, each to its own
\* file, and to where its parent writes if there is none.
ChildGetsFiles ==
    pc = "wait" =>
        /\ \A s \in Stream : s \in files <=> child[s] # before[s]
        /\ child["stdout"] = child["stderr"] => files = {}

\* The child has the files for its standard streams, and nobody else ever has
\* them when OS_Execute is over.
RedirectionsEnd == StandardHandlesBack /\ ChildGetsFiles

HasUnending(s) == \E k \in DOMAIN s : Unending(s[k])
Overrun == top > room

\* Every byte of the command line, the quotes, the spaces and the null character
\* at its end, is written into what was allocated for it, whatever the arguments;
\* but not if there are none, where nothing is allocated for the null character,
\* nor if one has a quote and no space, which is copied until the process ends.
CommandLineFits ==
    /\ Overrun => argv = <<>> \/ HasUnending(argv)
    /\ pc = "crashed" => Overrun
    /\ pc \in {"redirect stdout", "redirect stderr", "create", "wait"} =>
          ~HasUnending(argv) /\ (Overrun <=> argv = <<>>)

\* OS_Execute returns, or writes behind the command line until the process ends.
Returns == pc # "idle" ~> pc = "idle" \/ (pc = "crashed" /\ Overrun)
=============================================================================
