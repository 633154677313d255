-------------------------- MODULE OSServicesProofs --------------------------
(***************************************************************************)
(* For any argument vectors, any directories and any number of calls one   *)
(* after another, whatever fails in each: a child has the files that were  *)
(* given and the process has its standard handles back; the command line   *)
(* stays in its buffer, but for two kinds of argument vectors; and a       *)
(* directory is read as AbstractDir promises.                              *)
(***************************************************************************)
EXTENDS OSServices, Recursion

Consoles == [s \in Stream |-> Console]

\* A set of handles in which the streams in redirected have files of their own.
HasFiles(handles, redirected) ==
    /\ \A s \in redirected : handles[s] \in 1..opened
    /\ \A s \in Stream \ redirected : handles[s] = Console
    /\ "stdout" \in redirected /\ "stderr" \in redirected
           => handles["stdout"] # handles["stderr"]

\* The old handles of the streams in redirected are where Restore takes them from.
Saved(redirected) == \A s \in redirected : saved[s] = Console

(***************************************************************************)
(* The inductive invariant: how far the redirection has got at each point. *)
(* What is saved is always the console, since each call ends with it, so   *)
(* that what is put back is what was there before the call.                *)
(***************************************************************************)
RInv ==
    /\ pc \in {"idle", "build", "crashed", "redirect stdout", "redirect stderr", "create", "wait"}
    /\ files \subseteq Stream /\ opened \in Nat /\ before = Consoles
    /\ std \in [Stream -> Nat] /\ saved \in [Stream -> Int] /\ child \in [Stream -> Nat]
    /\ pc \notin {"redirect stderr", "create"} => std = Consoles
    /\ pc = "redirect stderr" => HasFiles(std, files \cap {"stdout"}) /\ Saved(files \cap {"stdout"})
    /\ pc = "create" => HasFiles(std, files) /\ Saved(files)
    /\ pc = "wait" => HasFiles(child, files)

\* The handle that is opened next.
LEMMA NextHandle ==
    ASSUME NEW n \in Nat
    PROVE  /\ n + 1 \in Nat /\ n + 1 \in Int /\ n + 1 \in 1..n + 1 /\ n + 1 # Console
           /\ \A h \in 1..n : h \in 1..n + 1 /\ h # n + 1 /\ h # Console
BY DEF Console

\* Replacing one handle.
LEMMA OneHandle ==
    ASSUME NEW S, NEW handles \in [Stream -> S], NEW s \in Stream, NEW h \in S,
           NEW new, new = [handles EXCEPT ![s] = h]
    PROVE  /\ new \in [Stream -> S] /\ new[s] = h
           /\ \A t \in Stream \ {s} : new[t] = handles[t]
OBVIOUS

LEMMA RInvInit == Init => RInv
BY DEF Init, RInv, Consoles, Stream, Console, NoHandle

LEMMA RInvImplies == RInv => RedirectionsEnd
<1> SUFFICES ASSUME RInv PROVE RedirectionsEnd
  OBVIOUS
<1>1. StandardHandlesBack
  BY DEF RInv, StandardHandlesBack
<1>2. ASSUME pc = "wait"
      PROVE  /\ \A s \in Stream : s \in files <=> child[s] # before[s]
             /\ child["stdout"] = child["stderr"] => files = {}
  <2>1. HasFiles(child, files) /\ files \subseteq Stream /\ \A s \in Stream : before[s] = Console
    BY <1>2 DEF RInv, Consoles
  <2>2. \A s \in Stream : s \in files <=> child[s] # Console
    <3>1. /\ \A s \in files : child[s] \in 1..opened
          /\ \A s \in Stream \ files : child[s] = Console
      BY <2>1 DEF HasFiles
    <3>2. opened \in Nat
      BY DEF RInv
    <3>3. \A s \in files : child[s] # Console
      BY <3>1, <3>2, NextHandle
    <3> QED BY <3>1, <3>3
  <2>3. ASSUME child["stdout"] = child["stderr"] PROVE files = {}
    <3>1. "stdout" \in files <=> "stderr" \in files
      BY <2>2, <2>3 DEF Stream
    <3>2. ~("stdout" \in files /\ "stderr" \in files)
      BY <2>1, <2>3 DEF HasFiles
    <3> QED BY <2>1, <3>1, <3>2 DEF Stream
  <2> QED BY <2>1, <2>2, <2>3
<1> QED BY <1>1, <1>2 DEF RedirectionsEnd, ChildGetsFiles

-----------------------------------------------------------------------------
\* Steps before anything is redirected.
LEMMA CallStep == ASSUME RInv, Call PROVE RInv'
<1>1. /\ pc' \in {"idle", "build"} /\ files' \subseteq Stream /\ before' = std
      /\ saved' = [s \in Stream |-> NoHandle] /\ UNCHANGED <<std, opened, child>>
      /\ std = Consoles
  BY DEF RInv, Call, Return
<1>2. saved' \in [Stream -> Int]
  BY <1>1 DEF NoHandle
<1> QED BY <1>1, <1>2 DEF RInv

LEMMA BuildStep == ASSUME RInv, BuildArgument \/ BuildQuote \/ BuildEnd PROVE RInv'
<1>1. UNCHANGED <<files, opened, before, std, saved, child>> /\ pc = "build"
      /\ pc' \in {"build", "crashed", "redirect stdout"}
  BY DEF BuildArgument, BuildQuote, BuildEnd, input, redirection
<1> QED BY <1>1 DEF RInv

LEMMA StdoutStep == ASSUME RInv, RedirectStdout PROVE RInv'
<1>1. /\ UNCHANGED <<files, before, child>> /\ pc = "redirect stdout"
      /\ files \subseteq Stream /\ opened \in Nat /\ std = Consoles
  BY DEF RedirectStdout, input, RInv
<1>2. CASE "stdout" \notin files /\ pc' = "redirect stderr" /\ UNCHANGED <<std, saved, opened>>
  <2>1. files \cap {"stdout"} = {}
    BY <1>2
  <2>2. HasFiles(std, {})' /\ Saved({})'
    BY <1>1, <1>2 DEF HasFiles, Saved, Consoles, Stream
  <2> QED BY <1>1, <1>2, <2>1, <2>2 DEF RInv
<1>3. CASE "stdout" \in files /\ RedirectStream("stdout") /\ pc' = "redirect stderr"
  <2>1. files' \cap {"stdout"} = {"stdout"} /\ "stdout" \in Stream
    BY <1>1, <1>3
  <2>2. /\ opened' = opened + 1 /\ std' = [Consoles EXCEPT !["stdout"] = opened + 1]
        /\ saved' = [saved EXCEPT !["stdout"] = Console]
    BY <1>1, <1>3, <2>1 DEF RedirectStream, Consoles
  <2>3. /\ std' \in [Stream -> Nat] /\ saved' \in [Stream -> Int] /\ opened' \in Nat
        /\ std'["stdout"] = opened + 1 /\ saved'["stdout"] = Console
        /\ \A s \in Stream \ {"stdout"} : std'[s] = Console
    <3>1. Consoles \in [Stream -> Nat]
      BY DEF Consoles, Console
    <3>2. saved \in [Stream -> Int] /\ opened + 1 \in Nat
      BY <1>1, NextHandle DEF RInv
    <3>3. \A s \in Stream : Consoles[s] = Console
      BY DEF Consoles
    <3> HIDE DEF Consoles
    <3>4. /\ std' \in [Stream -> Nat] /\ std'["stdout"] = opened + 1
          /\ \A s \in Stream \ {"stdout"} : std'[s] = Consoles[s]
      BY <2>1, <2>2, <3>1, <3>2, OneHandle
    <3>5. saved' \in [Stream -> Int] /\ saved'["stdout"] = Console
      BY <2>1, <2>2, <3>2, OneHandle DEF Console
    <3> QED BY <2>2, <3>3, <3>4, <3>5, <3>2
  <2>4. HasFiles(std, {"stdout"})' /\ Saved({"stdout"})'
    <3>1. std'["stdout"] \in 1..opened'
      BY <1>1, <2>2, <2>3, NextHandle
    <3> QED BY <2>3, <3>1 DEF HasFiles, Saved
  <2> QED BY <1>1, <1>3, <2>1, <2>3, <2>4 DEF RInv
<1>4. CASE RedirectFails /\ UNCHANGED std /\ Return("redirect failed")
  <2>1. opened' \in Nat /\ pc' = "idle" /\ UNCHANGED <<std, saved>>
    BY <1>1, <1>4, NextHandle DEF RedirectFails, Return
  <2> QED BY <1>1, <2>1 DEF RInv
<1> QED BY <1>2, <1>3, <1>4 DEF RedirectStdout

LEMMA StderrStep == ASSUME RInv, RedirectStderr PROVE RInv'
<1> DEFINE out == files \cap {"stdout"}
<1>1. /\ UNCHANGED <<files, before, child>> /\ pc = "redirect stderr"
      /\ files \subseteq Stream /\ opened \in Nat
      /\ std \in [Stream -> Nat] /\ saved \in [Stream -> Int] /\ HasFiles(std, out) /\ Saved(out)
  BY DEF RedirectStderr, input, RInv
<1>2. Stream = {"stdout", "stderr"} /\ out \subseteq {"stdout"} /\ std["stderr"] = Console
  BY <1>1 DEF Stream, HasFiles
<1>3. CASE "stderr" \notin files /\ pc' = "create" /\ UNCHANGED <<std, saved, opened>>
  <2>1. files = out
    BY <1>1, <1>2, <1>3
  <2>2. HasFiles(std, files)' /\ Saved(files)'
    BY <1>1, <1>3, <2>1 DEF HasFiles, Saved
  <2> QED BY <1>1, <1>3, <2>2 DEF RInv
<1>4. CASE "stderr" \in files /\ RedirectStream("stderr") /\ pc' = "create"
  <2>1. files = out \cup {"stderr"}
    BY <1>1, <1>2, <1>4
  <2>2. /\ opened' = opened + 1 /\ std'["stdout"] = std["stdout"] /\ std'["stderr"] = opened + 1
        /\ saved'["stdout"] = saved["stdout"] /\ saved'["stderr"] = Console
        /\ std' \in [Stream -> Nat] /\ saved' \in [Stream -> Int]
    <3>1. "stderr" \in Stream /\ "stdout" \in Stream \ {"stderr"} /\ Console \in Int
      BY DEF Stream, Console
    <3>2. opened + 1 \in Nat /\ opened + 1 \in Int
      BY <1>1, NextHandle
    <3>3. /\ opened' = opened + 1 /\ std' = [std EXCEPT !["stderr"] = opened + 1]
          /\ saved' = [saved EXCEPT !["stderr"] = Console]
      BY <1>2, <1>4 DEF RedirectStream
    <3>4. /\ std' \in [Stream -> Nat] /\ std'["stderr"] = opened + 1
          /\ std'["stdout"] = std["stdout"]
      BY <1>1, <3>1, <3>2, <3>3, OneHandle
    <3>5. /\ saved' \in [Stream -> Int] /\ saved'["stderr"] = Console
          /\ saved'["stdout"] = saved["stdout"]
      BY <1>1, <3>1, <3>2, <3>3, OneHandle
    <3> QED BY <3>3, <3>4, <3>5
  <2>3. HasFiles(std, files)'
    <3>1. \A s \in files : s = "stderr" \/ s \in out
      BY <2>1
    <3>2. \A s \in out : std'[s] = std[s] /\ std[s] \in 1..opened
      BY <1>1, <1>2, <2>2 DEF HasFiles
    <3>3. \A s \in files : std'[s] \in 1..opened'
      BY <1>1, <2>2, <3>1, <3>2, NextHandle
    <3>4. \A s \in Stream \ files : s = "stdout" /\ s \notin out
      BY <1>2, <2>1
    <3>5. \A s \in Stream \ files : std'[s] = Console
      BY <1>1, <2>2, <3>4 DEF HasFiles
    <3>6. "stdout" \in files => std'["stdout"] # std'["stderr"]
      <4>1. SUFFICES ASSUME "stdout" \in files PROVE std'["stdout"] # opened + 1
        BY <2>2
      <4>2. "stdout" \in out
        BY <4>1
      <4> QED BY <1>1, <2>2, <3>2, <4>2, NextHandle
    <3> QED BY <1>1, <3>3, <3>5, <3>6 DEF HasFiles
  <2>4. Saved(files)'
    BY <1>1, <1>2, <2>1, <2>2 DEF Saved
  <2> QED BY <1>1, <1>4, <2>2, <2>3, <2>4 DEF RInv
<1>5. CASE /\ RedirectFails /\ Return("redirect failed")
           /\ std' = [std EXCEPT !["stdout"] = IF "stdout" \in files THEN saved["stdout"] ELSE @]
  <2>1. std' = Consoles
    <3>1. std'["stdout"] = Console /\ std'["stderr"] = Console /\ DOMAIN std' = Stream
      BY <1>1, <1>2, <1>5 DEF HasFiles, Saved
    <3> QED BY <1>1, <1>2, <1>5, <3>1 DEF Consoles
  <2>2. opened' \in Nat /\ pc' = "idle" /\ UNCHANGED saved /\ Consoles \in [Stream -> Nat]
    <3>1. Consoles \in [Stream -> Nat]
      BY DEF Consoles, Console
    <3> QED BY <1>1, <1>5, <3>1, NextHandle DEF RedirectFails, Return
  <2> HIDE DEF Consoles
  <2> QED BY <1>1, <2>1, <2>2 DEF RInv
<1> QED BY <1>3, <1>4, <1>5 DEF RedirectStderr

LEMMA CreateStep == ASSUME RInv, CreateProcess PROVE RInv'
<1>1. /\ UNCHANGED <<files, before, saved, opened>> /\ pc = "create"
      /\ std \in [Stream -> Nat] /\ HasFiles(std, files) /\ Saved(files)
  BY DEF CreateProcess, input, RInv
<1>2. std' = Consoles
  <2>1. std' = [s \in Stream |-> IF s \in files THEN saved[s] ELSE std[s]]
    BY DEF CreateProcess, Restore
  <2>2. \A s \in Stream : (IF s \in files THEN saved[s] ELSE std[s]) = Console
    BY <1>1 DEF HasFiles, Saved
  <2> QED BY <2>1, <2>2 DEF Consoles
<1>3. CASE pc' = "wait" /\ child' = std
  <2>1. HasFiles(child, files)'
    BY <1>1, <1>3 DEF HasFiles
  <2> QED BY <1>1, <1>2, <1>3, <2>1 DEF RInv, Consoles, Console
<1>4. CASE pc' = "idle" /\ UNCHANGED child
  BY <1>1, <1>2, <1>4 DEF RInv, Consoles, Console
<1> QED BY <1>3, <1>4 DEF CreateProcess, Return

LEMMA WaitStep == ASSUME RInv, Wait PROVE RInv'
<1>1. UNCHANGED <<files, opened, before, std, saved, child>> /\ pc = "wait" /\ pc' = "idle"
  BY DEF Wait, input, redirection, Return
<1> QED BY <1>1 DEF RInv

LEMMA RInvStep == ASSUME RInv, [Next]_vars PROVE RInv'
<1>1. CASE UNCHANGED vars
  BY <1>1 DEF vars, RInv, HasFiles, Saved
<1> QED BY <1>1, CallStep, BuildStep, StdoutStep, StderrStep, CreateStep, WaitStep DEF Next, Step

(***************************************************************************)
(* Whatever fails in OS_Execute, the standard handles are put back; and a  *)
(* child has the files that were given, not those of another call.         *)
(***************************************************************************)
THEOREM RedirectionsHold == Spec => []RedirectionsEnd
<1>1. RInv /\ [Next]_vars => RInv'
  BY RInvStep
<1> QED BY RInvInit, RInvImplies, <1>1, PTL DEF Spec

-----------------------------------------------------------------------------
\* The length of the command line.
\* The function that Sum computes, and what it is.
Totals(list) ==
    CHOOSE f : f = [k \in 0..Len(list) |-> IF k = 0 THEN 0 ELSE f[k - 1] + list[k].len + 3]

AddsUp(sum, list) ==
    /\ sum \in [0..Len(list) -> Nat] /\ sum[0] = 0
    /\ \A k \in 1..Len(list) : sum[k] = sum[k - 1] + list[k].len + 3

LEMMA ArgumentLength ==
    ASSUME NEW list \in Seq(Argument)
    PROVE  Len(list) \in Nat /\ \A k \in 1..Len(list) : list[k] \in Argument /\ list[k].len \in Nat
<1>1. Len(list) \in Nat /\ \A k \in 1..Len(list) : list[k] \in Argument
  OBVIOUS
<1>2. \A a \in Argument : a.len \in Nat
  BY ExecuteAssumption DEF Argument
<1> QED BY <1>1, <1>2

LEMMA TotalsAddUp ==
    ASSUME NEW list \in Seq(Argument)
    PROVE  AddsUp(Totals(list), list) /\ Sum(list) = Totals(list)[Len(list)]
<1> DEFINE n == Len(list)
           next == [k \in 1..n |-> [x \in Nat |-> x + list[k].len + 3]]
           sum == Totals(list)
<1>1. n \in Nat /\ \A k \in 1..n : list[k].len \in Nat /\ k - 1 \in 0..n /\ k \in 0..n /\ k # 0
  BY ArgumentLength
<1>2. next \in [1..n -> [Nat -> Nat]] /\ \A k \in 1..n : \A x \in Nat : next[k][x] = x + list[k].len + 3
  BY <1>1
<1>3. PICK f \in [0..n -> Nat] : Follows(f, 0, next, n)
  <2> HIDE DEF next, n
  <2> QED BY <1>1, <1>2, RecursiveSequence
<1>4. f[0] = 0 /\ \A k \in 1..n : f[k] = f[k - 1] + list[k].len + 3
  <2> HIDE DEF next, n
  <2>1. \A k \in 1..n : f[k - 1] \in Nat
    BY <1>1, <1>3
  <2> QED BY <1>2, <1>3, <2>1 DEF Follows
<1>5. f = [k \in 0..n |-> IF k = 0 THEN 0 ELSE f[k - 1] + list[k].len + 3]
  BY <1>1, <1>4
<1>6. sum = [k \in 0..n |-> IF k = 0 THEN 0 ELSE sum[k - 1] + list[k].len + 3]
  BY <1>5 DEF Totals
<1>7. sum[0] = 0 /\ \A k \in 1..n : sum[k] = sum[k - 1] + list[k].len + 3
  BY <1>1, <1>6
<1> DEFINE S == {k \in Int : sum[k] \in Nat}
<1>8. \A k \in 0..n : k \in S
  <2>1. 0 \in S
    BY <1>7
  <2>2. ASSUME NEW k \in 1..n, k - 1 \in S PROVE k \in S
    BY <2>2, <1>7, <1>1
  <2> HIDE DEF S
  <2> QED BY <2>1, <2>2, <1>1, BoundedInduction
<1>9. AddsUp(sum, list)
  BY <1>6, <1>7, <1>8 DEF AddsUp
<1> QED BY <1>9 DEF Sum, Totals

\* What an argument adds to the length of those behind it.
LEMMA SumOfRest ==
    ASSUME NEW list \in Seq(Argument)
    PROVE  /\ Sum(list) \in Nat
           /\ list # <<>> => Sum(list) = Head(list).len + 3 + Sum(Tail(list))
<1>1. Sum(list) \in Nat
  <2>1. Len(list) \in 0..Len(list)
    OBVIOUS
  <2> QED BY <2>1, TotalsAddUp DEF AddsUp
<1>2. ASSUME list # <<>> PROVE Sum(list) = Head(list).len + 3 + Sum(Tail(list))
  <2> DEFINE tail == Tail(list)
             m == Len(tail)
             whole == Totals(list)
             part == Totals(tail)
  <2>1. /\ tail \in Seq(Argument) /\ Len(list) = m + 1 /\ m \in Nat /\ list[1] = Head(list)
        /\ \A k \in 1..m : tail[k] = list[k + 1]
    BY <1>2
  <2>2. AddsUp(whole, list) /\ AddsUp(part, tail)
    BY <2>1, TotalsAddUp
  <2> HIDE DEF whole, part
  <2> DEFINE T == {k \in Int : whole[k + 1] = Head(list).len + 3 + part[k]}
  <2>3. \A k \in 1..m : tail[k].len \in Nat
    BY <2>1, ArgumentLength
  <2>4. Head(list).len \in Nat
    BY <2>1, ArgumentLength
  <2> HIDE DEF tail, m
  <2>5. 0 \in T
    <3>1. whole[1] = whole[0] + list[1].len + 3 /\ whole[0] = 0 /\ part[0] = 0
      BY <2>1, <2>2 DEF AddsUp, m
    <3> QED BY <3>1, <2>1, <2>4
  <2>6. ASSUME NEW k \in 1..m, k - 1 \in T PROVE k \in T
    <3>1. /\ whole[k + 1] = whole[k] + list[k + 1].len + 3
          /\ part[k] = part[k - 1] + tail[k].len + 3 /\ part[k - 1] \in Nat
      <4>1. /\ k \in 1..Len(tail) /\ k - 1 \in 0..Len(tail)
            /\ k + 1 \in 1..Len(list) /\ k + 1 - 1 = k
        BY <2>1 DEF m
      <4>2. whole[k + 1] = whole[k] + list[k + 1].len + 3
        BY <2>2, <4>1 DEF AddsUp
      <4>3. part[k] = part[k - 1] + tail[k].len + 3 /\ part[k - 1] \in Nat
        BY <2>2, <4>1 DEF AddsUp
      <4> QED BY <4>2, <4>3
    <3>2. whole[k] = Head(list).len + 3 + part[k - 1]
      BY <2>6
    <3>3. tail[k].len \in Nat /\ list[k + 1].len = tail[k].len
      BY <2>1, <2>3
    <3>4. whole[k + 1] = Head(list).len + 3 + part[k]
      BY <3>1, <3>2, <3>3, <2>4
    <3> QED BY <3>4
  <2>7. m \in T
    <3>1. \A k \in 0..m : k \in T
      <4> HIDE DEF T
      <4> QED BY <2>1, <2>5, <2>6, BoundedInduction
    <3> QED BY <2>1, <3>1
  <2> QED BY <2>1, <2>7, TotalsAddUp DEF whole, part, m, tail
<1> QED BY <1>1, <1>2

-----------------------------------------------------------------------------
\* While no argument is without an end: what is written and what the arguments
\* that are left can need is never more than was allocated, and there is a byte
\* for the null character behind the last.
Inside ==
    /\ i + Sum(args) <= room /\ top <= room
    /\ argv = <<>> => args = <<>> /\ room = 0
    /\ argv # <<>> /\ args = <<>> => i + 1 <= room

(***************************************************************************)
(* What the types need besides RInv, and the command line: the arguments   *)
(* that are left have one without an end exactly if those given have one.  *)
(***************************************************************************)
LineInv ==
    /\ argv \in Seq(Argument) /\ args \in Seq(Argument)
    /\ room \in Nat /\ i \in Nat /\ top \in Nat
    /\ saved \in [Stream -> {Console, NoHandle}] /\ child \in [Stream -> Handle]
    /\ opened \in Nat /\ opened <= MaxFiles
    /\ pc \in {"build", "crashed", "redirect stdout"} => opened + 2 <= MaxFiles
    /\ pc = "redirect stderr" => opened + 1 <= MaxFiles
    /\ pc = "build" => (HasUnending(argv) <=> HasUnending(args)) /\ (~HasUnending(argv) => Inside)
    /\ CommandLineFits

\* Every redirected handle is one that was opened.
LEMMA HandlesOpened ==
    ASSUME NEW handles, NEW redirected \in SUBSET Stream, opened \in Nat, opened <= MaxFiles,
           handles \in [Stream -> Nat], HasFiles(handles, redirected)
    PROVE  handles \in [Stream -> Handle]
<1>1. \A s \in Stream : handles[s] \in Handle
  <2> TAKE s \in Stream
  <2>1. MaxFiles \in Nat /\ Console = 0
    BY ExecuteAssumption DEF Console
  <2>2. CASE s \in redirected
    BY <2>1, <2>2 DEF HasFiles, Handle
  <2>3. CASE s \notin redirected
    BY <2>1, <2>3 DEF HasFiles, Handle
  <2> QED BY <2>2, <2>3
<1> QED BY <1>1

LEMMA FirstArgument ==
    ASSUME NEW list \in Seq(Argument), list # <<>>
    PROVE  Tail(list) \in Seq(Argument) /\ Head(list).len \in Nat
<1>1. 1 \in 1..Len(list) /\ Head(list) = list[1]
  OBVIOUS
<1> QED BY <1>1, ArgumentLength

LEMMA LineInvImplies == RInv /\ LineInv => TypeOK
<1> SUFFICES ASSUME RInv, LineInv PROVE TypeOK
  OBVIOUS
<1>1. /\ opened \in Nat /\ opened <= MaxFiles /\ MaxFiles \in Nat /\ opened \in Handle
      /\ Console \in Handle
  <2>1. opened \in Nat /\ opened <= MaxFiles /\ MaxFiles \in Nat
    BY ExecuteAssumption DEF LineInv
  <2> QED BY <2>1 DEF Handle, Console
<1>2. std \in [Stream -> Handle]
  <2>1. CASE pc \notin {"redirect stderr", "create"}
    BY <1>1, <2>1 DEF RInv, Consoles
  <2>2. CASE pc = "redirect stderr"
    <3>1. /\ HasFiles(std, files \cap {"stdout"}) /\ files \cap {"stdout"} \in SUBSET Stream
          /\ std \in [Stream -> Nat]
      BY <2>2 DEF RInv
    <3> QED BY <1>1, <3>1, HandlesOpened
  <2>3. CASE pc = "create"
    <3>1. HasFiles(std, files) /\ files \in SUBSET Stream /\ std \in [Stream -> Nat]
      BY <2>3 DEF RInv
    <3> QED BY <1>1, <3>1, HandlesOpened
  <2> QED BY <2>1, <2>2, <2>3
<1>3. /\ saved \in [Stream -> Handle \cup {NoHandle}]
      /\ pc = "redirect stderr" => ("stdout" \in files => saved["stdout"] \in Handle)
      /\ pc = "create" => \A s \in files : saved[s] \in Handle
  <2>1. saved \in [Stream -> {Console, NoHandle}]
    BY DEF LineInv
  <2>2. pc = "redirect stderr" => ("stdout" \in files => saved["stdout"] = Console)
    BY DEF RInv, Saved
  <2>3. pc = "create" => \A s \in files : saved[s] = Console
    BY DEF RInv, Saved
  <2> QED BY <1>1, <2>1, <2>2, <2>3
<1>4. TypeOK
  BY <1>1, <1>2, <1>3 DEF TypeOK, RInv, LineInv
<1> QED BY <1>4

LEMMA LineInvInit == Init => LineInv
<1> SUFFICES ASSUME Init PROVE LineInv
  OBVIOUS
<1> USE DEF Init
<1>1. opened <= MaxFiles /\ opened \in Nat /\ Console \in Handle
  BY ExecuteAssumption DEF Handle, Console
<1>2. /\ argv \in Seq(Argument) /\ args \in Seq(Argument) /\ pc = "idle"
      /\ room \in Nat /\ i \in Nat /\ top \in Nat
  OBVIOUS
<1>3. saved \in [Stream -> {Console, NoHandle}] /\ child \in [Stream -> Handle]
  BY <1>1
<1>4. CommandLineFits
  BY DEF CommandLineFits, Overrun
<1> QED BY <1>1, <1>2, <1>3, <1>4 DEF LineInv

\* Opening a file, or not, when there is room for one or two.
LEMMA OneMore ==
    ASSUME NEW o \in Nat, NEW p \in {o, o + 1}, NEW most \in Nat
    PROVE  /\ p \in Nat /\ (o + 1 <= most => p <= most)
           /\ o + 2 <= most => p + 1 <= most /\ p <= most
OBVIOUS

\* Writing w characters for an argument of which l + 3 were counted.
LEMMA LineGrows ==
    ASSUME NEW a \in Nat, NEW w \in Nat, NEW l \in Nat, NEW others \in Nat, NEW r \in Nat,
           w <= l + 2, a + (l + 3 + others) <= r
    PROVE  a + w \in Nat /\ (a + w) + others <= r /\ (a + w) + 1 <= r
OBVIOUS

\* The arguments behind the first have one without an end if the first has one.
LEMMA UnendingRest ==
    ASSUME NEW s \in Seq(Argument), s # <<>>, ~Unending(Head(s))
    PROVE  HasUnending(s) <=> HasUnending(Tail(s))
<1>1. /\ Tail(s) \in Seq(Argument) /\ Len(s) = Len(Tail(s)) + 1 /\ s[1] = Head(s)
      /\ \A k \in 1..Len(Tail(s)) : Tail(s)[k] = s[k + 1]
  OBVIOUS
<1>2. ASSUME HasUnending(s) PROVE HasUnending(Tail(s))
  <2>1. PICK k \in DOMAIN s : Unending(s[k])
    BY <1>2 DEF HasUnending
  <2>2. k \in 1..Len(s) /\ k # 1
    BY <1>1, <2>1
  <2>3. k - 1 \in 1..Len(Tail(s)) /\ (k - 1) + 1 = k
    BY <1>1, <2>2
  <2>4. Unending(Tail(s)[k - 1]) /\ k - 1 \in DOMAIN Tail(s)
    BY <1>1, <2>1, <2>3
  <2> QED BY <2>4 DEF HasUnending
<1>3. ASSUME HasUnending(Tail(s)) PROVE HasUnending(s)
  <2>1. PICK k \in DOMAIN Tail(s) : Unending(Tail(s)[k])
    BY <1>3 DEF HasUnending
  <2>2. k \in 1..Len(Tail(s)) /\ k + 1 \in 1..Len(s)
    BY <1>1, <2>1
  <2>3. Unending(s[k + 1]) /\ k + 1 \in DOMAIN s
    BY <1>1, <2>1, <2>2
  <2> QED BY <2>3 DEF HasUnending
<1> QED BY <1>2, <1>3

LEMMA EmptyEnds == ~HasUnending(<<>>) /\ Sum(<<>>) = 0
<1>1. Len(<<>>) = 0
  OBVIOUS
<1>2. <<>> \in Seq(Argument)
  OBVIOUS
<1>3. Sum(<<>>) = 0
  <2>1. AddsUp(Totals(<<>>), <<>>) /\ Sum(<<>>) = Totals(<<>>)[Len(<<>>)]
    BY <1>2, TotalsAddUp
  <2> QED BY <1>1, <2>1 DEF AddsUp
<1> QED BY <1>3 DEF HasUnending

\* Building the command line, argument by argument.
LEMMA ArgumentStep == ASSUME RInv, LineInv, BuildArgument PROVE LineInv'
<1>1. /\ pc = "build" /\ args # <<>> /\ ~Unending(Head(args))
      /\ i' = i + Written(Head(args)) /\ top' = i' + 1 /\ args' = Tail(args)
      /\ UNCHANGED <<pc, argv, room, files, saved, opened, child>>
  BY DEF BuildArgument, input, redirection
<1>2. /\ argv \in Seq(Argument) /\ args \in Seq(Argument)
      /\ room \in Nat /\ i \in Nat /\ top \in Nat
      /\ HasUnending(argv) <=> HasUnending(args)
  BY <1>1 DEF LineInv
<1>3. args' \in Seq(Argument) /\ Head(args).len \in Nat
  BY <1>1, <1>2, FirstArgument
<1>4. Written(Head(args)) \in Nat /\ Written(Head(args)) <= Head(args).len + 2
  BY <1>3 DEF Written
<1>5. i' \in Nat /\ top' \in Nat
  BY <1>1, <1>2, <1>4
<1>6. HasUnending(argv') <=> HasUnending(args')
  BY <1>1, <1>2, UnendingRest
<1>7. ASSUME ~HasUnending(argv') PROVE Inside'
  <2>1. Inside
    BY <1>1, <1>7 DEF LineInv
  <2>2. Sum(args) = Head(args).len + 3 + Sum(args') /\ Sum(args') \in Nat
    BY <1>1, <1>2, <1>3, SumOfRest
  <2>3. i + (Head(args).len + 3 + Sum(args')) <= room
    BY <2>1, <2>2 DEF Inside
  <2>4. i' + Sum(args') <= room' /\ i' + 1 <= room'
    BY <1>1, <1>2, <1>3, <1>4, <2>2, <2>3, LineGrows
  <2>5. argv' # <<>>
    BY <1>1, <2>1 DEF Inside
  <2> QED BY <1>1, <2>4, <2>5 DEF Inside
<1>8. CommandLineFits'
  <2>1. ASSUME Overrun' PROVE HasUnending(argv')
    <3>1. SUFFICES ASSUME Inside' PROVE FALSE
      BY <1>7
    <3> QED BY <1>5, <2>1, <3>1, <1>1, <1>2 DEF Inside, Overrun
  <2> QED BY <1>1, <2>1 DEF CommandLineFits
<1> QED BY <1>1, <1>2, <1>3, <1>5, <1>6, <1>7, <1>8 DEF LineInv

LEMMA QuoteStep == ASSUME RInv, LineInv, BuildQuote PROVE LineInv'
<1>1. /\ pc = "build" /\ args # <<>> /\ Unending(Head(args))
      /\ UNCHANGED <<argv, args, room, files, saved, opened, child>>
      /\ pc' \in {"build", "crashed"}
  BY DEF BuildQuote, input, redirection
<1>2. /\ args \in Seq(Argument) /\ room \in Nat /\ Slack \in Nat /\ i \in Nat
      /\ opened + 2 <= MaxFiles
  BY <1>1, ExecuteAssumption DEF LineInv
<1>3. i' \in Nat /\ top' \in Nat
  <2>1. i' \in {i + 2, i + 1} /\ top' = i'
    BY DEF BuildQuote
  <2>2. i \in Nat
    BY <1>2
  <2> QED BY <2>1, <2>2
<1>4. HasUnending(argv') /\ HasUnending(args')
  <2>1. Head(args) = args[1] /\ 1 \in DOMAIN args
    BY <1>1, <1>2
  <2>2. HasUnending(args)
    BY <1>1, <2>1 DEF HasUnending
  <2> QED BY <1>1, <2>2 DEF LineInv
<1>5. CommandLineFits'
  <2>1. ASSUME pc' = "crashed" PROVE Overrun'
    <3>1. top' > room + Slack
      BY <1>1, <2>1 DEF BuildQuote
    <3> QED BY <1>1, <1>2, <1>3, <3>1 DEF Overrun
  <2> QED BY <1>1, <1>4, <2>1 DEF CommandLineFits
<1> QED BY <1>1, <1>2, <1>3, <1>4, <1>5 DEF LineInv

LEMMA EndStep == ASSUME RInv, LineInv, BuildEnd PROVE LineInv'
<1>1. /\ pc = "build" /\ args = <<>> /\ top' = i + 1
      /\ pc' \in {"crashed", "redirect stdout"} /\ (pc' = "crashed" => top' > room + Slack)
      /\ UNCHANGED <<argv, args, room, i, files, saved, opened, child>>
  BY DEF BuildEnd, input, redirection
<1>2. /\ room \in Nat /\ Slack \in Nat /\ i \in Nat /\ opened + 2 <= MaxFiles
      /\ ~HasUnending(argv) /\ Inside
  BY <1>1, ExecuteAssumption, EmptyEnds DEF LineInv
<1>3. Overrun' <=> argv = <<>>
  <2>1. top' = i + 1 /\ room' = room /\ i \in Nat /\ room \in Nat
    BY <1>1, <1>2
  <2>2. ASSUME argv = <<>> PROVE room = 0
    BY <1>2, <2>2 DEF Inside
  <2>3. ASSUME argv # <<>> PROVE i + 1 <= room
    BY <1>1, <1>2, <2>3 DEF Inside
  <2>4. Overrun' <=> i + 1 > room
    BY <2>1 DEF Overrun
  <2>5. CASE argv = <<>>
    <3>1. i + 1 > 0
      BY <2>1
    <3> QED BY <2>2, <2>4, <2>5, <3>1
  <2>6. CASE argv # <<>>
    <3>1. i + 1 <= room
      BY <2>3, <2>6
    <3>2. ~(i + 1 > room)
      BY <2>1, <3>1
    <3> QED BY <2>4, <2>6, <3>2
  <2> QED BY <2>5, <2>6
<1>4. CommandLineFits'
  <2>1. ASSUME pc' = "crashed" PROVE Overrun'
    BY <1>1, <1>2, <2>1 DEF Overrun
  <2> QED BY <1>1, <1>2, <1>3, <2>1 DEF CommandLineFits
<1>5. top' \in Nat
  <2>1. top' = i + 1 /\ i \in Nat
    BY <1>1, <1>2
  <2> QED BY <2>1
<1> QED BY <1>1, <1>2, <1>4, <1>5 DEF LineInv

\* The command line stays as it is, in OS_Execute and when it has returned.
LEMMA LineKept ==
    ASSUME LineInv, UNCHANGED line,
           pc \in {"redirect stdout", "redirect stderr", "create", "wait"},
           pc' \in {"redirect stderr", "create", "wait", "idle"}
    PROVE  /\ CommandLineFits' /\ argv' \in Seq(Argument) /\ args' \in Seq(Argument)
           /\ room' \in Nat /\ i' \in Nat /\ top' \in Nat
<1>1. CommandLineFits /\ UNCHANGED <<argv, args, room, i, top>>
  BY DEF LineInv, line
<1>2. Overrun' <=> Overrun
  BY <1>1 DEF Overrun
<1> QED BY <1>1, <1>2 DEF LineInv, CommandLineFits

LEMMA LineInvStep == ASSUME RInv, LineInv, Next PROVE LineInv'
<1>1. /\ saved \in [Stream -> {Console, NoHandle}] /\ child \in [Stream -> Handle]
      /\ opened \in Nat /\ opened <= MaxFiles
      /\ pc \in {"build", "crashed", "redirect stdout"} => opened + 2 <= MaxFiles
      /\ pc = "redirect stderr" => opened + 1 <= MaxFiles
  BY DEF LineInv
<1>0. opened \in Nat /\ MaxFiles \in Nat /\ opened <= MaxFiles
  BY <1>1, ExecuteAssumption
<1>2. CASE Call
  <2>1. /\ argv' \in Seq(Argument) /\ args' = argv' /\ room' = Sum(argv') /\ room' \in Nat
        /\ i' = 0 /\ top' = 0
    <3>1. argv' \in Seq(Argument) /\ args' = argv' /\ room' = Sum(argv') /\ i' = 0 /\ top' = 0
      BY <1>2, ExecuteAssumption DEF Call
    <3> QED BY <3>1, SumOfRest
  <2>2. saved' \in [Stream -> {Console, NoHandle}] /\ child' = child
    BY <1>2 DEF Call
  <2>3. /\ opened' = opened /\ pc' \in {"idle", "build"} /\ opened + 2 <= MaxFiles
    BY <1>2 DEF Call, Return
  <2>4. Inside'
    BY <2>1, EmptyEnds DEF Inside
  <2>5. CommandLineFits'
    <3>1. top' = 0 /\ room' \in Nat /\ pc' \in {"idle", "build"}
      BY <2>1, <2>3
    <3>2. ~Overrun'
      BY <3>1 DEF Overrun
    <3> QED BY <3>1, <3>2 DEF CommandLineFits
  <2> QED BY <1>1, <2>1, <2>2, <2>3, <2>4, <2>5 DEF LineInv
<1>3. CASE BuildArgument \/ BuildQuote \/ BuildEnd
  BY <1>3, ArgumentStep, QuoteStep, EndStep
<1>4. CASE Wait
  <2>1. /\ pc = "wait" /\ pc' = "idle" /\ UNCHANGED line /\ UNCHANGED <<saved, opened, child>>
    BY <1>4 DEF Wait, Return, redirection
  <2> QED BY <1>1, <2>1, LineKept DEF LineInv
<1>5. CASE RedirectStdout
  <2>1. /\ pc = "redirect stdout" /\ UNCHANGED <<line, child>>
        /\ std = Consoles
    BY <1>5 DEF RedirectStdout, input, RInv
  <2>2. /\ opened' \in {opened, opened + 1} /\ pc' \in {"redirect stderr", "idle"}
        /\ saved' = saved \/ saved' = [saved EXCEPT !["stdout"] = std["stdout"]]
    BY <1>5 DEF RedirectStdout, RedirectStream, RedirectFails, Return
  <2>3. std["stdout"] = Console
    BY <2>1 DEF Consoles, Stream
  <2>4. saved' \in [Stream -> {Console, NoHandle}]
    BY <1>1, <2>2, <2>3
  <2>5. opened' \in Nat /\ opened' + 1 <= MaxFiles /\ opened' <= MaxFiles
    <3>1. opened + 2 <= MaxFiles
      BY <1>1, <2>1
    <3> QED BY <1>0, <2>2, <3>1, OneMore
  <2> QED BY <1>1, <2>1, <2>2, <2>4, <2>5, LineKept DEF LineInv
<1>6. CASE RedirectStderr
  <2>1. pc = "redirect stderr" /\ UNCHANGED <<line, child>>
    BY <1>6 DEF RedirectStderr, input
  <2>2. /\ opened' \in {opened, opened + 1} /\ pc' \in {"create", "idle"}
        /\ saved' = saved \/ saved' = [saved EXCEPT !["stderr"] = std["stderr"]]
    BY <1>6 DEF RedirectStderr, RedirectStream, RedirectFails, Return
  <2>3. std["stderr"] = Console
    BY <2>1 DEF RInv, HasFiles, Stream
  <2>4. saved' \in [Stream -> {Console, NoHandle}]
    BY <1>1, <2>2, <2>3
  <2>5. opened' \in Nat /\ opened' <= MaxFiles
    <3>1. opened + 1 <= MaxFiles
      BY <1>1, <2>1
    <3> QED BY <1>0, <2>2, <3>1, OneMore
  <2> QED BY <1>1, <2>1, <2>2, <2>4, <2>5, LineKept DEF LineInv
<1>7. CASE CreateProcess
  <2>1. /\ pc = "create" /\ UNCHANGED <<line, saved, opened>>
        /\ pc' \in {"wait", "idle"} /\ child' \in {std, child}
    BY <1>7 DEF CreateProcess, Return, input
  <2>3. std \in [Stream -> Handle]
    BY LineInvImplies DEF TypeOK
  <2> QED BY <1>1, <2>1, <2>3, LineKept DEF LineInv
<1> QED BY <1>2, <1>3, <1>4, <1>5, <1>6, <1>7 DEF Next, Step

LEMMA ExecuteStep == ASSUME RInv, LineInv, Next \/ UNCHANGED vars PROVE RInv' /\ LineInv'
<1>1. CASE UNCHANGED vars
  BY <1>1, RInvStep DEF vars, LineInv, Inside, CommandLineFits, Overrun
<1> QED BY <1>1, RInvStep, LineInvStep

-----------------------------------------------------------------------------
\* What a directory still has to answer.
Answers == [name : Name, kind : {"file", "dir"}]
Listings == Seq(Answers)

\* The function that Dir!Listed computes, and what it is.
LastListed(entries) ==
    CHOOSE f : f = [k \in 0..Len(entries) |->
        IF k = 0 THEN <<>> ELSE Dir!WithEntry(entries[Len(entries) - k + 1], f[k - 1])]

ListsLast(last, entries) ==
    /\ last \in [0..Len(entries) -> Listings] /\ last[0] = <<>>
    /\ \A k \in 1..Len(entries) :
          last[k] = Dir!WithEntry(entries[Len(entries) - k + 1], last[k - 1])

LEMMA Prepended ==
    ASSUME NEW S, NEW s \in Seq(S), NEW x \in S
    PROVE  /\ <<x>> \o s \in Seq(S) /\ <<x>> \o s # <<>>
           /\ Head(<<x>> \o s) = x /\ Tail(<<x>> \o s) = s
<1>1. <<x>> \o s \in Seq(S) /\ Len(<<x>> \o s) = Len(s) + 1 /\ (<<x>> \o s)[1] = x
  OBVIOUS
<1>2. <<x>> \o s # <<>> /\ Head(<<x>> \o s) = x
  BY <1>1
<1>3. Tail(<<x>> \o s) = s
  <2>1. Tail(<<x>> \o s) \in Seq(S) /\ Len(Tail(<<x>> \o s)) = Len(s)
    BY <1>1, <1>2
  <2>2. \A k \in 1..Len(s) : Tail(<<x>> \o s)[k] = s[k]
    BY <1>1, <1>2
  <2> QED BY <2>1, <2>2
<1> QED BY <1>1, <1>2, <1>3

LEMMA EntryListed ==
    ASSUME NEW e \in Dir!Entry, NEW listing \in Listings
    PROVE  Dir!WithEntry(e, listing) \in Listings
<1>1. Dir!Answer(e) \in Answers
  BY DEF Dir!Entry, Dir!Answer, Answers
<1> HIDE DEF Listings
<1>2. <<Dir!Answer(e)>> \o listing \in Listings
  BY <1>1, Prepended DEF Listings
<1> QED BY <1>2 DEF Dir!WithEntry

LEMMA ListedLast ==
    ASSUME NEW entries \in Seq(Dir!Entry)
    PROVE  /\ ListsLast(LastListed(entries), entries)
           /\ Dir!Listed(entries) = LastListed(entries)[Len(entries)]
<1> DEFINE n == Len(entries)
           next == [k \in 1..n |-> [x \in Listings |-> Dir!WithEntry(entries[n - k + 1], x)]]
           last == LastListed(entries)
<1>1. /\ n \in Nat /\ <<>> \in Listings
      /\ \A k \in 1..n : k - 1 \in 0..n /\ k \in 0..n /\ k # 0
  BY DEF Listings
<1>2. \A k \in 1..n : entries[n - k + 1] \in Dir!Entry
  <2>1. \A k \in 1..n : n - k + 1 \in 1..n
    BY <1>1
  <2> QED BY <2>1
<1>3. next \in [1..n -> [Listings -> Listings]]
  BY <1>2, EntryListed
<1>4. PICK f \in [0..n -> Listings] : Follows(f, <<>>, next, n)
  <2> HIDE DEF next, n
  <2> QED BY <1>1, <1>3, RecursiveSequence
<1>5. f[0] = <<>> /\ \A k \in 1..n : f[k] = Dir!WithEntry(entries[n - k + 1], f[k - 1])
  <2>1. \A k \in 1..n : \A x \in Listings : next[k][x] = Dir!WithEntry(entries[n - k + 1], x)
    OBVIOUS
  <2> HIDE DEF next, n
  <2>2. \A k \in 1..n : f[k - 1] \in Listings
    BY <1>1, <1>4
  <2> QED BY <1>4, <2>1, <2>2 DEF Follows
<1>6. f = [k \in 0..n |-> IF k = 0 THEN <<>> ELSE Dir!WithEntry(entries[n - k + 1], f[k - 1])]
  <2> HIDE DEF next
  <2>1. \A k \in 0..n : k # 0 => k \in 1..n
    BY <1>1
  <2>2. \A k \in 0..n : f[k] = IF k = 0 THEN <<>> ELSE Dir!WithEntry(entries[n - k + 1], f[k - 1])
    BY <1>5, <2>1
  <2>3. f = [k \in 0..n |-> f[k]]
    OBVIOUS
  <2> QED BY <2>2, <2>3
<1>7. last = [k \in 0..n |-> IF k = 0 THEN <<>> ELSE Dir!WithEntry(entries[n - k + 1], last[k - 1])]
  BY <1>6 DEF LastListed
<1> HIDE DEF last
<1>8. last[0] = <<>> /\ \A k \in 1..n : last[k] = Dir!WithEntry(entries[n - k + 1], last[k - 1])
  BY <1>1, <1>7
<1> DEFINE S == {k \in Int : last[k] \in Listings}
<1>9. \A k \in 0..n : k \in S
  <2>1. 0 \in S
    BY <1>8, <1>1
  <2>2. ASSUME NEW k \in 1..n, k - 1 \in S PROVE k \in S
    BY <2>2, <1>8, <1>2, EntryListed
  <2> HIDE DEF S
  <2> QED BY <2>1, <2>2, <1>1, BoundedInduction
<1>10. ListsLast(last, entries)
  BY <1>7, <1>8, <1>9 DEF ListsLast
<1> QED BY <1>10 DEF Dir!Listed, LastListed, last

\* The listing of a directory follows from its first entry and the others.
LEMMA ListedFirst ==
    ASSUME NEW entries \in Seq(Dir!Entry)
    PROVE  /\ Dir!Listed(entries) \in Listings
           /\ entries = <<>> => Dir!Listed(entries) = <<>>
           /\ entries # <<>> => Dir!Listed(entries)
                                  = Dir!WithEntry(Head(entries), Dir!Listed(Tail(entries)))
<1>1. Dir!Listed(entries) \in Listings /\ (entries = <<>> => Dir!Listed(entries) = <<>>)
  <2>1. Len(entries) \in 0..Len(entries) /\ (entries = <<>> => Len(entries) = 0)
    OBVIOUS
  <2> QED BY <2>1, ListedLast DEF ListsLast
<1>2. ASSUME entries # <<>>
      PROVE  Dir!Listed(entries) = Dir!WithEntry(Head(entries), Dir!Listed(Tail(entries)))
  <2> DEFINE tail == Tail(entries)
             m == Len(tail)
             whole == LastListed(entries)
             part == LastListed(tail)
  <2>1. /\ tail \in Seq(Dir!Entry) /\ Len(entries) = m + 1 /\ m \in Nat
        /\ entries[1] = Head(entries) /\ \A k \in 1..m : tail[k] = entries[k + 1]
    BY <1>2
  <2>2. ListsLast(whole, entries) /\ ListsLast(part, tail)
    BY <2>1, ListedLast
  <2> HIDE DEF whole, part, tail, m
  <2> DEFINE T == {k \in Int : whole[k] = part[k]}
  <2>3. 0 \in T
    BY <2>2 DEF ListsLast
  <2>4. ASSUME NEW k \in 1..m, k - 1 \in T PROVE k \in T
    <3>1. /\ k \in 1..Len(tail) /\ k \in 1..Len(entries)
          /\ Len(entries) - k + 1 = (m - k + 1) + 1 /\ m - k + 1 \in 1..m
      BY <2>1 DEF m
    <3>2. tail[m - k + 1] = entries[Len(entries) - k + 1]
      BY <2>1, <3>1
    <3>3. whole[k] = Dir!WithEntry(entries[Len(entries) - k + 1], whole[k - 1])
      BY <2>2, <3>1 DEF ListsLast
    <3>4. part[k] = Dir!WithEntry(tail[m - k + 1], part[k - 1])
      BY <2>2, <3>1 DEF ListsLast, m
    <3>5. whole[k - 1] = part[k - 1]
      BY <2>4
    <3> QED BY <3>2, <3>3, <3>4, <3>5
  <2>5. whole[m] = part[m]
    <3>1. \A k \in 0..m : k \in T
      <4> HIDE DEF T
      <4> QED BY <2>1, <2>3, <2>4, BoundedInduction
    <3> QED BY <2>1, <3>1
  <2>6. whole[m + 1] = Dir!WithEntry(entries[1], whole[m])
    <3>1. m + 1 \in 1..Len(entries) /\ Len(entries) - (m + 1) + 1 = 1 /\ m + 1 - 1 = m
      BY <2>1
    <3>2. SUFFICES ASSUME NEW k \in 1..Len(entries), k = m + 1
                   PROVE  whole[k] = Dir!WithEntry(entries[1], whole[m])
      BY <3>1
    <3>3. Len(entries) - k + 1 = 1 /\ k - 1 = m
      BY <2>1, <3>2
    <3>4. whole[k] = Dir!WithEntry(entries[Len(entries) - k + 1], whole[k - 1])
      BY <2>2 DEF ListsLast
    <3> QED BY <3>3, <3>4
  <2> QED BY <2>1, <2>5, <2>6, ListedLast DEF whole, part, m, tail
<1> QED BY <1>1, <1>2

-----------------------------------------------------------------------------
LEMMA DirTypesInit == Dir!Init => Dir!TypeOK
<1> SUFFICES ASSUME Dir!Init PROVE Dir!TypeOK
  OBVIOUS
<1> USE DEF Dir!Init, Dir!INVALID
<1>1. failures \in 0..CloseFailures
  BY ServicesAssumption DEF Dir!DirAssumption
<1>2. rest \in Seq(Dir!Entry) /\ rest = <<>> /\ dir # "open" /\ dir = "INVALID_HANDLE_VALUE"
  OBVIOUS
<1>3. /\ data \in {NULL, Blank} /\ reading \in BOOLEAN
      /\ answer \in [name : Name, kind : {"file", "dir"}] \cup {Nothing}
  OBVIOUS
<1> QED BY <1>1, <1>2, <1>3, Zenon DEF Dir!TypeOK

\* Reading directories keeps the types.
LEMMA DirTypesKept == ASSUME Dir!TypeOK, Dir!Next PROVE Dir!TypeOK'
<1> USE DEF Dir!TypeOK, Dir!INVALID
<1>1. Dir!DirAssumption
  BY ServicesAssumption
<1>2. CASE Dir!OS_OpenDir
  <2>1. ASSUME NEW entries \in Directory
        PROVE  Head(entries) \in Dir!Entry /\ Tail(entries) \in Seq(Dir!Entry)
    <3>1. entries \in Seq(Dir!Entry) /\ entries # <<>>
      BY <1>1 DEF Dir!DirAssumption
    <3> QED BY <3>1
  <2> QED BY <1>2, <2>1 DEF Dir!OS_OpenDir
<1>3. ASSUME Dir!FindClose
      PROVE  /\ dir' \in {"open", Dir!INVALID} /\ rest' \in Seq(Dir!Entry)
             /\ failures' \in 0..CloseFailures
             /\ dir' = "open" => dir = "open" /\ data' = data
             /\ dir' = Dir!INVALID => data' \in {NULL, Blank} /\ rest' = <<>>
  <2>1. CASE dir' = Dir!INVALID /\ data' = NULL /\ rest' = <<>> /\ UNCHANGED failures
    BY <2>1
  <2>2. CASE /\ failures < CloseFailures
             /\ failures' = failures + 1 /\ UNCHANGED <<dir, data, rest>>
    <3>1. failures' \in 0..CloseFailures
      BY <1>1, <2>2 DEF Dir!DirAssumption
    <3> QED BY <2>2, <3>1
  <2> QED BY <1>3, <2>1, <2>2 DEF Dir!FindClose
<1>4. CASE Dir!OS_CloseDir
  BY <1>3, <1>4 DEF Dir!OS_CloseDir
<1>5. CASE Dir!OS_ReadDir
  BY <1>5 DEF Dir!OS_ReadDir
<1>6. CASE Dir!ReadRound
  <2>1. Dir!Answer(data) \in Answers
    BY <1>6 DEF Dir!ReadRound, Dir!Answer, Dir!Entry, Answers
  <2>2. reading' \in BOOLEAN /\ answer' \in Answers \cup {Nothing}
    BY <1>6, <2>1 DEF Dir!ReadRound, Answers
  <2>3. CASE rest = <<>>
    BY <1>3, <1>6, <2>2, <2>3 DEF Dir!ReadRound, Dir!FindNextFile, Answers
  <2>4. CASE rest # <<>>
    BY <1>6, <2>2, <2>4 DEF Dir!ReadRound, Dir!FindNextFile, Answers
  <2> QED BY <2>3, <2>4
<1>7. CASE Dir!ReadEnd
  BY <1>7 DEF Dir!ReadEnd
<1> QED BY <1>2, <1>4, <1>5, <1>6, <1>7 DEF Dir!Next, Dir!Round

\* What is still to be answered while a directory is read.
LEMMA RemainingFirst ==
    ASSUME Dir!TypeOK, dir = "open"
    PROVE  /\ Dir!Listed(rest) \in Listings /\ (rest = <<>> => Dir!Listed(rest) = <<>>)
           /\ Dir!Remaining = Dir!WithEntry(data, Dir!Listed(rest))
<1>1. data \in Dir!Entry /\ rest \in Seq(Dir!Entry)
  BY DEF Dir!TypeOK
<1>2. /\ <<data>> \o rest \in Seq(Dir!Entry) /\ <<data>> \o rest # <<>>
      /\ Head(<<data>> \o rest) = data /\ Tail(<<data>> \o rest) = rest
  BY <1>1, Prepended
<1> QED BY <1>1, <1>2, ListedFirst DEF Dir!Remaining

\* Every step of a reading is one that AbstractDir allows, or changes nothing there.
LEMMA DirStep ==
    ASSUME Dir!TypeOK, Dir!Next
    PROVE  Dir!Promise!Next \/ UNCHANGED <<Dir!Remaining, answer, failures>>
<1> DEFINE Goal == Dir!Promise!Next \/ UNCHANGED <<Dir!Remaining, answer, failures>>
<1>1. Dir!DirAssumption /\ Dir!TypeOK'
  BY ServicesAssumption, DirTypesKept
<1>2. dir' = Dir!INVALID => Dir!Remaining' = <<>>
  BY DEF Dir!Remaining, Dir!INVALID
<1>3. dir = Dir!INVALID => Dir!Remaining = <<>>
  BY DEF Dir!Remaining, Dir!INVALID
<1>4. CASE Dir!OS_OpenDir
  <2>1. dir = Dir!INVALID /\ answer' = answer /\ failures' = failures
    BY <1>4 DEF Dir!OS_OpenDir
  <2>2. CASE UNCHANGED dir
    BY <1>2, <1>3, <2>1, <2>2
  <2>3. ASSUME NEW entries \in Directory,
               dir' = "open", data' = Head(entries), rest' = Tail(entries)
        PROVE  Goal
    <3>1. entries \in Seq(Dir!Entry) /\ entries # <<>>
      BY <1>1 DEF Dir!DirAssumption
    <3>2. <<Head(entries)>> \o Tail(entries) = entries
      BY <3>1
    <3>3. Dir!Remaining' = Dir!Listed(entries)
      BY <2>3, <3>2 DEF Dir!Remaining
    <3>4. Dir!Promise!Open
      BY <1>3, <2>1, <3>3 DEF Dir!Promise!Open
    <3> QED BY <3>4 DEF Dir!Promise!Next
  <2> QED BY <1>4, <2>2, <2>3 DEF Dir!OS_OpenDir
<1>5. CASE Dir!OS_CloseDir
  <2>1. answer' = answer
    BY <1>5 DEF Dir!OS_CloseDir
  <2>2. CASE UNCHANGED <<dir, data, rest, failures>>
    BY <2>1, <2>2 DEF Dir!Remaining
  <2>3. CASE dir' = Dir!INVALID /\ failures' = failures
    BY <1>2, <2>1, <2>3 DEF Dir!Promise!Close, Dir!Promise!Next
  <2>4. CASE failures' = failures + 1 /\ UNCHANGED <<dir, data, rest>>
    <3>1. Dir!Remaining' = Dir!Remaining
      BY <2>4 DEF Dir!Remaining
    <3> QED BY <2>1, <2>4, <3>1 DEF Dir!Promise!CloseFails, Dir!Promise!Refused, Dir!Promise!Next
  <2> QED BY <1>5, <2>2, <2>3, <2>4 DEF Dir!OS_CloseDir, Dir!FindClose
<1>6. CASE Dir!OS_ReadDir
  BY <1>6 DEF Dir!OS_ReadDir, Dir!Remaining
<1>7. CASE Dir!ReadRound
  <2> DEFINE others == Dir!Listed(rest)
  <2>1. /\ dir = "open" /\ others \in Listings /\ (rest = <<>> => others = <<>>)
        /\ Dir!Remaining = Dir!WithEntry(data, others)
    BY <1>7, RemainingFirst DEF Dir!ReadRound
  <2>2. \/ Dir!Remaining' = others /\ failures' = failures
        \/ rest = <<>> /\ Dir!Remaining' = Dir!Remaining /\ failures' = failures + 1
    <3>1. CASE rest = <<>>
      <4>1. CASE failures' = failures + 1 /\ UNCHANGED <<dir, data, rest>>
        BY <3>1, <4>1 DEF Dir!Remaining
      <4>2. CASE dir' = Dir!INVALID /\ failures' = failures
        BY <1>2, <2>1, <3>1, <4>2
      <4> QED BY <1>7, <3>1, <4>1, <4>2 DEF Dir!ReadRound, Dir!FindNextFile, Dir!FindClose
    <3>2. CASE rest # <<>>
      <4>1. /\ dir' = "open" /\ data' = Head(rest) /\ rest' = Tail(rest) /\ failures' = failures
            /\ rest \in Seq(Dir!Entry)
        BY <1>7, <2>1, <3>2 DEF Dir!ReadRound, Dir!FindNextFile, Dir!TypeOK
      <4>2. <<Head(rest)>> \o Tail(rest) = rest
        BY <3>2, <4>1
      <4> QED BY <4>1, <4>2 DEF Dir!Remaining
    <3> QED BY <3>1, <3>2
  <2>3. CASE Dir!Readable(data)
    <3>1. answer' = Dir!Answer(data) /\ Dir!Answer(data) \in Answers
      BY <1>1, <1>7, <2>1, <2>3 DEF Dir!ReadRound, Dir!TypeOK, Dir!Entry, Dir!Answer, Answers
    <3>2. Dir!Remaining = <<Dir!Answer(data)>> \o others
      BY <2>1, <2>3 DEF Dir!WithEntry
    <3>3. /\ Dir!Remaining # <<>> /\ Head(Dir!Remaining) = answer'
          /\ Tail(Dir!Remaining) = others
      BY <2>1, <3>1, <3>2, Prepended DEF Listings
    <3>4. CASE Dir!Remaining' = others /\ failures' = failures
      BY <3>3, <3>4 DEF Dir!Promise!ReadEntry, Dir!Promise!Next
    <3>5. CASE rest = <<>> /\ Dir!Remaining' = Dir!Remaining /\ failures' = failures + 1
      <4>1. Len(Dir!Remaining) = 1
        BY <2>1, <3>2, <3>5
      <4> QED BY <3>3, <3>5, <4>1 DEF Dir!Promise!ReadLastAgain, Dir!Promise!Refused, Dir!Promise!Next
    <3> QED BY <2>2, <3>4, <3>5
  <2>4. CASE ~Dir!Readable(data)
    <3>1. Dir!Remaining = others /\ answer' = answer
      BY <1>7, <2>1, <2>4 DEF Dir!WithEntry, Dir!ReadRound
    <3>2. CASE Dir!Remaining' = others /\ failures' = failures
      BY <3>1, <3>2
    <3>3. CASE Dir!Remaining' = Dir!Remaining /\ failures' = failures + 1
      BY <3>1, <3>3 DEF Dir!Promise!CloseFails, Dir!Promise!Refused, Dir!Promise!Next
    <3> QED BY <2>2, <3>2, <3>3
  <2> QED BY <2>3, <2>4
<1>8. CASE Dir!ReadEnd
  <2>1. dir = Dir!INVALID /\ dir' = Dir!INVALID /\ answer' = Nothing /\ failures' = failures
    BY <1>8 DEF Dir!ReadEnd
  <2> QED BY <1>2, <1>3, <2>1 DEF Dir!Promise!ReadEnd, Dir!Promise!Next
<1> QED BY <1>4, <1>5, <1>6, <1>7, <1>8 DEF Dir!Next, Dir!Round

-----------------------------------------------------------------------------

\* A step of the two services is one of the execution, or of the reading, or
\* leaves each as it is.
LEMMA ServicesStep ==
    ASSUME [ServicesNext]_<<vars, directory>>
    PROVE  (Next \/ UNCHANGED vars) /\ (Dir!Next \/ UNCHANGED directory)
BY DEF ServicesNext, Executes, Reads

(***************************************************************************)
(* Reading a directory answers each readable entry once, in the order of   *)
(* the system and with its own kind, and then the end: the entry that      *)
(* waits in the buffer is not lost, and it is answered again only as often *)
(* as the system has refused to end the search.                            *)
(***************************************************************************)
THEOREM DirectoriesRead == ServicesSpec => Implements
<1> DEFINE all == <<vars, directory>>
<1>1. ServicesInit => Dir!TypeOK /\ Dir!Promise!Init
  BY DirTypesInit DEF ServicesInit, Dir!Init, Dir!INVALID, Dir!Promise!Init, Dir!Remaining
<1>2. Dir!TypeOK /\ [ServicesNext]_all
        => Dir!TypeOK' /\ [Dir!Promise!Next]_<<Dir!Remaining, answer, failures>>
  <2> SUFFICES ASSUME Dir!TypeOK, [ServicesNext]_all
               PROVE  Dir!TypeOK' /\ [Dir!Promise!Next]_<<Dir!Remaining, answer, failures>>
    OBVIOUS
  <2>1. CASE UNCHANGED directory
    BY <2>1 DEF directory, Dir!TypeOK, Dir!Remaining
  <2>2. CASE Dir!Next
    BY <2>2, DirTypesKept, DirStep
  <2> QED BY <2>1, <2>2 DEF ServicesNext, Executes, Reads
<1> QED BY <1>1, <1>2, PTL DEF ServicesSpec, Implements, Dir!Implements, Dir!Promise!Spec

(***************************************************************************)
(* No uninitialized handle becomes a standard one, the child has the files *)
(* that were given, the parent its own handles back; and the buffer of a   *)
(* search is there exactly as long as the search is open.                  *)
(***************************************************************************)
THEOREM HandlesAreKept == ServicesSpec => []HandlesKept
<1>1. ServicesInit => RInv /\ LineInv /\ Dir!TypeOK
  BY RInvInit, LineInvInit, DirTypesInit DEF ServicesInit
<1>2. RInv /\ LineInv /\ Dir!TypeOK /\ [ServicesNext]_<<vars, directory>>
        => RInv' /\ LineInv' /\ Dir!TypeOK'
  <2> SUFFICES ASSUME RInv, LineInv, Dir!TypeOK, [ServicesNext]_<<vars, directory>>
               PROVE  RInv' /\ LineInv' /\ Dir!TypeOK'
    OBVIOUS
  <2>1. RInv' /\ LineInv'
    BY ServicesStep, ExecuteStep
  <2>2. Dir!TypeOK'
    BY ServicesStep, DirTypesKept DEF Dir!TypeOK, directory
  <2> QED BY <2>1, <2>2
<1>3. RInv /\ LineInv /\ Dir!TypeOK => HandlesKept
  BY RInvImplies, LineInvImplies DEF HandlesKept, TypesOK
<1> QED BY <1>1, <1>2, <1>3, PTL DEF ServicesSpec

(***************************************************************************)
(* The estimate of three characters for each argument is enough for its    *)
(* quotes, its space and the end of the command line.  Something else is   *)
(* written behind the allocation exactly for the empty argument vector,    *)
(* and on reaching an argument with a quote and no space.                  *)
(***************************************************************************)
THEOREM CommandLineHasRoom == ServicesSpec => []CommandLineFits
<1>1. ServicesInit => RInv /\ LineInv
  BY RInvInit, LineInvInit DEF ServicesInit
<1>2. RInv /\ LineInv /\ [ServicesNext]_<<vars, directory>> => RInv' /\ LineInv'
  BY ServicesStep, ExecuteStep
<1>3. RInv /\ LineInv => CommandLineFits
  BY DEF LineInv
<1> QED BY <1>1, <1>2, <1>3, PTL DEF ServicesSpec
=============================================================================
