--------------------------- MODULE LinkNamesProofs ---------------------------
(***************************************************************************)
(* The theorems of LinkNames: for every program, the shared buffer is only *)
(* appended to while an argument list is spelled into it, a link name that *)
(* has been set is never set again, and every name is the one its entity   *)
(* has to have.                                                            *)
(***************************************************************************)
EXTENDS LinkNames, Recursion, SequenceTheorems

Name == Seq(Token)

LEMMA NullIsName == NULL \in Name
BY DEF NULL, Name

\* The pieces a name is made of are names.
LEMMA PieceType ==
    ASSUME NEW text \in Text, NEW of \in Seq(Spelling)
    PROVE  Piece(text, of) \in Name /\ Len(Piece(text, of)) = 1
BY DEF Piece, Name, Token

LEMMA MarkType ==
    ASSUME NEW text \in Text
    PROVE  Piece(text, NULL) \in Name /\ Len(Piece(text, NULL)) = 1
<1>1. NULL \in Seq(Spelling)
  BY DEF NULL
<1> QED BY <1>1, PieceType, Zenon

LEMMA WordType ==
    ASSUME NEW text \in Text, NEW e \in Spelling
    PROVE  Piece(text, <<e>>) \in Name /\ Len(Piece(text, <<e>>)) = 1
<1>1. <<e>> \in Seq(Spelling)
  OBVIOUS
<1> QED BY <1>1, PieceType, Zenon

LEMMA ConcatName ==
    ASSUME NEW s \in Name, NEW t \in Name
    PROVE  s \o t \in Name /\ Len(s \o t) = Len(s) + Len(t)
BY DEF Name

LEMMA LenNull == Len(NULL) = 0
BY DEF NULL

LEMMA IdentType ==
    ASSUME NEW o \in Object \cup Class
    PROVE  Ident(o) \in Name /\ Len(Ident(o)) = 1
<1>1. VarName[o] \in Spelling
  BY ObjectAssumption DEF Spelling
<1>2. "ident" \in Text
  BY DEF Text
<1> QED BY <1>1, <1>2, WordType, Zenon DEF Ident

LEMMA SpelledType ==
    ASSUME NEW req \in ListRequest
    PROVE  Spelled(req) \in Function \cup Class
BY ObjectAssumption DEF ListRequest, LinkRequest, Spelled

LEMMA ArgsType ==
    ASSUME NEW req \in ListRequest
    PROVE  Args(req) \in Seq(TemplArg)
BY SpelledType, ObjectAssumption DEF Args

LEMMA HeadType ==
    ASSUME NEW req \in ListRequest
    PROVE  NameHead(req) \in Name /\ NameHead(req) # NULL
<1>1. /\ Ident(Spelled(req)) \in Name /\ Len(Ident(Spelled(req))) = 1
      /\ Len(Ident(Spelled(req))) > 0
  BY IdentType, SpelledType DEF Object
<1>2. /\ Piece("@LOCAL@", NULL) \in Name
      /\ Piece("@STRING@", NULL) \in Name
      /\ Len(Piece("@LOCAL@", NULL)) = 1
      /\ Len(Piece("@STRING@", NULL)) = 1
  BY MarkType DEF Text
<1>3. /\ Piece("@LOCAL@", NULL) \o Ident(Spelled(req)) \in Name
      /\ Len(Piece("@LOCAL@", NULL) \o Ident(Spelled(req))) > 0
  BY <1>1, <1>2, ConcatName
<1>4. /\ Piece("@STRING@", NULL) \o Ident(Spelled(req)) \in Name
      /\ Len(Piece("@STRING@", NULL) \o Ident(Spelled(req))) > 0
  BY <1>1, <1>2, ConcatName
<1>5. \/ NameHead(req) = Piece("@LOCAL@", NULL) \o Ident(Spelled(req))
      \/ NameHead(req) = Piece("@STRING@", NULL) \o Ident(Spelled(req))
      \/ NameHead(req) = Ident(Spelled(req))
  BY DEF NameHead
<1>6. NameHead(req) \in Name /\ Len(NameHead(req)) > 0
  BY <1>1, <1>3, <1>4, <1>5, Zenon
<1> QED BY <1>6, LenNull

LEMMA SuffixType ==
    ASSUME NEW n \in Int
    PROVE  NumberSuffix(n) \in Name
<1>1. CASE n > 0
  <2>1. n - 1 \in Spelling
    BY DEF Spelling
  <2>2. "@" \in Text
    BY DEF Text
  <2>3. Piece("@", <<n - 1>>) \in Name
    BY <2>1, <2>2, WordType, Zenon
  <2> QED BY <1>1, <2>3 DEF NumberSuffix
<1>2. CASE ~(n > 0)
  BY <1>2, NullIsName DEF NumberSuffix, NULL
<1> QED BY <1>1, <1>2

LEMMA SignatureType ==
    ASSUME NEW f \in Function
    PROVE  Signature(f) \in Name
<1>1. f \in Spelling
  BY DEF Spelling
<1>2. "__F" \in Text
  BY DEF Text
<1> QED BY <1>1, <1>2, WordType, Zenon DEF Signature

LEMMA TailType ==
    ASSUME NEW req \in ListRequest
    PROVE  NameTail(req) \in Name
<1>1. CASE req.op = "instance"
  BY <1>1, NullIsName DEF NameTail, NULL
<1>2. CASE req.op = "link"
  BY <1>2, SignatureType DEF NameTail, ListRequest, LinkRequest
<1>3. CASE req.op = "local"
  <2>1. req.obj \in LocalVar /\ req.num \in Int
    BY <1>3 DEF ListRequest, LinkRequest
  <2>2. Signature(Spelled(req)) \in Name
    BY <1>3, <2>1, SignatureType, ObjectAssumption DEF Spelled
  <2>3. Piece("@", NULL) \in Name
    BY MarkType DEF Text
  <2>4. Ident(req.obj) \in Name
    BY <2>1, IdentType, ObjectAssumption DEF Object
  <2>5. NumberSuffix(req.num) \in Name
    BY <2>1, SuffixType
  <2>6. Signature(Spelled(req)) \o Piece("@", NULL) \in Name
    BY <2>2, <2>3, ConcatName
  <2>7. Signature(Spelled(req)) \o Piece("@", NULL) \o Ident(req.obj) \in Name
    BY <2>4, <2>6, ConcatName
  <2>8. Signature(Spelled(req)) \o Piece("@", NULL) \o Ident(req.obj)
           \o NumberSuffix(req.num) \in Name
    BY <2>5, <2>7, ConcatName
  <2> QED BY <1>3, <2>8 DEF NameTail
<1>4. CASE req.op = "string"
  <2>1. req.obj \in Function /\ req.num \in Int
    BY <1>4, ObjectAssumption DEF ListRequest, LinkRequest
  <2>2. Signature(req.obj) \in Name /\ NumberSuffix(req.num) \in Name
    BY <2>1, SignatureType, SuffixType
  <2> QED BY <1>4, <2>2, ConcatName DEF NameTail
<1> QED BY <1>1, <1>2, <1>3, <1>4 DEF ListRequest, LinkRequest

LEMMA TailNotEmpty ==
    ASSUME NEW req \in ListRequest, req.op \in {"link", "local"}
    PROVE  Len(NameTail(req)) > 0
<1>1. "__F" \in Text
  BY DEF Text
<1>2. \A f \in Function : Signature(f) \in Name /\ Len(Signature(f)) = 1
  <2> TAKE f \in Function
  <2>1. f \in Spelling
    BY DEF Spelling
  <2> QED BY <1>1, <2>1, WordType, Zenon DEF Signature
<1>3. CASE req.op = "link"
  <2>1. req.obj \in Function
    BY <1>3 DEF ListRequest, LinkRequest
  <2>2. Len(Signature(req.obj)) = 1 /\ NameTail(req) = Signature(req.obj)
    BY <1>2, <1>3, <2>1 DEF NameTail
  <2> QED BY <2>2
<1>4. CASE req.op = "local"
  <2>1. req.obj \in LocalVar /\ req.num \in Int
    BY <1>4 DEF ListRequest, LinkRequest
  <2>2. Spelled(req) \in Function
    BY <1>4, <2>1, ObjectAssumption DEF Spelled
  <2>3. Signature(Spelled(req)) \in Name /\ Len(Signature(Spelled(req))) = 1
    BY <1>2, <2>2
  <2>4. Piece("@", NULL) \in Name
    BY MarkType DEF Text
  <2>5. Ident(req.obj) \in Name
    BY <2>1, IdentType, ObjectAssumption DEF Object
  <2>6. NumberSuffix(req.num) \in Name
    BY <2>1, SuffixType
  <2>7. Len(Signature(Spelled(req)) \o Piece("@", NULL)) > 0
    BY <2>3, <2>4 DEF Name
  <2>8. Len(Signature(Spelled(req)) \o Piece("@", NULL) \o Ident(req.obj)) > 0
    BY <2>3, <2>4, <2>5, <2>7 DEF Name
  <2>9. Len(Signature(Spelled(req)) \o Piece("@", NULL) \o Ident(req.obj)
               \o NumberSuffix(req.num)) > 0
    BY <2>3, <2>4, <2>5, <2>6, <2>8 DEF Name
  <2> QED BY <1>4, <2>9 DEF NameTail
<1> QED BY <1>3, <1>4

LEMMA ArgTextType ==
    ASSUME NEW args \in Seq(TemplArg), NEW i \in 1..Len(args), NEW name \in Name
    PROVE  ArgText(args, i, name) \in Name
<1>1. args[i] \in TemplArg
  OBVIOUS
<1>2. args[i].kind \in Text \/ args[i].kind \in RefArg
  BY <1>1 DEF TemplArg, Text
<1> DEFINE open == Piece(IF i = 1 THEN "<" ELSE ",", NULL)
           text == IF args[i].kind \in RefArg THEN Piece("&", NULL) \o name
                                              ELSE Piece(args[i].kind, NULL)
           close == IF i = Len(args) THEN Piece(">", NULL) ELSE <<>>
<1>3. /\ Piece("<", NULL) \in Name /\ Piece(",", NULL) \in Name
      /\ Piece("&", NULL) \in Name /\ Piece(">", NULL) \in Name
      /\ args[i].kind \notin RefArg => Piece(args[i].kind, NULL) \in Name
  BY <1>2, MarkType DEF Text
<1>4. open \in Name
  BY <1>3
<1>5. text \in Name
  BY <1>3, ConcatName
<1>6. close \in Name
  BY <1>3, NullIsName DEF NULL
<1>7. open \o text \in Name
  BY <1>4, <1>5, ConcatName
<1>8. open \o text \o close \in Name
  BY <1>6, <1>7, ConcatName
<1> QED BY <1>8 DEF ArgText

LEMMA DataNameType ==
    ASSUME NEW d \in Data
    PROVE  DataName(d) \in Name /\ DataName(d) # NULL
<1>1. Ident(d) \in Name /\ Len(Ident(d)) = 1 /\ Len(Ident(d)) > 0
  BY IdentType DEF Object
<1>2. d \in Spelling /\ "__" \in Text
  BY DEF Spelling, Text
<1>3. Piece("__", <<d>>) \in Name /\ Len(Piece("__", <<d>>)) = 1
  BY <1>2, WordType, Zenon
<1>4. /\ Ident(d) \o Piece("__", <<d>>) \in Name
      /\ Len(Ident(d) \o Piece("__", <<d>>)) > 0
  BY <1>1, <1>3, ConcatName
<1>5. DataName(d) = Ident(d) \/ DataName(d) = Ident(d) \o Piece("__", <<d>>)
  BY DEF DataName
<1>6. DataName(d) \in Name /\ Len(DataName(d)) > 0
  BY <1>1, <1>4, <1>5, Zenon
<1> QED BY <1>6, LenNull

LEMMA AfterLinkNameType ==
    ASSUME NEW req \in AfterLinkRequest, NEW name \in Name
    PROVE  AfterLinkName(req, name) \in Name
<1>1. CASE req.op = "thunk"
  <2>1. req.num \in Int \X Int \X Int
    BY <1>1, ObjectAssumption DEF AfterLinkRequest
  <2>2. req.num[1] \in Int /\ req.num[2] \in Int /\ req.num[3] \in Int
    BY <2>1
  <2>3. /\ -req.num[1] \in Spelling /\ req.num[2] \in Spelling
        /\ req.num[3] \in Spelling
    BY <2>2 DEF Spelling
  <2>4. /\ <<-req.num[1]>> \in Seq(Spelling)
        /\ <<-req.num[1], req.num[3]>> \in Seq(Spelling)
        /\ <<-req.num[1], req.num[3], req.num[2]>> \in Seq(Spelling)
    BY <2>3
  <2>5. "@" \in Text
    BY DEF Text
  <2>6. /\ Piece("@", <<-req.num[1]>>) \in Name
        /\ Piece("@", <<-req.num[1], req.num[3]>>) \in Name
        /\ Piece("@", <<-req.num[1], req.num[3], req.num[2]>>) \in Name
    BY <2>4, <2>5, PieceType, Zenon
  <2>7. ThunkPrefix(req.num) \in Name
    BY <2>6, Zenon DEF ThunkPrefix
  <2> QED BY <1>1, <2>7, ConcatName DEF AfterLinkName
<1>2. CASE req.op = "covariant"
  <2>1. req.num \in Spelling
    BY <1>2 DEF AfterLinkRequest, Spelling
  <2>2. Piece("@@", <<req.num>>) \in Name
    <3>1. "@@" \in Text
      BY DEF Text
    <3> QED BY <2>1, <3>1, WordType, Zenon
  <2> QED BY <1>2, <2>2, ConcatName DEF AfterLinkName
<1> QED BY <1>1, <1>2 DEF AfterLinkRequest

LEMMA GuardNameType ==
    ASSUME NEW name \in Name
    PROVE  GuardName(name) \in Name
<1>1. GuardText(name) \in Name
  <2>1. CASE \E k \in 1..Len(name) : FirstIsLocal(name, k)
    <3> DEFINE first == CHOOSE k \in 1..Len(name) : FirstIsLocal(name, k)
    <3>1. first \in 1..Len(name)
      BY <2>1
    <3> HIDE DEF first
    <3>2. SubSeq(name, first + 1, Len(name)) \in Name
      BY <3>1 DEF Name
    <3> QED BY <2>1, <3>2 DEF GuardText, first
  <2>2. CASE ~\E k \in 1..Len(name) : FirstIsLocal(name, k)
    BY <2>2 DEF GuardText
  <2> QED BY <2>1, <2>2
<1>2. Piece("@GUARD@", NULL) \in Name
  BY MarkType DEF Text
<1> QED BY <1>1, <1>2, ConcatName DEF GuardName

-----------------------------------------------------------------------------
(***************************************************************************)
(* What the steps have in common.                                          *)
(***************************************************************************)
LEMMA RequestFrame ==
    ASSUME NEW req \in Request
    PROVE  /\ StartFrame(req) \in Frame
           /\ StartFrame(req).i = 1 /\ StartFrame(req).req = req
           /\ req \in ListRequest <=> StartFrame(req).phase = "check"
           /\ req \in AfterLinkRequest <=> StartFrame(req).phase = "await"
BY DEF StartFrame, Frame, Request, ListRequest, LinkRequest, AfterLinkRequest

LEMMA ResolveType ==
    ASSUME NEW o \in Object
    PROVE  /\ Resolve(o) \in Function \cup Data \cup Other
           /\ Resolve(Resolve(o)) = Resolve(o)
BY ObjectAssumption DEF Object, Resolve

LEMMA ArgRef ==
    ASSUME NEW req \in ListRequest, NEW j \in 1..Len(Args(req)),
           Args(req)[j].kind \in RefArg
    PROVE  /\ Args(req)[j].ref \in Object
           /\ Resolve(Args(req)[j].ref) \notin LocalVar
           /\ Age[Resolve(Args(req)[j].ref)] < Age[Spelled(req)]
<1>1. Args(req)[j] \in TemplArg
  BY ArgsType
<1>2. Args(req)[j].ref \in Object
  BY <1>1 DEF TemplArg, PlainArg, RefArg
<1> QED BY <1>2, SpelledType, ArgumentsAreOlder DEF Args

LEMMA TopType ==
    ASSUME TypeOK, stack # <<>>
    PROVE  /\ Len(stack) \in Nat \ {0}
           /\ Top \in Frame /\ Top = stack[Len(stack)]
           /\ Top.i \in 1..(Len(Args(Top.req)) + 1)
BY DEF TypeOK, Top, Frame

-----------------------------------------------------------------------------
(***************************************************************************)
(* The invariant, said of a link-name table and a frame, so that it can be *)
(* used before and after a step alike.                                     *)
(***************************************************************************)
Passed(names, arg) ==
    arg.kind \in RefArg /\ Resolve(arg.ref) \in Named => names[Resolve(arg.ref)] # NULL

Ahead(names, fr) ==
    /\ fr.phase = "check" => \A j \in 1..(fr.i - 1) : Passed(names, Args(fr.req)[j])
    /\ fr.phase = "append" => \A j \in 1..Len(Args(fr.req)) : Passed(names, Args(fr.req)[j])

Unnamed(names, fr) == fr.req.op \in {"link", "local"} => names[fr.req.obj] = NULL

NestedIn(fr, caller) ==
    /\ fr.req.op = "link"
    /\ caller.phase # "await" => Age[fr.req.obj] < Age[Spelled(caller.req)]

Within(fr) == fr.i <= Len(Args(fr.req)) + 1

LEMMA PassedIs ==
    \A arg : Passed(linkname, arg) <=> ~NeedsName(arg)
BY DEF Passed, NeedsName, Known

LEMMA StackInv ==
    IInv <=> /\ linkname \in [Named -> Name] /\ buf \in Name
             /\ \A answer \in given : answer[2] \in Name
             /\ stack \in Seq(Frame)
             /\ \A k \in 1..Len(stack) :
                   /\ Within(stack[k])
                   /\ Ahead(linkname, stack[k])
                   /\ Unnamed(linkname, stack[k])
                   /\ \A j \in 1..(k - 1) : NestedIn(stack[k], stack[j])
BY PassedIs DEF IInv, TypeOK, PrepassDone, NotYetNamed, NestedAreOlder, Ahead,
                Unnamed, NestedIn, Within, Name

LEMMA StackInvNext ==
    IInv' <=> /\ linkname' \in [Named -> Name] /\ buf' \in Name
              /\ \A answer \in given' : answer[2] \in Name
              /\ stack' \in Seq(Frame)
              /\ \A k \in 1..Len(stack') :
                    /\ Within(stack'[k])
                    /\ Ahead(linkname', stack'[k])
                    /\ Unnamed(linkname', stack'[k])
                    /\ \A j \in 1..(k - 1) : NestedIn(stack'[k], stack'[j])
<1>1. \A arg : Passed(linkname', arg) <=> ~NeedsName(arg)'
  BY DEF Passed, NeedsName, Known
<1> QED BY <1>1 DEF IInv, TypeOK, PrepassDone, NotYetNamed, NestedAreOlder, Ahead,
                    Unnamed, NestedIn, Within, Name

LEMMA AheadStays ==
    ASSUME NEW names, NEW names2, NEW fr, Ahead(names, fr),
           \A x \in Named : names[x] # NULL => names2[x] # NULL
    PROVE  Ahead(names2, fr)
BY DEF Ahead, Passed

(***************************************************************************)
(* A step leaves the first n frames alone, and may put one on top of them. *)
(***************************************************************************)
LEMMA StackKeeps ==
    ASSUME IInv,
           linkname' \in [Named -> Name], buf' \in Name,
           \A answer \in given' : answer[2] \in Name,
           \A x \in Named : linkname[x] # NULL => linkname'[x] # NULL,
           NEW n \in Nat, n <= Len(stack), stack' \in Seq(Frame),
           Len(stack') \in {n, n + 1},
           \A k \in 1..n : stack'[k] = stack[k] /\ Unnamed(linkname', stack[k]),
           Len(stack') = n + 1 =>
              /\ Within(stack'[n + 1])
              /\ Ahead(linkname', stack'[n + 1])
              /\ Unnamed(linkname', stack'[n + 1])
              /\ \A j \in 1..n : NestedIn(stack'[n + 1], stack[j])
    PROVE  IInv'
<1>1. ASSUME NEW k \in 1..Len(stack')
      PROVE  /\ Within(stack'[k])
             /\ Ahead(linkname', stack'[k])
             /\ Unnamed(linkname', stack'[k])
             /\ \A j \in 1..(k - 1) : NestedIn(stack'[k], stack'[j])
  <2>0. Len(stack) \in Nat
    BY StackInv
  <2>1. CASE k \in 1..n
    <3>1. k \in 1..Len(stack) /\ stack'[k] = stack[k]
      BY <2>0, <2>1
    <3>2. \A j \in 1..(k - 1) : stack'[j] = stack[j]
      BY <2>1
    <3>3. Ahead(linkname', stack[k])
      BY <3>1, StackInv, AheadStays
    <3> QED BY <2>1, <3>1, <3>2, <3>3, StackInv
  <2>2. CASE k = n + 1 /\ Len(stack') = n + 1
    <3>1. \A j \in 1..(k - 1) : j \in 1..n /\ stack'[j] = stack[j]
      BY <2>2
    <3> QED BY <2>2, <3>1
  <2> QED BY <2>1, <2>2
<1> QED BY <1>1, StackInvNext

-----------------------------------------------------------------------------
LEMMA LastReplaced ==
    ASSUME NEW S, NEW s \in Seq(S), NEW e \in S, NEW n \in Nat, Len(s) = n + 1
    PROVE  LET t == [s EXCEPT ![Len(s)] = e]
           IN  /\ t \in Seq(S) /\ Len(t) = n + 1 /\ t[n + 1] = e
               /\ \A k \in 1..n : t[k] = s[k]
OBVIOUS

LEMMA LastDropped ==
    ASSUME NEW S, NEW s \in Seq(S), NEW n \in Nat, Len(s) = n + 1
    PROVE  LET t == SubSeq(s, 1, Len(s) - 1)
           IN  /\ t \in Seq(S) /\ Len(t) = n
               /\ \A k \in 1..n : t[k] = s[k]
OBVIOUS

LEMMA StackTop ==
    ASSUME IInv, stack # <<>>
    PROVE  /\ Len(stack) \in Nat \ {0} /\ Top = stack[Len(stack)]
           /\ Top \in Frame
           /\ Top.i \in 1..(Len(Args(Top.req)) + 1)
           /\ Ahead(linkname, Top) /\ Unnamed(linkname, Top)
           /\ \A j \in 1..(Len(stack) - 1) : NestedIn(Top, stack[j])
<1>1. stack \in Seq(Frame) /\ Len(stack) \in Nat \ {0}
  BY StackInv
<1>2. Top = stack[Len(stack)] /\ Top \in Frame
  BY <1>1 DEF Top
<1>3. Top.i \in Nat \ {0}
  BY <1>2 DEF Frame
<1>4. Top.i <= Len(Args(Top.req)) + 1
  BY <1>1, <1>2, StackInv DEF Within
<1>5. Args(Top.req) \in Seq(TemplArg)
  <2>1. Spelled(Top.req) \in Function \cup Class
    BY <1>2, ObjectAssumption DEF Frame, Spelled, ListRequest, LinkRequest, AfterLinkRequest
  <2> QED BY <2>1, ObjectAssumption DEF Args
<1>6. Top.i \in 1..(Len(Args(Top.req)) + 1)
  BY <1>3, <1>4, <1>5
<1> QED BY <1>1, <1>2, <1>6, StackInv

\* A procedure is entered.
LEMMA CallKeeps ==
    ASSUME IInv, NEW req \in Request, Call(req),
           UNCHANGED <<linkname, buf, given>>,
           req.op \in {"link", "local"} => linkname[req.obj] = NULL,
           \A j \in 1..Len(stack) :
              /\ req.op = "link"
              /\ stack[j].phase # "await" => Age[req.obj] < Age[Spelled(stack[j].req)]
    PROVE  IInv'
<1> DEFINE n == Len(stack)
<1>1. stack \in Seq(Frame) /\ n \in Nat
  BY StackInv
<1>2. /\ StartFrame(req) \in Frame
      /\ StartFrame(req).req = req /\ StartFrame(req).i = 1
      /\ StartFrame(req).phase # "append"
  BY RequestFrame DEF StartFrame
<1>3. /\ stack' \in Seq(Frame) /\ Len(stack') = n + 1
      /\ \A k \in 1..n : stack'[k] = stack[k]
      /\ stack'[n + 1] = StartFrame(req)
  BY <1>1, <1>2 DEF Call
<1>4. Len(Args(req)) \in Nat
  <2>1. Spelled(req) \in Function \cup Class
    BY ObjectAssumption DEF Spelled, Request, ListRequest, LinkRequest, AfterLinkRequest
  <2> QED BY <2>1, ObjectAssumption DEF Args
<1>5. /\ Within(StartFrame(req)) /\ Ahead(linkname', StartFrame(req))
      /\ Unnamed(linkname', StartFrame(req))
      /\ \A j \in 1..n : NestedIn(StartFrame(req), stack[j])
  BY <1>2, <1>4 DEF Within, Ahead, Unnamed, NestedIn
<1>6. /\ linkname' \in [Named -> Name] /\ buf' \in Name
      /\ \A answer \in given' : answer[2] \in Name
      /\ \A k \in 1..n : Unnamed(linkname', stack[k])
  BY StackInv
<1> QED BY <1>1, <1>3, <1>5, <1>6, StackKeeps

\* The procedure on top goes on to another frame.
LEMMA StayKeeps ==
    ASSUME IInv, stack # <<>>, NEW fr \in Frame,
           stack' = [stack EXCEPT ![Len(stack)] = fr],
           fr.req = Top.req, Within(fr), Ahead(linkname, fr),
           UNCHANGED <<linkname, given>>, buf' \in Name
    PROVE  IInv'
<1> DEFINE n == Len(stack) - 1
<1>1. /\ stack \in Seq(Frame) /\ n \in Nat
      /\ Len(stack) = n + 1 /\ n <= Len(stack)
  BY StackInv, StackTop
<1> HIDE DEF n
<1>2. /\ stack' \in Seq(Frame) /\ Len(stack') = n + 1
      /\ \A k \in 1..n : stack'[k] = stack[k]
      /\ stack'[n + 1] = fr
  BY <1>1, LastReplaced
<1>3. /\ Unnamed(linkname', fr)
      /\ \A j \in 1..n : NestedIn(fr, stack[j])
  BY StackTop DEF Unnamed, NestedIn, n
<1>4. /\ linkname' \in [Named -> Name]
      /\ \A answer \in given' : answer[2] \in Name
      /\ \A k \in 1..n : Unnamed(linkname', stack[k])
      /\ Ahead(linkname', fr)
  BY <1>1, StackInv
<1> QED BY <1>1, <1>2, <1>3, <1>4, StackKeeps

\* The procedure on top returns, having named at most the object it was
\* called for.
LEMMA ReturnKeeps ==
    ASSUME IInv, stack # <<>>, Return, buf' \in Name,
           \A answer \in given' : answer[2] \in Name,
           \/ linkname' = linkname
           \/ /\ Top.req.op \in {"link", "local"}
              /\ \E name \in Name : name # NULL /\ Assign(Top.req.obj, name)
    PROVE  IInv'
<1> DEFINE n == Len(stack) - 1
<1>1. /\ stack \in Seq(Frame) /\ n \in Nat
      /\ Len(stack) = n + 1 /\ n <= Len(stack)
  BY StackInv, StackTop
<1>2. /\ stack' \in Seq(Frame) /\ Len(stack') = n
      /\ \A k \in 1..n : stack'[k] = stack[k]
  BY <1>1, LastDropped DEF Return
<1> HIDE DEF n
<1>3. Top.req.op \in {"link", "local"} => Top.req.obj \in Named
  BY StackTop, ObjectAssumption DEF Frame, ListRequest, LinkRequest, AfterLinkRequest, Named
<1>4. /\ linkname' \in [Named -> Name]
      /\ \A x \in Named : linkname[x] # NULL => linkname'[x] # NULL
  BY <1>3, StackInv DEF Assign
<1>5. ASSUME NEW k \in 1..n
      PROVE  Unnamed(linkname', stack[k])
  <2>1. k \in 1..Len(stack) /\ k \in 1..(Len(stack) - 1) /\ stack[k] \in Frame
    BY <1>1 DEF n
  <2>2. Unnamed(linkname, stack[k]) /\ NestedIn(Top, stack[k])
    BY <2>1, StackInv, StackTop
  <2>3. stack[k].req.op \in {"link", "local"} =>
           /\ stack[k].req.obj \in Named
           /\ stack[k].req.obj # Top.req.obj
    <3> SUFFICES ASSUME stack[k].req.op \in {"link", "local"}
                 PROVE  /\ stack[k].req.obj \in Named
                        /\ stack[k].req.obj # Top.req.obj
      OBVIOUS
    <3>1. /\ stack[k].req \in ListRequest /\ stack[k].phase # "await"
          /\ stack[k].req.obj \in Named
      BY <2>1, ObjectAssumption
      DEF Frame, ListRequest, LinkRequest, AfterLinkRequest, Named
    <3>2. Top.req.op = "link" /\ Age[Top.req.obj] < Age[Spelled(stack[k].req)]
      BY <2>2, <3>1 DEF NestedIn
    <3>3. Top.req.obj \in Function
      BY <3>2, StackTop DEF Frame, ListRequest, LinkRequest, AfterLinkRequest
    <3>4. CASE stack[k].req.op = "local"
      <4>1. stack[k].req.obj \in LocalVar
        BY <3>4, <3>1 DEF ListRequest, LinkRequest
      <4> QED BY <3>1, <3>3, <4>1, ObjectAssumption
    <3>5. CASE stack[k].req.op = "link"
      <4>1. Spelled(stack[k].req) = stack[k].req.obj
        BY <3>5 DEF Spelled
      <4>2. Age[Top.req.obj] \in Nat
        BY <3>3, ObjectAssumption DEF Object
      <4> QED BY <3>1, <3>2, <4>1, <4>2
    <3> QED BY <3>1, <3>4, <3>5
  <2> QED BY <2>2, <2>3, StackInv DEF Unnamed, Assign
<1> QED BY <1>1, <1>2, <1>4, <1>5, StackKeeps

\* DataLinkName names a datum that is not a local static.
LEMMA LinkDataKeeps ==
    ASSUME IInv, NEW d \in Data, d \notin LocalVar, LinkData(d)
    PROVE  IInv'
<1>1. /\ DataName(d) \in Name /\ DataName(d) # NULL /\ d \in Named
      /\ NULL \in Name
  BY DataNameType, NullIsName DEF Named
<1>2. /\ linkname' = [linkname EXCEPT ![d] = DataName(d)]
      /\ stack' = stack /\ given' = given
      /\ buf' = IF d \in Scoped THEN DataName(d) ELSE NULL
  BY DEF LinkData, Assign, NULL
<1>3. /\ linkname' \in [Named -> Name] /\ buf' \in Name
      /\ \A x \in Named : linkname[x] # NULL => linkname'[x] # NULL
      /\ \A answer \in given' : answer[2] \in Name
  BY <1>1, <1>2, StackInv
<1>4. stack \in Seq(Frame) /\ Len(stack) \in Nat
  BY StackInv
<1>5. ASSUME NEW k \in 1..Len(stack)
      PROVE  Unnamed(linkname', stack[k])
  <2>1. stack[k] \in Frame /\ Unnamed(linkname, stack[k])
    BY <1>4, StackInv
  <2>2. stack[k].req.op \in {"link", "local"} =>
           stack[k].req.obj \in Function \cup LocalVar
    BY <2>1 DEF Frame, ListRequest, LinkRequest, AfterLinkRequest
  <2>3. stack[k].req.op \in {"link", "local"} =>
           stack[k].req.obj \in Named \ {d}
    BY <2>2, ObjectAssumption DEF Named
  <2> QED BY <2>1, <2>3, <1>2, StackInv DEF Unnamed
<1>6. \A k \in 1..Len(stack') :
          /\ Within(stack'[k]) /\ Ahead(linkname', stack'[k])
          /\ \A j \in 1..(k - 1) : NestedIn(stack'[k], stack'[j])
  BY <1>2, <1>3, <1>4, StackInv, AheadStays
<1> QED BY <1>2, <1>3, <1>4, <1>5, <1>6, StackInvNext

\* GetLinkName of an object without a name, older than what is being spelled.
LEMMA LinkObjectKeeps ==
    ASSUME IInv, NEW o \in Object, ~Known(o), Resolve(o) \notin LocalVar,
           LinkObject(o),
           \A j \in 1..Len(stack) :
              stack[j].phase # "await" => Age[Resolve(o)] < Age[Spelled(stack[j].req)]
    PROVE  IInv'
<1>1. CASE Resolve(o) \in Data /\ LinkData(Resolve(o))
  BY <1>1, LinkDataKeeps
<1>2. CASE Resolve(o) \in Function /\ LinkFunction(Resolve(o))
  <2> DEFINE req == [op |-> "link", obj |-> Resolve(o), num |-> NULL]
  <2>1. req \in Request /\ req.op = "link" /\ req.obj = Resolve(o)
    BY <1>2 DEF Request, ListRequest, LinkRequest
  <2>2. Call(req) /\ UNCHANGED <<linkname, buf, given>>
    BY <1>2 DEF LinkFunction
  <2>3. linkname[req.obj] = NULL
    BY <2>1 DEF Known
  <2> HIDE DEF req
  <2> QED BY <2>1, <2>2, <2>3, CallKeeps
<1> QED BY <1>1, <1>2 DEF LinkObject

-----------------------------------------------------------------------------
(***************************************************************************)
(* The entry points.                                                       *)
(***************************************************************************)
LEMMA InitIInv == Init => IInv
<1> SUFFICES ASSUME Init PROVE IInv
  OBVIOUS
<1>1. linkname \in [Named -> Name] /\ buf \in Name /\ stack = <<>> /\ given = {}
  BY NullIsName DEF Init, NULL
<1>2. stack \in Seq(Frame) /\ 1..Len(stack) = {}
  BY <1>1
<1> QED BY <1>1, <1>2, StackInv

LEMMA IdleCallKeeps ==
    ASSUME IInv, Idle, NEW req \in Request, Call(req),
           req.op \in {"link", "local"} => linkname[req.obj] = NULL,
           UNCHANGED <<linkname, buf, given>>
    PROVE  IInv'
<1>1. 1..Len(stack) = {}
  BY DEF Idle
<1> QED BY <1>1, CallKeeps

\* A name assembled in one go from an idle state.
LEMMA IdleNameKeeps ==
    ASSUME IInv, Idle, NEW name \in Name, NEW req, buf' \in Name,
           Remember(req, name), UNCHANGED <<linkname, stack>>
    PROVE  IInv'
<1>1. stack' = <<>> /\ 1..Len(stack') = {}
  BY DEF Idle
<1>2. /\ linkname' \in [Named -> Name] /\ stack' \in Seq(Frame)
      /\ \A answer \in given' : answer[2] \in Name
  BY StackInv DEF Remember
<1> QED BY <1>1, <1>2, StackInvNext

LEMMA GetLinkNameKeeps ==
    ASSUME IInv, NEW o \in Object, GetLinkName(o)
    PROVE  IInv'
<1>1. CASE Known(o)
  <2>1. UNCHANGED vars
    BY <1>1 DEF GetLinkName
  <2> QED BY <2>1, StackInv, StackInvNext DEF vars
<1>2. CASE ~Known(o)
  <2>1. LinkObject(o) /\ Resolve(o) \notin LocalVar /\ 1..Len(stack) = {}
    BY <1>2 DEF GetLinkName, Idle
  <2> QED BY <1>2, <2>1, LinkObjectKeeps
<1> QED BY <1>1, <1>2

LEMMA SetupLocalVarNameKeeps ==
    ASSUME IInv, NEW d \in LocalVar, SetupLocalVarName(d)
    PROVE  IInv'
<1> DEFINE req == [op |-> "local", obj |-> d, num |-> LocalNum[d]]
<1>1. req \in Request /\ req.obj = d
  BY ObjectAssumption DEF Request, ListRequest
<1>2. /\ Idle /\ Call(req) /\ linkname[d] = NULL
      /\ UNCHANGED <<linkname, buf, given>>
  BY DEF SetupLocalVarName
<1> HIDE DEF req
<1> QED BY <1>1, <1>2, IdleCallKeeps

LEMMA AskKeeps ==
    ASSUME IInv, NEW req \in Request, req.op \notin {"link", "local"}, Ask(req)
    PROVE  IInv'
BY IdleCallKeeps DEF Ask

LEMMA AtomicNamesKeep ==
    ASSUME IInv, NEW t \in MangledType,
           VTableName(t) \/ RTTIObjectName(t) \/ ConversionFuncName(t)
    PROVE  IInv'
<1>1. /\ Piece("__vt__", <<t>>) \in Name /\ Piece("__RTTI__", <<t>>) \in Name
      /\ Piece("__op", <<t>>) \in Name /\ Piece("__op", NULL) \in Name
  <2>1. /\ "__vt__" \in Text /\ "__RTTI__" \in Text /\ "__op" \in Text
        /\ t \in Spelling
    BY DEF Text, Spelling
  <2> QED BY <2>1, WordType, MarkType, Zenon
<1>2. CASE VTableName(t)
  BY <1>1, <1>2, IdleNameKeeps DEF VTableName, TypeName
<1>3. CASE RTTIObjectName(t)
  BY <1>1, <1>3, IdleNameKeeps DEF RTTIObjectName, TypeName
<1>4. CASE t \notin DependentType /\ TypeName("__op", t)
  BY <1>1, <1>4, IdleNameKeeps DEF TypeName
<1>5. CASE ~(t \notin DependentType /\ TypeName("__op", t)) /\ ConversionFuncName(t)
  BY <1>1, <1>5, StackInv, IdleNameKeeps DEF ConversionFuncName
<1> QED BY <1>2, <1>3, <1>4, <1>5

LEMMA SetupGuardVarNameKeeps ==
    ASSUME IInv, NEW d \in Data, SetupGuardVarName(d)
    PROVE  IInv'
<1>1. linkname[d] \in Name
  BY StackInv DEF Named
<1>2. GuardName(linkname[d]) \in Name
  BY <1>1, GuardNameType
<1> QED BY <1>2, IdleNameKeeps DEF SetupGuardVarName

-----------------------------------------------------------------------------
(***************************************************************************)
(* The steps of the procedure on top.                                      *)
(***************************************************************************)
\* A procedure that walks an argument list is called for a ListRequest.
LEMMA TopLists ==
    ASSUME IInv, Running("check") \/ Running("append")
    PROVE  Top.req \in ListRequest /\ stack # <<>>
BY StackTop DEF Running, Frame

LEMMA TopAdvances ==
    ASSUME IInv, Running("check") \/ Running("append"), Top.i <= Len(TopArgs)
    PROVE  /\ TopArgs = Args(Top.req) /\ Top.i \in 1..Len(TopArgs)
           /\ TopArgs[Top.i] \in TemplArg
           /\ [Top EXCEPT !.i = Top.i + 1] \in Frame
           /\ Within([Top EXCEPT !.i = Top.i + 1])
<1>1. Top.req \in ListRequest /\ stack # <<>> /\ Top \in Frame /\ Top.i \in Nat \ {0}
  BY TopLists, StackTop
<1>2. TopArgs = Args(Top.req) /\ TopArgs \in Seq(TemplArg)
  BY <1>1, ArgsType DEF TopArgs
<1>3. Top.i \in 1..Len(TopArgs) /\ TopArgs[Top.i] \in TemplArg
  BY <1>1, <1>2
<1>4. Top \in [req : ListRequest, phase : {"check", "append"}, i : Nat \ {0}]
  BY <1>1 DEF Frame, ListRequest, LinkRequest, AfterLinkRequest
<1>5. [Top EXCEPT !.i = Top.i + 1] \in Frame
  BY <1>1, <1>4 DEF Frame
<1>6. Within([Top EXCEPT !.i = Top.i + 1])
  BY <1>1, <1>2, <1>3, <1>4 DEF Within
<1> QED BY <1>2, <1>3, <1>5, <1>6

\* What the list on top spells is older than what its callers spell.
LEMMA TopArgIsOlder ==
    ASSUME IInv, Running("check"), Top.i <= Len(TopArgs),
           NeedsName(TopArgs[Top.i])
    PROVE  LET o == TopArgs[Top.i].ref
           IN  /\ o \in Object /\ ~Known(o) /\ Resolve(o) \notin LocalVar
               /\ \A j \in 1..Len(stack) :
                     stack[j].phase # "await" =>
                        Age[Resolve(o)] < Age[Spelled(stack[j].req)]
<1> DEFINE o == TopArgs[Top.i].ref
<1>1. /\ Top.req \in ListRequest /\ stack # <<>>
      /\ TopArgs = Args(Top.req) /\ Top.i \in 1..Len(TopArgs)
  BY TopLists, TopAdvances
<1>2. /\ o \in Object /\ Resolve(o) \notin LocalVar
      /\ Age[Resolve(o)] < Age[Spelled(Top.req)]
      /\ ~Known(o)
  BY <1>1, ArgRef DEF NeedsName
<1>3. ASSUME NEW j \in 1..Len(stack), stack[j].phase # "await"
      PROVE  Age[Resolve(o)] < Age[Spelled(stack[j].req)]
  <2>1. Len(stack) \in Nat \ {0} /\ Top = stack[Len(stack)]
    BY <1>1, StackTop
  <2>2. CASE j = Len(stack)
    BY <1>2, <2>1, <2>2
  <2>3. CASE j \in 1..(Len(stack) - 1)
    <3>1. Top.req.op = "link" /\ Age[Top.req.obj] < Age[Spelled(stack[j].req)]
      BY <1>1, <1>3, <2>3, StackTop DEF NestedIn
    <3>2. Spelled(Top.req) = Top.req.obj
      BY <3>1 DEF Spelled
    <3>3. /\ Age[Resolve(o)] \in Nat /\ Age[Spelled(Top.req)] \in Nat
          /\ Age[Spelled(stack[j].req)] \in Nat
      <4>1. Resolve(o) \in Object
        BY <1>2, ResolveType DEF Object
      <4>2. Spelled(Top.req) \in Object \cup Class
        BY <1>1, SpelledType DEF Object
      <4>3. stack[j] \in Frame
        BY StackInv
      <4>4. Spelled(stack[j].req) \in Object \cup Class
        BY <4>3, ObjectAssumption
        DEF Frame, ListRequest, LinkRequest, AfterLinkRequest, Spelled, Object
      <4> QED BY <4>1, <4>2, <4>4, ObjectAssumption
    <3> QED BY <1>2, <3>1, <3>2, <3>3
  <2> QED BY <2>1, <2>2, <2>3
<1> QED BY <1>2, <1>3

\* Advance, and the fact about the list that lets it.
LEMMA AdvanceKeeps ==
    ASSUME IInv, Running("check") \/ Running("append"), Top.i <= Len(TopArgs),
           Advance, ~NeedsName(TopArgs[Top.i]),
           UNCHANGED <<linkname, given>>, buf' \in Name
    PROVE  IInv'
<1> DEFINE fr == [Top EXCEPT !.i = Top.i + 1]
<1>1. /\ TopArgs = Args(Top.req) /\ Top.i \in 1..Len(TopArgs)
      /\ fr \in Frame /\ Within(fr) /\ stack # <<>>
  BY TopLists, TopAdvances
<1>2. Top \in Frame /\ stack \in Seq(Frame) /\ Top = stack[Len(stack)]
      /\ Len(stack) \in 1..Len(stack) /\ Ahead(linkname, Top)
  BY <1>1, StackInv, StackTop
<1>3. stack' = [stack EXCEPT ![Len(stack)] = fr]
  BY <1>2 DEF Advance
<1>4. fr.req = Top.req /\ fr.phase = Top.phase /\ fr.i = Top.i + 1
  BY <1>2 DEF Frame
<1>5. Ahead(linkname, fr)
  <2>1. Passed(linkname, Args(Top.req)[Top.i])
    BY <1>1, PassedIs
  <2>2. ASSUME NEW j \in 1..Top.i, Top.phase = "check"
        PROVE  Passed(linkname, Args(Top.req)[j])
    <3>1. CASE j = Top.i
      BY <2>1, <3>1
    <3>2. CASE j \in 1..(Top.i - 1)
      BY <1>2, <2>2, <3>2 DEF Ahead
    <3> QED BY <1>1, <3>1, <3>2
  <2>3. fr.i - 1 = Top.i
    BY <1>1, <1>4
  <2> QED BY <1>2, <1>4, <2>2, <2>3 DEF Ahead
<1> HIDE DEF fr
<1> QED BY <1>1, <1>3, <1>4, <1>5, StayKeeps

LEMMA CheckArgKeeps == ASSUME IInv, CheckArg PROVE IInv'
<1>1. Running("check") /\ Top.i <= Len(TopArgs)
  BY DEF CheckArg
<1>2. CASE NeedsName(TopArgs[Top.i])
  <2>1. LinkObject(TopArgs[Top.i].ref)
    BY <1>2 DEF CheckArg
  <2> QED BY <1>1, <1>2, <2>1, TopArgIsOlder, LinkObjectKeeps
<1>3. CASE ~NeedsName(TopArgs[Top.i])
  <2>1. Advance /\ UNCHANGED <<linkname, buf, given>>
    BY <1>3 DEF CheckArg
  <2> QED BY <1>1, <1>3, <2>1, AdvanceKeeps, StackInv
<1> QED BY <1>2, <1>3

LEMMA BeginNameKeeps == ASSUME IInv, BeginName PROVE IInv'
<1> DEFINE fr == [req |-> Top.req, phase |-> "append", i |-> 1]
<1>1. /\ Running("check") /\ Top.i > Len(TopArgs) /\ buf' = NameHead(Top.req)
      /\ stack' = [stack EXCEPT ![Len(stack)] =
                                   [req |-> Top.req, phase |-> "append", i |-> 1]]
      /\ UNCHANGED <<linkname, given>>
  BY DEF BeginName
<1>2. /\ Top.req \in ListRequest /\ stack # <<>> /\ Top \in Frame
      /\ stack \in Seq(Frame) /\ Top = stack[Len(stack)]
      /\ Len(stack) \in 1..Len(stack) /\ Ahead(linkname, Top)
      /\ Top.phase = "check" /\ TopArgs = Args(Top.req) /\ Top.i \in Nat
      /\ TopArgs \in Seq(TemplArg)
  BY <1>1, TopLists, StackTop, StackInv, ArgsType DEF Running, TopArgs
<1>3. stack' = [stack EXCEPT ![Len(stack)] = fr]
  BY <1>1, <1>2
<1>4. /\ fr.req = Top.req /\ fr.phase = "append" /\ fr.i = 1 /\ fr \in Frame
  BY <1>2 DEF Frame
<1>5. Within(fr)
  BY <1>2, <1>4 DEF Within
<1>6. Ahead(linkname, fr)
  <2>1. \A j \in 1..Len(Args(Top.req)) : j \in 1..(Top.i - 1)
    BY <1>1, <1>2
  <2> QED BY <1>2, <1>4, <2>1 DEF Ahead
<1>7. buf' \in Name
  BY <1>1, <1>2, HeadType
<1> HIDE DEF fr
<1> QED BY <1>1, <1>2, <1>3, <1>4, <1>5, <1>6, <1>7, StayKeeps

LEMMA KeepIdentifierKeeps == ASSUME IInv, KeepIdentifier PROVE IInv'
<1>1. /\ stack # <<>> /\ Top.req \in ListRequest /\ Top.req.op = "link"
      /\ Assign(Top.req.obj, Ident(Top.req.obj)) /\ Return
      /\ buf' = NULL /\ UNCHANGED given
  BY TopLists DEF KeepIdentifier, NULL
<1>2. Top.req.obj \in Object \cup Class
  BY <1>1 DEF ListRequest, LinkRequest, Object
<1>3. Ident(Top.req.obj) \in Name /\ Ident(Top.req.obj) # NULL
  BY <1>2, IdentType, LenNull
<1> QED BY <1>1, <1>3, NullIsName, StackInv, ReturnKeeps

\* The pre-pass has named every argument before the list is spelled.
LEMMA AppendNeedsNoName ==
    ASSUME IInv, Running("append"), Top.i <= Len(TopArgs)
    PROVE  ~NeedsName(TopArgs[Top.i])
<1>1. stack # <<>> /\ Top.phase = "append"
  BY DEF Running
<1>2. TopArgs = Args(Top.req) /\ Top.i \in 1..Len(TopArgs)
  BY TopAdvances
<1> QED BY <1>1, <1>2, StackTop, PassedIs DEF Ahead

LEMMA AppendArgText ==
    ASSUME IInv, AppendArg
    PROVE  /\ Advance /\ UNCHANGED <<linkname, given>>
           /\ \E text \in Name : buf' = buf \o text
<1>1. /\ Running("append") /\ Top.i <= Len(TopArgs)
      /\ ~NeedsName(TopArgs[Top.i])
  BY AppendNeedsNoName DEF AppendArg
<1> DEFINE name == IF TopArgs[Top.i].kind \in RefArg
                   THEN LinkName(TopArgs[Top.i].ref) ELSE NULL
<1>2. /\ buf' = buf \o ArgText(TopArgs, Top.i, name)
      /\ Advance /\ UNCHANGED <<linkname, given>>
  BY <1>1 DEF AppendArg
<1>3. /\ Top.req \in ListRequest /\ TopArgs = Args(Top.req)
      /\ Top.i \in 1..Len(TopArgs)
  BY <1>1, TopLists, TopAdvances
<1>4. name \in Name
  <2>1. CASE TopArgs[Top.i].kind \in RefArg
    <3>1. TopArgs[Top.i].ref \in Object
      BY <1>3, <2>1, ArgRef
    <3>2. Resolve(TopArgs[Top.i].ref) \in Object
      BY <3>1, ResolveType DEF Object
    <3>3. Ident(Resolve(TopArgs[Top.i].ref)) \in Name
      BY <3>2, IdentType
    <3>4. LinkName(TopArgs[Top.i].ref) \in Name
      BY <3>3, StackInv DEF LinkName
    <3> QED BY <2>1, <3>4
  <2>2. CASE TopArgs[Top.i].kind \notin RefArg
    BY <2>2, NullIsName
  <2> QED BY <2>1, <2>2
<1> HIDE DEF name
<1>5. ArgText(TopArgs, Top.i, name) \in Name
  BY <1>3, <1>4, ArgsType, ArgTextType
<1> QED BY <1>2, <1>5

LEMMA AppendArgKeeps == ASSUME IInv, AppendArg PROVE IInv'
<1>1. PICK text \in Name : buf' = buf \o text
  BY AppendArgText
<1>2. buf' \in Name
  BY <1>1, ConcatName, StackInv
<1>3. /\ Running("append") /\ Top.i <= Len(TopArgs)
      /\ ~NeedsName(TopArgs[Top.i])
  BY AppendNeedsNoName DEF AppendArg
<1> QED BY <1>2, <1>3, AppendArgText, AdvanceKeeps

LEMMA FinishNameKeeps == ASSUME IInv, FinishName PROVE IInv'
<1>1. /\ Running("append") /\ Return /\ buf' = buf \o NameTail(Top.req)
  BY DEF FinishName
<1>2. stack # <<>> /\ Top.req \in ListRequest
  BY <1>1, TopLists
<1>3. NameTail(Top.req) \in Name /\ buf \in Name
  BY <1>2, TailType, StackInv
<1>4. buf' \in Name
  BY <1>1, <1>3, ConcatName
<1>5. CASE Top.req.op \in {"link", "local"} /\ Assign(Top.req.obj, buf') /\ UNCHANGED given
  <2>1. Len(NameTail(Top.req)) > 0
    BY <1>2, <1>5, TailNotEmpty
  <2>2. Len(buf \o NameTail(Top.req)) > 0
    BY <1>3, <2>1, ConcatName DEF Name
  <2>3. buf' # NULL
    BY <1>1, <2>2, LenNull
  <2> QED BY <1>1, <1>2, <1>4, <1>5, <2>3, StackInv, ReturnKeeps
<1>6. CASE Remember(Top.req, buf') /\ UNCHANGED linkname
  <2>1. \A answer \in given' : answer[2] \in Name
    BY <1>4, <1>6, StackInv DEF Remember
  <2> QED BY <1>1, <1>2, <1>4, <1>6, <2>1, ReturnKeeps
<1> QED BY <1>5, <1>6 DEF FinishName

LEMMA AwaitLinkKeeps == ASSUME IInv, AwaitLink PROVE IInv'
<1>1. /\ stack # <<>> /\ Top \in Frame /\ Top.phase = "await"
      /\ Top = stack[Len(stack)] /\ Len(stack) \in Nat \ {0}
      /\ \A j \in 1..(Len(stack) - 1) : NestedIn(Top, stack[j])
  BY StackTop DEF AwaitLink, Running
<1>2. /\ Top.req \in AfterLinkRequest /\ Top.req.op # "link"
      /\ Top.req.obj \in Function
  BY <1>1 DEF Frame, AfterLinkRequest
<1>3. Len(stack) = 1
  <2>1. Len(stack) # 1 => 1 \in 1..(Len(stack) - 1)
    <3>1. \A n \in Nat \ {0} : n # 1 => 1 \in 1..(n - 1)
      OBVIOUS
    <3> QED BY <1>1, <3>1, Zenon
  <2>2. 1 \in 1..(Len(stack) - 1) => Top.req.op = "link"
    BY <1>1, Zenon DEF NestedIn
  <2> QED BY <1>2, <2>1, <2>2
<1>4. Resolve(Top.req.obj) = Top.req.obj /\ Top.req.obj \notin LocalVar
      /\ Top.req.obj \in Object /\ Top.req.obj \in Named
  BY <1>2, ObjectAssumption DEF Resolve, Object, Named
<1>5. CASE Known(Top.req.obj)
  <2>1. LinkName(Top.req.obj) \in Name
    BY <1>4, StackInv DEF LinkName
  <2>2. /\ buf' = AfterLinkName(Top.req, LinkName(Top.req.obj)) /\ buf' \in Name
        /\ Remember(Top.req, buf') /\ Return /\ UNCHANGED linkname
    BY <1>2, <1>5, <2>1, AfterLinkNameType DEF AwaitLink
  <2>3. \A answer \in given' : answer[2] \in Name
    BY <2>2, StackInv DEF Remember
  <2> QED BY <1>1, <2>2, <2>3, ReturnKeeps
<1>6. CASE ~Known(Top.req.obj)
  <2>1. LinkObject(Top.req.obj)
    BY <1>6 DEF AwaitLink
  <2>2. \A j \in 1..Len(stack) : stack[j].phase = "await"
    BY <1>1, <1>3
  <2> QED BY <1>4, <1>6, <2>1, <2>2, LinkObjectKeeps
<1> QED BY <1>5, <1>6

-----------------------------------------------------------------------------
LEMMA EntryPointKeeps == ASSUME IInv, EntryPoint PROVE IInv'
<1>1. CASE \E o \in Object : GetLinkName(o)
  BY <1>1, GetLinkNameKeeps
<1>2. CASE \E d \in LocalVar : SetupLocalVarName(d)
  BY <1>2, SetupLocalVarNameKeeps
<1>3. CASE \E c \in Class : TemplateInstanceName(c)
  <2>1. PICK c \in Class : TemplateInstanceName(c)
    BY <1>3
  <2> DEFINE req == [op |-> "instance", obj |-> c, num |-> NULL]
  <2>2. req \in Request /\ req.op \notin {"link", "local"}
    BY DEF Request, ListRequest
  <2> QED BY <2>1, <2>2, AskKeeps DEF TemplateInstanceName
<1>4. CASE \E f \in Function, n \in StringNum : SetupLocalStringName(f, n)
  <2>1. PICK f \in Function, n \in StringNum : SetupLocalStringName(f, n)
    BY <1>4
  <2> DEFINE req == [op |-> "string", obj |-> f, num |-> n]
  <2>2. req \in Request /\ req.op \notin {"link", "local"}
    BY DEF Request, ListRequest
  <2> QED BY <2>1, <2>2, AskKeeps DEF SetupLocalStringName
<1>5. CASE \E f \in Virtual, offsets \in ThunkOffset : ThunkName(f, offsets)
  <2>1. PICK f \in Virtual, offsets \in ThunkOffset : ThunkName(f, offsets)
    BY <1>5
  <2> DEFINE req == [op |-> "thunk", obj |-> f, num |-> offsets]
  <2>2. f \in Function
    BY ObjectAssumption
  <2>3. req \in Request /\ req.op \notin {"link", "local"}
    BY <2>2 DEF Request, AfterLinkRequest
  <2> QED BY <2>1, <2>3, AskKeeps DEF ThunkName
<1>6. CASE \E f \in Virtual, t \in MangledType : CovariantFunctionName(f, t)
  <2>1. PICK f \in Virtual, t \in MangledType : CovariantFunctionName(f, t)
    BY <1>6
  <2> DEFINE req == [op |-> "covariant", obj |-> f, num |-> t]
  <2>2. f \in Function
    BY ObjectAssumption
  <2>3. req \in Request /\ req.op \notin {"link", "local"}
    BY <2>2 DEF Request, AfterLinkRequest
  <2> QED BY <2>1, <2>3, AskKeeps DEF CovariantFunctionName
<1>7. CASE \E d \in Data : SetupGuardVarName(d)
  BY <1>7, SetupGuardVarNameKeeps
<1>8. CASE \E t \in MangledType :
              VTableName(t) \/ RTTIObjectName(t) \/ ConversionFuncName(t)
  BY <1>8, AtomicNamesKeep
<1> QED
  BY <1>1, <1>2, <1>3, <1>4, <1>5, <1>6, <1>7, <1>8 DEF EntryPoint

LEMMA NextKeeps == ASSUME IInv, [Next]_vars PROVE IInv'
<1>1. CASE EntryPoint
  BY <1>1, EntryPointKeeps
<1>2. CASE CheckArg
  BY <1>2, CheckArgKeeps
<1>3. CASE BeginName
  BY <1>3, BeginNameKeeps
<1>4. CASE KeepIdentifier
  BY <1>4, KeepIdentifierKeeps
<1>5. CASE AppendArg
  BY <1>5, AppendArgKeeps
<1>6. CASE FinishName
  BY <1>6, FinishNameKeeps
<1>7. CASE AwaitLink
  BY <1>7, AwaitLinkKeeps
<1>8. CASE UNCHANGED vars
  BY <1>8, StackInv, StackInvNext DEF vars
<1> QED
  BY <1>1, <1>2, <1>3, <1>4, <1>5, <1>6, <1>7, <1>8 DEF Next, Step

\* The inductive invariant holds of every behaviour.
THEOREM IInvHolds == Spec => []IInv
<1>1. IInv /\ [Next]_vars => IInv'
  BY NextKeeps
<1> QED BY InitIInv, <1>1, PTL DEF Spec

\* Names are sequences of tokens, and no frame walks past the end of its list.
THEOREM TypeCorrect == Spec => []TypeOK
<1>1. IInv => TypeOK
  BY DEF IInv
<1> QED BY IInvHolds, <1>1, PTL

LEMMA ConcatExtends ==
    ASSUME NEW s \in Name, NEW t \in Name
    PROVE  Extends(s, s \o t)
BY DEF Extends, Name

\* While a procedure spells an argument list into name_mangle_list, every step
\* of the program, nested calls included, only appends to the buffer.
THEOREM BufferIsSafe == Spec => BufferOnlyGrows
<1>1. ASSUME IInv, [Next]_vars, Running("append")
      PROVE  Extends(buf, buf')
  <2>1. /\ Top.phase = "append" /\ stack # <<>> /\ buf \in Name
        /\ ~Running("check") /\ ~Running("await") /\ ~Idle
    BY <1>1, StackInv DEF Running, Idle
  <2>2. CASE AppendArg
    <3>1. PICK text \in Name : buf' = buf \o text
      BY <1>1, <2>2, AppendArgText
    <3> QED BY <2>1, <3>1, ConcatExtends
  <2>3. CASE FinishName
    <3>1. NameTail(Top.req) \in Name /\ buf' = buf \o NameTail(Top.req)
      BY <1>1, <2>3, TopLists, TailType DEF FinishName
    <3> QED BY <2>1, <3>1, ConcatExtends
  <2>4. CASE UNCHANGED vars
    BY <2>1, <2>4 DEF vars, Extends, Name
  <2>5. ~EntryPoint
    BY <2>1 DEF EntryPoint, GetLinkName, SetupLocalVarName, Ask, SetupGuardVarName,
                TemplateInstanceName, SetupLocalStringName, ThunkName,
                CovariantFunctionName, VTableName, RTTIObjectName,
                ConversionFuncName, TypeName
  <2>6. ~CheckArg /\ ~BeginName /\ ~KeepIdentifier /\ ~AwaitLink
    BY <2>1 DEF CheckArg, BeginName, KeepIdentifier, AwaitLink
  <2> QED BY <1>1, <2>2, <2>3, <2>4, <2>5, <2>6 DEF Next, Step
<1>2. IInv /\ [Next]_vars => [Running("append") => Extends(buf, buf')]_vars
  BY <1>1
<1> QED BY IInvHolds, <1>2, PTL DEF Spec, BufferOnlyGrows

LEMMA LinkObjectNamesOnce ==
    ASSUME IInv, NEW o \in Object, ~Known(o), LinkObject(o),
           NEW x \in Named, linkname[x] # NULL
    PROVE  linkname'[x] = linkname[x]
<1>1. Resolve(o) \in Named => linkname[Resolve(o)] = NULL
  BY DEF Known
<1>2. CASE Resolve(o) \in Data /\ LinkData(Resolve(o))
  <2>1. Resolve(o) # x
    BY <1>1, <1>2 DEF Named
  <2> QED BY <1>2, <2>1, StackInv DEF LinkData, Assign
<1>3. CASE LinkFunction(Resolve(o))
  BY <1>3 DEF LinkFunction
<1> QED BY <1>2, <1>3 DEF LinkObject

\* No step changes a link name that is set.
LEMMA NamesStay ==
    ASSUME IInv, [Next]_vars, NEW x \in Named, linkname[x] # NULL
    PROVE  linkname'[x] = linkname[x]
<1>1. CASE EntryPoint
  <2>1. CASE \E o \in Object : GetLinkName(o)
    BY <2>1, LinkObjectNamesOnce DEF GetLinkName, vars
  <2>2. CASE UNCHANGED linkname
    BY <2>2
  <2> QED BY <1>1, <2>1, <2>2
      DEF EntryPoint, SetupLocalVarName, Ask, SetupGuardVarName,
          TemplateInstanceName, SetupLocalStringName, ThunkName,
          CovariantFunctionName, VTableName, RTTIObjectName,
          ConversionFuncName, TypeName
<1>2. CASE CheckArg
  <2>1. CASE NeedsName(TopArgs[Top.i])
    BY <1>2, <2>1, TopArgIsOlder, LinkObjectNamesOnce DEF CheckArg
  <2>2. CASE ~NeedsName(TopArgs[Top.i])
    BY <1>2, <2>2 DEF CheckArg
  <2> QED BY <2>1, <2>2
<1>3. CASE BeginName
  BY <1>3 DEF BeginName
<1>4. ASSUME Running("check") \/ Running("append"),
             Top.req.op \in {"link", "local"}, NEW name, Assign(Top.req.obj, name)
      PROVE  linkname'[x] = linkname[x]
  <2>1. linkname[Top.req.obj] = NULL
    BY <1>4, TopLists, StackTop DEF Unnamed
  <2> QED BY <1>4, <2>1, StackInv DEF Assign
<1>5. CASE KeepIdentifier
  BY <1>4, <1>5 DEF KeepIdentifier
<1>6. CASE AppendArg
  BY <1>6, AppendArgText
<1>7. CASE FinishName
  BY <1>4, <1>7 DEF FinishName
<1>8. CASE AwaitLink
  <2>1. CASE Known(Top.req.obj)
    BY <1>8, <2>1 DEF AwaitLink
  <2>2. CASE ~Known(Top.req.obj)
    <3>1. Top.req.obj \in Object
      BY <1>8, StackTop
      DEF AwaitLink, Running, Frame, AfterLinkRequest, Object
    <3> QED BY <1>8, <2>2, <3>1, LinkObjectNamesOnce DEF AwaitLink
  <2> QED BY <2>1, <2>2
<1>9. CASE UNCHANGED vars
  BY <1>9 DEF vars
<1> QED BY <1>1, <1>2, <1>3, <1>5, <1>6, <1>7, <1>8, <1>9 DEF Next, Step

\* A link name that has been set is never changed: what object files and other
\* names have taken from it stays right.
THEOREM LinkNamesAreStable == Spec => LinkNameStable
<1>1. IInv /\ [Next]_vars =>
        [\A o \in Named : linkname[o] # NULL => linkname'[o] = linkname[o]]_vars
  BY NamesStay
<1> QED BY IInvHolds, <1>1, PTL DEF Spec, LinkNameStable
-----------------------------------------------------------------------------
(***************************************************************************)
(* The names as they are defined.  The definitions are recursive, along a  *)
(* list and along the ages of objects; that there are such functions is    *)
(* shown first.                                                            *)
(***************************************************************************)
\* The texts of a list satisfy the equation that defines them.
LEMMA TextsAre ==
    ASSUME NEW args \in Seq(TemplArg), NEW names, \A n \in 1..Len(args) : names[n] \in Name
    PROVE  /\ Texts(args, names) \in [0..Len(args) -> Name]
           /\ Texts(args, names)[0] = <<>>
           /\ \A n \in 1..Len(args) :
                 Texts(args, names)[n] = Texts(args, names)[n - 1] \o ArgText(args, n, names[n])
           /\ ListText(args, names) = Texts(args, names)[Len(args)]
<1> DEFINE F(t) == [n \in 0..Len(args) |->
                       IF n = 0 THEN <<>> ELSE t[n - 1] \o ArgText(args, n, names[n])]
           next == [n \in 1..Len(args) |-> [s \in Name |-> s \o ArgText(args, n, names[n])]]
<1>1. Len(args) \in Nat /\ <<>> \in Name
  BY DEF Name
<1>2. next \in [1..Len(args) -> [Name -> Name]]
  BY ArgTextType, ConcatName
<1>3. PICK t \in [0..Len(args) -> Name] : Follows(t, <<>>, next, Len(args))
  <2> HIDE DEF next
  <2> QED BY <1>1, <1>2, RecursiveSequence
<1>4. t[0] = <<>> /\ \A n \in 1..Len(args) : t[n] = t[n - 1] \o ArgText(args, n, names[n])
  <2>1. \A n \in 1..Len(args) : n - 1 \in 0..Len(args) /\ t[n - 1] \in Name
    BY <1>1
  <2> QED BY <1>3, <2>1 DEF Follows
<1>5. t = F(t)
  <2>1. \A n \in 0..Len(args) : n # 0 => n \in 1..Len(args)
    BY <1>1
  <2> QED BY <1>4, <2>1
<1>6. Texts(args, names) = F(Texts(args, names))
  <2>1. Texts(args, names) = CHOOSE text : text = F(text)
    BY DEF Texts
  <2> HIDE DEF F
  <2> QED BY <1>5, <2>1
<1>7. \A u : u = F(u) => u \in [0..Len(args) -> Name]
  <2> SUFFICES ASSUME NEW u, u = F(u) PROVE u \in [0..Len(args) -> Name]
    OBVIOUS
  <2> DEFINE S == { n \in Nat : n \in 0..Len(args) => u[n] \in Name }
  <2>1. 0 \in S
    BY <1>1
  <2>2. ASSUME NEW n \in Nat, n \in S PROVE n + 1 \in S
    <3> SUFFICES ASSUME n + 1 \in 0..Len(args) PROVE u[n + 1] \in Name
      OBVIOUS
    <3>1. n \in 0..Len(args) /\ n + 1 # 0 /\ (n + 1) - 1 = n /\ n + 1 \in 1..Len(args)
      BY <1>1
    <3>2. u[n] \in Name
      BY <2>2, <3>1
    <3>3. u[n + 1] = u[n] \o ArgText(args, n + 1, names[n + 1])
      BY <3>1
    <3> QED BY <3>1, <3>2, <3>3, ArgTextType, ConcatName
  <2>3. \A n \in Nat : n \in S
    <3> HIDE DEF S
    <3> QED BY <2>1, <2>2, Induction
  <2> QED BY <2>3
<1>8. ListText(args, names) = Texts(args, names)[Len(args)]
  BY DEF ListText, Texts
<1> DEFINE u == Texts(args, names)
<1>9. u = F(u) /\ u \in [0..Len(args) -> Name]
  BY <1>6, <1>7
<1> HIDE DEF u
<1>10. u[0] = <<>> /\ \A n \in 1..Len(args) : u[n] = u[n - 1] \o ArgText(args, n, names[n])
  <2>1. \A n \in 0..Len(args) : u[n] = F(u)[n]
    BY <1>9
  <2>2. \A n \in 0..Len(args) :
           F(u)[n] = IF n = 0 THEN <<>> ELSE u[n - 1] \o ArgText(args, n, names[n])
    OBVIOUS
  <2>3. 0 \in 0..Len(args) /\ \A n \in 1..Len(args) : n \in 0..Len(args) /\ n # 0
    BY <1>1
  <2> HIDE DEF F
  <2> QED BY <2>1, <2>2, <2>3
<1> QED BY <1>8, <1>9, <1>10 DEF u

\* The names of the objects among arguments, when r gives the names of objects.
NamesBy(r, args) ==
    [i \in 1..Len(args) |-> IF args[i].kind \in RefArg THEN r[args[i].ref] ELSE NULL]

LinkReq(f) == [op |-> "link", obj |-> f, num |-> NULL]

\* The name of one object, when r gives the others.
NameBy(r, o) ==
    LET target == Resolve(o)
        names == [i \in 1..Len(TemplArgs[target]) |->
                    IF TemplArgs[target][i].kind \in RefArg
                    THEN r[TemplArgs[target][i].ref] ELSE NULL]
    IN  CASE target \in Other -> Ident(target)
          [] target \in Data -> DataName(target)
          [] target \in Function /\ Plain(target) -> Ident(target)
          [] OTHER -> Assembled([op |-> "link", obj |-> target, num |-> NULL], names)

LEMMA NameByCases ==
    ASSUME NEW r, NEW o \in Object
    PROVE  /\ Resolve(o) \in Other => NameBy(r, o) = Ident(Resolve(o))
           /\ Resolve(o) \in Data => NameBy(r, o) = DataName(Resolve(o))
           /\ Resolve(o) \in Function /\ Plain(Resolve(o)) => NameBy(r, o) = Ident(Resolve(o))
           /\ Resolve(o) \in Function /\ ~Plain(Resolve(o)) =>
                 NameBy(r, o) = Assembled(LinkReq(Resolve(o)), NamesBy(r, TemplArgs[Resolve(o)]))
<1> DEFINE target == Resolve(o)
<1>1. /\ target \in Function \cup Data \cup Other
      /\ Function \cap Data = {} /\ Function \cap Other = {} /\ Data \cap Other = {}
  BY ResolveType, ObjectAssumption
<1> HIDE DEF target
<1>2. NameBy(r, o) =
        CASE target \in Other -> Ident(target)
          [] target \in Data -> DataName(target)
          [] target \in Function /\ Plain(target) -> Ident(target)
          [] OTHER -> Assembled(LinkReq(target), NamesBy(r, TemplArgs[target]))
  BY DEF NameBy, LinkReq, NamesBy, target
<1>3. CASE target \in Other
  BY <1>1, <1>2, <1>3 DEF target
<1>4. CASE target \in Data
  BY <1>1, <1>2, <1>4 DEF target
<1>5. CASE target \in Function
  BY <1>1, <1>2, <1>5 DEF target
<1> QED BY <1>1, <1>3, <1>4, <1>5

LEMMA AssembledType ==
    ASSUME NEW req \in ListRequest, NEW names, \A n \in 1..Len(Args(req)) : names[n] \in Name
    PROVE  Assembled(req, names) \in Name
<1>1. ListText(Args(req), names) \in Name
  <2>1. PICK args \in Seq(TemplArg) : args = Args(req)
    BY ArgsType
  <2>2. /\ Texts(args, names) \in [0..Len(args) -> Name]
        /\ ListText(args, names) = Texts(args, names)[Len(args)]
    BY <2>1, TextsAre
  <2>3. Len(args) \in 0..Len(args)
    OBVIOUS
  <2> QED BY <2>1, <2>2, <2>3
<1>2. NameHead(req) \o ListText(Args(req), names) \in Name
  BY <1>1, HeadType, ConcatName
<1> QED BY <1>2, TailType, ConcatName DEF Assembled

LEMMA LinkReqIs ==
    ASSUME NEW f \in Function
    PROVE  /\ LinkReq(f) \in ListRequest /\ LinkReq(f) \in Request
           /\ LinkReq(f).op = "link" /\ LinkReq(f).obj = f
           /\ Spelled(LinkReq(f)) = f /\ Args(LinkReq(f)) = TemplArgs[f]
BY DEF LinkReq, ListRequest, LinkRequest, Request, Spelled, Args

LEMMA ArgsOfObject ==
    ASSUME NEW f \in Function, NEW i \in 1..Len(TemplArgs[f]), TemplArgs[f][i].kind \in RefArg
    PROVE  /\ TemplArgs[f][i].ref \in Object
           /\ Age[Resolve(TemplArgs[f][i].ref)] < Age[f]
<1>1. LinkReq(f) \in ListRequest /\ Args(LinkReq(f)) = TemplArgs[f] /\ Spelled(LinkReq(f)) = f
  BY LinkReqIs
<1> QED BY <1>1, ArgRef

LEMMA NameByType ==
    ASSUME NEW r, NEW o \in Object,
           \A e \in Object : Age[Resolve(e)] < Age[Resolve(o)] => r[e] \in Name
    PROVE  NameBy(r, o) \in Name
<1>1. Resolve(o) \in Function \cup Data \cup Other
  BY ResolveType
<1>2. CASE Resolve(o) \in Other
  BY <1>2, NameByCases, IdentType DEF Object
<1>3. CASE Resolve(o) \in Data
  BY <1>3, NameByCases, DataNameType
<1>4. CASE Resolve(o) \in Function
  <2>1. CASE Plain(Resolve(o))
    BY <1>4, <2>1, NameByCases, IdentType DEF Object
  <2>2. CASE ~Plain(Resolve(o))
    <3>1. \A n \in 1..Len(TemplArgs[Resolve(o)]) : NamesBy(r, TemplArgs[Resolve(o)])[n] \in Name
      BY <1>4, ArgsOfObject, NullIsName DEF NamesBy
    <3> QED BY <1>4, <2>2, <3>1, NameByCases, LinkReqIs, AssembledType
  <2> QED BY <2>1, <2>2
<1> QED BY <1>1, <1>2, <1>3, <1>4

\* The names of objects, as the definition gives them.
LEMMA RefLinkNameIs ==
    /\ RefLinkName \in [Object -> Name]
    /\ \A o \in Object : RefLinkName[o] = NameBy(RefLinkName, o)
<1> DEFINE step == [o \in Object |-> [r \in [Object -> Name] |-> NameBy(r, o)]]
           rank == [o \in Object |-> Age[Resolve(o)]]
<1>1. step \in [Object -> [[Object -> Name] -> Name]]
  BY NameByType
<1>2. rank \in [Object -> Nat]
  <2>1. \A o \in Object : Resolve(o) \in Object
    BY ResolveType DEF Object
  <2> QED BY <2>1, ObjectAssumption
<1>3. LooksAtLowerRanks(step, Object, Name, rank)
  <2> SUFFICES ASSUME NEW o \in Object, NEW g \in [Object -> Name], NEW h \in [Object -> Name],
                      \A e \in Object : rank[e] < rank[o] => g[e] = h[e]
               PROVE  NameBy(g, o) = NameBy(h, o)
    BY DEF LooksAtLowerRanks
  <2>1. CASE Resolve(o) \in Function /\ ~Plain(Resolve(o))
    <3>1. ASSUME NEW i \in 1..Len(TemplArgs[Resolve(o)]), TemplArgs[Resolve(o)][i].kind \in RefArg
          PROVE  g[TemplArgs[Resolve(o)][i].ref] = h[TemplArgs[Resolve(o)][i].ref]
      BY <2>1, <3>1, ArgsOfObject
    <3>2. NamesBy(g, TemplArgs[Resolve(o)]) = NamesBy(h, TemplArgs[Resolve(o)])
      BY <3>1 DEF NamesBy
    <3> QED BY <2>1, <3>2, NameByCases
  <2>2. CASE ~(Resolve(o) \in Function /\ ~Plain(Resolve(o)))
    BY <2>2, NameByCases, ResolveType
  <2> QED BY <2>1, <2>2
<1>4. HasSolution(step, Object, Name)
  <2> HIDE DEF step, rank
  <2> QED BY <1>1, <1>2, <1>3, NullIsName, RankedFunction
<1>5. PICK r \in [Object -> Name] : \A o \in Object : r[o] = step[o][r]
  BY <1>4 DEF HasSolution
<1>6. r = [o \in Object |-> NameBy(r, o)]
  BY <1>5
<1>7. RefLinkName = [o \in Object |-> NameBy(RefLinkName, o)]
  <2>1. RefLinkName = CHOOSE r2 : r2 = [o \in Object |-> NameBy(r2, o)]
    BY DEF RefLinkName, NameBy
  <2> QED BY <1>6, <2>1
<1> DEFINE T == { m \in Nat : \A o \in Object : rank[o] < m => RefLinkName[o] \in Name }
<1>8. 0 \in T
  BY <1>2
<1>9. ASSUME NEW m \in Nat, m \in T PROVE m + 1 \in T
  <2> SUFFICES ASSUME NEW o \in Object, rank[o] < m + 1 PROVE RefLinkName[o] \in Name
    OBVIOUS
  <2>1. \A e \in Object : Age[Resolve(e)] < Age[Resolve(o)] => RefLinkName[e] \in Name
    <3>1. \A e \in Object : rank[e] < rank[o] => rank[e] < m
      BY <1>2
    <3> QED BY <1>9, <3>1
  <2>2. NameBy(RefLinkName, o) \in Name
    BY <2>1, NameByType
  <2>3. RefLinkName[o] = NameBy(RefLinkName, o)
    BY <1>7
  <2> QED BY <2>2, <2>3
<1>10. \A m \in Nat : m \in T
  <2> HIDE DEF T
  <2> QED BY <1>8, <1>9, Induction
<1>11. \A o \in Object : RefLinkName[o] \in Name
  <2> TAKE o \in Object
  <2>1. rank[o] \in Nat /\ rank[o] + 1 \in Nat /\ rank[o] < rank[o] + 1
    BY <1>2
  <2> HIDE DEF rank
  <2> QED BY <1>10, <2>1
<1>12. PICK r2 : r2 = RefLinkName
  OBVIOUS
<1>13. r2 = [o \in Object |-> NameBy(r2, o)] /\ \A o \in Object : r2[o] \in Name
  BY <1>7, <1>11, <1>12
<1>14. r2 \in [Object -> Name] /\ \A o \in Object : r2[o] = NameBy(r2, o)
  <2> DEFINE q(o) == NameBy(r2, o)
  <2>1. r2 = [o \in Object |-> q(o)] /\ \A o \in Object : r2[o] \in Name
    BY <1>13
  <2>2. \A o \in Object : q(o) = NameBy(r2, o)
    OBVIOUS
  <2> HIDE DEF q
  <2>3. r2 \in [Object -> Name] /\ \A o \in Object : r2[o] = q(o)
    BY <2>1
  <2> QED BY <2>2, <2>3
<1> QED BY <1>12, <1>14

-----------------------------------------------------------------------------
(***************************************************************************)
(* The names that are set and handed out are the names so defined.         *)
(***************************************************************************)
\* The name an object has to have.
RightName(x) ==
    IF x \in LocalVar THEN RefName([op |-> "local", obj |-> x, num |-> LocalNum[x]])
                      ELSE RefLinkName[x]

LEMMA NamesExactIs ==
    NamesExact <=> /\ \A x \in Named : linkname[x] \in {NULL, RightName(x)}
                   /\ \A answer \in given : answer[2] = RefName(answer[1])
<1>1. \A d \in LocalVar : d \in Named
  BY ObjectAssumption DEF Named
<1> QED BY <1>1 DEF NamesExact, RightName

LEMMA RefNameStays ==
    ASSUME NEW req, req.op = "guard" => linkname'[req.obj] = linkname[req.obj]
    PROVE  RefName(req)' = RefName(req)
BY DEF RefName

LEMMA RefNamesAre ==
    ASSUME NEW args \in Seq(TemplArg)
    PROVE  /\ RefNames(args) = NamesBy(RefLinkName, args)
           /\ \A n \in 1..Len(args) : RefNames(args)[n] \in Name
<1>1. ASSUME NEW n \in 1..Len(args) PROVE RefNames(args)[n] \in Name
  <2>1. args[n].kind \in RefArg => args[n].ref \in Object
    BY DEF TemplArg, PlainArg, RefArg
  <2> QED BY <2>1, RefLinkNameIs, NullIsName DEF RefNames
<1> QED BY <1>1 DEF RefNames, NamesBy

\* A request that spells a list is answered with its head, list and tail.
LEMMA RefNameOfList ==
    ASSUME NEW req \in ListRequest, ~(req.op = "link" /\ Plain(req.obj))
    PROVE  LET name == Assembled(req, RefNames(Args(req)))
           IN  /\ req.op = "link" => RightName(req.obj) = name
               /\ req.op # "link" => RefName(req) = name
<1>1. CASE req.op = "link"
  <2>1. req.obj \in Function /\ req = LinkReq(req.obj)
    BY <1>1 DEF ListRequest, LinkRequest, LinkReq
  <2>2. /\ req.obj \in Object /\ req.obj \notin LocalVar /\ Resolve(req.obj) = req.obj
    BY <2>1, ObjectAssumption DEF Object, Resolve
  <2>3. Args(req) = TemplArgs[req.obj] /\ Args(req) \in Seq(TemplArg)
    BY <2>1, LinkReqIs, ArgsType
  <2>4. RefLinkName[req.obj] = Assembled(LinkReq(req.obj), NamesBy(RefLinkName, TemplArgs[req.obj]))
    BY <1>1, <2>1, <2>2, RefLinkNameIs, NameByCases
  <2>5. RefNames(Args(req)) = NamesBy(RefLinkName, TemplArgs[req.obj])
    BY <2>3, RefNamesAre
  <2>6. RefLinkName[req.obj] = Assembled(req, RefNames(Args(req)))
    BY <2>1, <2>4, <2>5
  <2> QED BY <1>1, <2>2, <2>6 DEF RightName
<1>2. CASE req.op # "link"
  <2>1. req.op \in {"instance", "local", "string"}
    BY <1>2 DEF ListRequest, LinkRequest
  <2> QED BY <1>2, <2>1 DEF RefName
<1> QED BY <1>1, <1>2

\* An alias has the name of what it stands for.
LEMMA RefLinkNameOfTarget ==
    ASSUME NEW o \in Object
    PROVE  /\ RefLinkName[o] = RefLinkName[Resolve(o)]
           /\ Resolve(o) \in Other => RefLinkName[o] = Ident(Resolve(o))
           /\ Resolve(o) \in Data => RefLinkName[o] = DataName(Resolve(o))
           /\ Resolve(o) \in Function /\ Plain(Resolve(o)) => RefLinkName[o] = Ident(Resolve(o))
<1>1. Resolve(o) \in Object /\ Resolve(Resolve(o)) = Resolve(o)
  BY ResolveType DEF Object
<1>2. NameBy(RefLinkName, o) = NameBy(RefLinkName, Resolve(o))
  BY <1>1 DEF NameBy
<1>3. /\ RefLinkName[o] = NameBy(RefLinkName, o)
      /\ RefLinkName[Resolve(o)] = NameBy(RefLinkName, Resolve(o))
  BY <1>1, RefLinkNameIs
<1> QED BY <1>2, <1>3, NameByCases

\* What GetLinkName returns for a known object is its name.
LEMMA LinkNameIsRight ==
    ASSUME ExactInv, NEW o \in Object, Known(o), Resolve(o) \notin LocalVar
    PROVE  LinkName(o) = RefLinkName[o]
<1>1. CASE Resolve(o) \in Named
  <2>1. linkname[Resolve(o)] = RefLinkName[Resolve(o)]
    BY <1>1, NamesExactIs DEF ExactInv, Known, RightName
  <2> QED BY <1>1, <2>1, RefLinkNameOfTarget DEF LinkName
<1>2. CASE Resolve(o) \notin Named
  <2>1. Resolve(o) \in Other
    BY <1>2, ResolveType DEF Named
  <2> QED BY <1>2, <2>1, RefLinkNameOfTarget DEF LinkName
<1> QED BY <1>1, <1>2

\* A name that a finished list makes.
LEMMA FinishedName ==
    ASSUME ExactInv, FinishName
    PROVE  /\ Top.req \in ListRequest /\ stack # <<>>
           /\ ~(Top.req.op = "link" /\ Plain(Top.req.obj))
           /\ buf' = Assembled(Top.req, RefNames(Args(Top.req)))
<1>1. /\ IInv /\ Running("append") /\ Top.i > Len(TopArgs)
      /\ buf' = buf \o NameTail(Top.req)
  BY DEF FinishName, ExactInv
<1>2. Top.req \in ListRequest /\ stack # <<>> /\ TopArgs = Args(Top.req)
  BY <1>1, TopLists DEF TopArgs
<1>3. /\ Top = stack[Len(stack)] /\ Len(stack) \in 1..Len(stack) /\ Top.phase = "append"
      /\ Top.i \in 1..(Len(Args(Top.req)) + 1)
  BY <1>1, <1>2, StackTop DEF Running
<1>4. PICK args \in Seq(TemplArg) : args = Args(Top.req)
  BY <1>2, ArgsType
<1>5. Top.i - 1 = Len(args)
  BY <1>1, <1>2, <1>3, <1>4
<1>6. buf = NameHead(Top.req) \o Texts(args, RefNames(args))[Len(args)]
  BY <1>1, <1>4, <1>5 DEF ExactInv, BufferExact
<1>7. ListText(args, RefNames(args)) = Texts(args, RefNames(args))[Len(args)]
  BY RefNamesAre, TextsAre
<1>8. buf' = Assembled(Top.req, RefNames(Args(Top.req)))
  BY <1>1, <1>4, <1>6, <1>7 DEF Assembled
<1>9. ~(Top.req.op = "link" /\ Plain(Top.req.obj))
  BY <1>3 DEF ExactInv, OnlyTopSpells
<1> QED BY <1>2, <1>8, <1>9

\* GetLinkName sets no wrong name.
LEMMA LinkObjectSetsRight ==
    ASSUME IInv, NEW o \in Object, ~Known(o), Resolve(o) \notin LocalVar, LinkObject(o),
           NEW x \in Named
    PROVE  linkname'[x] \in {linkname[x], RightName(x)}
<1>1. CASE Resolve(o) \in Data /\ LinkData(Resolve(o))
  <2>1. RightName(Resolve(o)) = DataName(Resolve(o))
    <3>1. RefLinkName[Resolve(o)] = DataName(Resolve(o))
      BY <1>1, RefLinkNameOfTarget
    <3> QED BY <3>1 DEF RightName
  <2>2. linkname' = [linkname EXCEPT ![Resolve(o)] = DataName(Resolve(o))]
    BY <1>1 DEF LinkData, Assign
  <2> QED BY <2>1, <2>2, StackInv
<1>2. CASE LinkFunction(Resolve(o))
  BY <1>2 DEF LinkFunction
<1> QED BY <1>1, <1>2 DEF LinkObject

\* No step sets a wrong name.
LEMMA NamesSetAreRight ==
    ASSUME ExactInv, [Next]_vars, NEW x \in Named
    PROVE  linkname'[x] \in {linkname[x], RightName(x)}
<1>0. IInv
  BY DEF ExactInv
<1>1. CASE EntryPoint
  <2>1. CASE \E o \in Object : GetLinkName(o)
    <3>1. PICK o \in Object : GetLinkName(o)
      BY <2>1
    <3>2. CASE Known(o)
      BY <3>1, <3>2 DEF GetLinkName, vars
    <3>3. CASE ~Known(o)
      <4>1. LinkObject(o) /\ Resolve(o) \notin LocalVar
        BY <3>1, <3>3 DEF GetLinkName
      <4> QED BY <1>0, <3>3, <4>1, LinkObjectSetsRight
    <3> QED BY <3>2, <3>3
  <2>2. CASE UNCHANGED linkname
    BY <2>2
  <2> QED BY <1>1, <2>1, <2>2
      DEF EntryPoint, SetupLocalVarName, Ask, SetupGuardVarName,
          TemplateInstanceName, SetupLocalStringName, ThunkName,
          CovariantFunctionName, VTableName, RTTIObjectName,
          ConversionFuncName, TypeName
<1>2. CASE CheckArg
  <2>1. CASE NeedsName(TopArgs[Top.i])
    BY <1>0, <1>2, <2>1, TopArgIsOlder, LinkObjectSetsRight DEF CheckArg
  <2>2. CASE ~NeedsName(TopArgs[Top.i])
    BY <1>2, <2>2 DEF CheckArg
  <2> QED BY <2>1, <2>2
<1>3. CASE BeginName
  BY <1>3 DEF BeginName
<1>4. CASE KeepIdentifier
  <2>1. /\ Running("check") /\ Top.req.op = "link" /\ Plain(Top.req.obj)
        /\ linkname' = [linkname EXCEPT ![Top.req.obj] = Ident(Top.req.obj)]
    BY <1>4 DEF KeepIdentifier, Assign
  <2>2. Top.req \in ListRequest
    BY <1>0, <2>1, TopLists
  <2>3. PICK f \in Function : f = Top.req.obj
    BY <2>1, <2>2 DEF ListRequest, LinkRequest
  <2>4. f \in Object /\ f \notin LocalVar /\ Resolve(f) = f
    BY <2>3, ObjectAssumption DEF Object, Resolve
  <2>5. RefLinkName[f] = Ident(f)
    BY <2>1, <2>3, <2>4, RefLinkNameOfTarget
  <2> QED BY <1>0, <2>1, <2>3, <2>4, <2>5, StackInv DEF RightName
<1>5. CASE AppendArg
  BY <1>0, <1>5, AppendArgText
<1>6. CASE FinishName
  <2>1. CASE UNCHANGED linkname
    BY <2>1
  <2>2. CASE Top.req.op \in {"link", "local"} /\ Assign(Top.req.obj, buf')
    <3>1. /\ Top.req \in ListRequest /\ stack # <<>>
          /\ ~(Top.req.op = "link" /\ Plain(Top.req.obj))
          /\ buf' = Assembled(Top.req, RefNames(Args(Top.req)))
      BY <1>6, FinishedName
    <3>2. RightName(Top.req.obj) = buf'
      <4>1. CASE Top.req.op = "link"
        BY <3>1, <4>1, RefNameOfList
      <4>2. CASE Top.req.op = "local"
        <5>1. Top = stack[Len(stack)] /\ Len(stack) \in 1..Len(stack)
          BY <1>0, <3>1, StackTop
        <5>2. Top.req.num = LocalNum[Top.req.obj]
          BY <4>2, <5>1 DEF ExactInv, OnlyTopSpells
        <5>3. Top.req = [op |-> "local", obj |-> Top.req.obj, num |-> LocalNum[Top.req.obj]]
              /\ Top.req.obj \in LocalVar
          BY <3>1, <4>2, <5>2 DEF ListRequest, LinkRequest
        <5>4. RefName(Top.req) = buf'
          BY <3>1, <4>2, RefNameOfList
        <5> QED BY <5>3, <5>4 DEF RightName
      <4> QED BY <2>2, <4>1, <4>2
    <3> QED BY <1>0, <2>2, <3>2, StackInv DEF Assign
  <2> QED BY <1>6, <2>1, <2>2 DEF FinishName
<1>7. CASE AwaitLink
  <2>1. CASE Known(Top.req.obj)
    BY <1>7, <2>1 DEF AwaitLink
  <2>2. CASE ~Known(Top.req.obj)
    <3>1. Top.req.obj \in Function
      BY <1>0, <1>7, StackTop
      DEF AwaitLink, Running, Frame, AfterLinkRequest
    <3>2. Top.req.obj \in Object /\ Resolve(Top.req.obj) \notin LocalVar
      BY <3>1, ObjectAssumption DEF Object, Resolve
    <3> QED BY <1>0, <1>7, <2>2, <3>2, LinkObjectSetsRight DEF AwaitLink
  <2> QED BY <2>1, <2>2
<1>8. CASE UNCHANGED vars
  BY <1>8 DEF vars
<1> QED BY <1>1, <1>2, <1>3, <1>4, <1>5, <1>6, <1>7, <1>8 DEF Next, Step

\* Every answer that is added is right, and a guard's variable has its name.
LEMMA AnswersAreRight ==
    ASSUME ExactInv, [Next]_vars, NEW answer \in given', answer \notin given
    PROVE  /\ answer[2] = RefName(answer[1])
           /\ answer[1].op = "guard" =>
                 answer[1].obj \in Data /\ linkname[answer[1].obj] # NULL
<1>0. IInv
  BY DEF ExactInv
<1>1. ASSUME NEW req, NEW name, Remember(req, name)
      PROVE  answer = <<req, name>>
  BY <1>1 DEF Remember
<1>2. ASSUME NEW o \in Object, LinkObject(o) PROVE UNCHANGED given
  BY <1>2 DEF LinkObject, LinkData, LinkFunction
<1>3. CASE EntryPoint
  <2>1. CASE UNCHANGED given
    BY <2>1
  <2>2. CASE \E o \in Object : GetLinkName(o)
    BY <1>2, <2>2 DEF GetLinkName, vars
  <2>3. CASE \E d \in Data : SetupGuardVarName(d)
    <3>1. PICK d \in Data : SetupGuardVarName(d)
      BY <2>3
    <3> DEFINE req == [op |-> "guard", obj |-> d, num |-> NULL]
    <3>2. req.op = "guard" /\ req.obj = d /\ linkname[d] # NULL
      BY <3>1 DEF SetupGuardVarName
    <3>3. Remember(req, GuardName(linkname[d]))
      BY <3>1 DEF SetupGuardVarName
    <3> HIDE DEF req
    <3>4. answer[1] = req /\ answer[2] = GuardName(linkname[d])
      BY <1>1, <3>3
    <3>5. RefName(req) = GuardName(linkname[d])
      BY <3>2 DEF RefName
    <3> QED BY <3>2, <3>4, <3>5
  <2>4. ASSUME NEW prefix \in {"__vt__", "__RTTI__", "__op"}, NEW t \in MangledType,
               prefix = "__op" => t \notin DependentType, TypeName(prefix, t)
        PROVE  answer[2] = RefName(answer[1]) /\ answer[1].op # "guard"
    <3> DEFINE req == [op |-> prefix, obj |-> t, num |-> NULL]
    <3>1. req.op = prefix /\ req.obj = t
      OBVIOUS
    <3>2. Remember(req, Piece(prefix, <<t>>))
      BY <2>4 DEF TypeName
    <3> HIDE DEF req
    <3>3. answer[1] = req /\ answer[2] = Piece(prefix, <<t>>)
      BY <1>1, <3>2
    <3>4. RefName(req) = Piece(prefix, <<t>>)
      BY <2>4, <3>1 DEF RefName
    <3> QED BY <3>1, <3>3, <3>4
  <2>5. CASE \E t \in MangledType :
               VTableName(t) \/ RTTIObjectName(t) \/ ConversionFuncName(t)
    <3>1. PICK t \in MangledType : VTableName(t) \/ RTTIObjectName(t) \/ ConversionFuncName(t)
      BY <2>5
    <3>2. CASE VTableName(t)
      BY <2>4, <3>2 DEF VTableName
    <3>3. CASE RTTIObjectName(t)
      BY <2>4, <3>3 DEF RTTIObjectName
    <3>4. CASE t \notin DependentType /\ TypeName("__op", t)
      BY <2>4, <3>4
    <3>5. CASE ~(t \notin DependentType /\ TypeName("__op", t)) /\ ConversionFuncName(t)
      <4> DEFINE req == [op |-> "__op", obj |-> t, num |-> NULL]
      <4>1. req.op = "__op" /\ req.obj = t
        OBVIOUS
      <4>2. t \in DependentType /\ Remember(req, Piece("__op", NULL))
        BY <3>5 DEF ConversionFuncName
      <4> HIDE DEF req
      <4>3. answer[1] = req /\ answer[2] = Piece("__op", NULL)
        BY <1>1, <4>2
      <4>4. RefName(req) = Piece("__op", NULL)
        BY <4>1, <4>2 DEF RefName
      <4> QED BY <4>1, <4>3, <4>4
    <3> QED BY <3>1, <3>2, <3>3, <3>4, <3>5
  <2> QED BY <1>3, <2>1, <2>2, <2>3, <2>5
      DEF EntryPoint, SetupLocalVarName, Ask, TemplateInstanceName,
          SetupLocalStringName, ThunkName, CovariantFunctionName
<1>4. CASE CheckArg
  BY <1>0, <1>2, <1>4, TopArgIsOlder DEF CheckArg
<1>5. CASE BeginName
  BY <1>5 DEF BeginName
<1>6. CASE KeepIdentifier
  BY <1>6 DEF KeepIdentifier
<1>7. CASE AppendArg
  BY <1>0, <1>7, AppendArgText
<1>8. CASE FinishName
  <2>1. CASE UNCHANGED given
    BY <2>1
  <2>2. CASE Top.req.op \in {"instance", "string"} /\ Remember(Top.req, buf')
    <3>1. answer[1] = Top.req /\ answer[2] = buf'
      BY <1>1, <2>2
    <3>2. RefName(Top.req) = buf'
      BY <1>8, <2>2, FinishedName, RefNameOfList
    <3> QED BY <2>2, <3>1, <3>2
  <2> QED BY <1>8, <2>1, <2>2 DEF FinishName
<1>9. CASE AwaitLink
  <2>1. Top.req \in AfterLinkRequest
    BY <1>0, <1>9, StackTop DEF AwaitLink, Running, Frame
  <2>2. /\ Top.req.op \in {"thunk", "covariant"} /\ Top.req.obj \in Object
        /\ Resolve(Top.req.obj) \notin LocalVar
    BY <2>1, ObjectAssumption DEF AfterLinkRequest, Object, Resolve
  <2>3. CASE ~Known(Top.req.obj)
    BY <1>2, <1>9, <2>2, <2>3 DEF AwaitLink
  <2>4. CASE Known(Top.req.obj)
    <3>1. Remember(Top.req, AfterLinkName(Top.req, LinkName(Top.req.obj)))
      BY <1>9, <2>4 DEF AwaitLink
    <3>2. LinkName(Top.req.obj) = RefLinkName[Top.req.obj]
      BY <2>2, <2>4, LinkNameIsRight
    <3>3. RefName(Top.req) = AfterLinkName(Top.req, RefLinkName[Top.req.obj])
      BY <2>2 DEF RefName
    <3>4. answer[1] = Top.req /\ answer[2] = RefName(Top.req)
      BY <1>1, <3>1, <3>2, <3>3
    <3> QED BY <2>2, <3>4
  <2> QED BY <2>3, <2>4
<1>10. CASE UNCHANGED vars
  BY <1>10 DEF vars
<1> QED BY <1>3, <1>4, <1>5, <1>6, <1>7, <1>8, <1>9, <1>10 DEF Next, Step

LEMMA NamesStayExact ==
    ASSUME ExactInv, IInv', [Next]_vars
    PROVE  NamesExact' /\ GuardedIsNamed'
<1>0. IInv /\ NamesExact /\ GuardedIsNamed
  BY DEF ExactInv
<1>1. ASSUME NEW x \in Named PROVE linkname'[x] \in {NULL, RightName(x)}
  BY <1>0, NamesSetAreRight, NamesExactIs
<1>2. ASSUME NEW answer \in given'
      PROVE  /\ answer[2] = RefName(answer[1])'
             /\ answer[1].op = "guard" =>
                   answer[1].obj \in Data /\ linkname'[answer[1].obj] # NULL
  <2>1. /\ answer[2] = RefName(answer[1])
        /\ answer[1].op = "guard" =>
              answer[1].obj \in Data /\ linkname[answer[1].obj] # NULL
    <3>1. CASE answer \in given
      BY <1>0, <3>1, NamesExactIs DEF GuardedIsNamed
    <3>2. CASE answer \notin given
      BY <3>2, AnswersAreRight
    <3> QED BY <3>1, <3>2
  <2>2. PICK req : req = answer[1]
    OBVIOUS
  <2>3. req.op = "guard" => linkname'[req.obj] = linkname[req.obj]
    BY <1>0, <2>1, <2>2, NamesStay DEF Named
  <2>4. RefName(req)' = RefName(req)
    BY <2>3, RefNameStays
  <2> QED BY <2>1, <2>2, <2>3, <2>4
<1>3. \A x \in Named : RightName(x)' = RightName(x)
  BY DEF RightName, RefName
<1>4. NamesExact'
  <2>1. \A d \in LocalVar : d \in Named
    BY ObjectAssumption DEF Named
  <2> QED BY <1>1, <1>2, <1>3, <2>1 DEF NamesExact, RightName
<1> QED BY <1>2, <1>4 DEF GuardedIsNamed

-----------------------------------------------------------------------------
(***************************************************************************)
(* The buffer holds the beginning of the name that is being assembled.     *)
(***************************************************************************)
FrameIsRight(fr) ==
    /\ fr.phase = "append" => ~(fr.req.op = "link" /\ Plain(fr.req.obj))
    /\ fr.req.op = "local" => fr.req.num = LocalNum[fr.req.obj]

LEMMA OnlyTopSpellsIs ==
    OnlyTopSpells <=> \A k \in 1..Len(stack) :
                         /\ FrameIsRight(stack[k])
                         /\ stack[k].phase = "append" => k = Len(stack)
BY DEF OnlyTopSpells, FrameIsRight

LEMMA OnlyTopSpellsNext ==
    OnlyTopSpells' <=> \A k \in 1..Len(stack') :
                         /\ FrameIsRight(stack'[k])
                         /\ stack'[k].phase = "append" => k = Len(stack')
BY DEF OnlyTopSpells, FrameIsRight

LEMMA RunningNext ==
    ASSUME NEW phase
    PROVE  Running(phase)' <=> stack' # <<>> /\ stack'[Len(stack')].phase = phase
BY DEF Running, Top

\* Where no list is being spelled, no frame of the stack is spelling one.
LEMMA NobodySpells ==
    ASSUME ExactInv, ~Running("append"), NEW k \in 1..Len(stack)
    PROVE  stack[k].phase # "append" /\ FrameIsRight(stack[k])
<1>1. stack \in Seq(Frame) /\ stack # <<>>
  BY StackInv DEF ExactInv
<1>2. stack[k].phase = "append" => stack[k] = Top
  BY OnlyTopSpellsIs DEF ExactInv, Top
<1> QED BY <1>1, <1>2, OnlyTopSpellsIs DEF ExactInv, Running

\* A call is made where no list is being spelled.
LEMMA CallStaysExact ==
    ASSUME ExactInv, ~Running("append"), NEW req \in Request, Call(req),
           req.op = "local" => req.num = LocalNum[req.obj]
    PROVE  OnlyTopSpells' /\ BufferExact'
<1>1. stack \in Seq(Frame) /\ Len(stack) \in Nat
  BY StackInv DEF ExactInv
<1>2. PICK fr \in Frame : fr = StartFrame(req)
  BY RequestFrame
<1>3. fr.phase # "append" /\ FrameIsRight(fr)
  BY <1>2, RequestFrame DEF StartFrame, FrameIsRight
<1>4. /\ stack' # <<>> /\ Len(stack') = Len(stack) + 1 /\ stack'[Len(stack) + 1] = fr
      /\ \A k \in 1..Len(stack) : stack'[k] = stack[k]
  BY <1>1, <1>2 DEF Call
<1>5. \A k \in 1..Len(stack') : FrameIsRight(stack'[k]) /\ stack'[k].phase # "append"
  BY <1>1, <1>3, <1>4, NobodySpells
<1>6. ~Running("append")'
  BY <1>1, <1>3, <1>4, RunningNext
<1> QED BY <1>5, <1>6, OnlyTopSpellsNext DEF BufferExact

\* A name that is made in one go is made where no list is being spelled.
LEMMA SameStackStaysExact ==
    ASSUME ExactInv, ~Running("append"), UNCHANGED stack
    PROVE  OnlyTopSpells' /\ BufferExact'
BY OnlyTopSpellsIs, OnlyTopSpellsNext, RunningNext DEF ExactInv, BufferExact, Running, Top

LEMMA LinkObjectStaysExact ==
    ASSUME ExactInv, ~Running("append"), NEW o \in Object, LinkObject(o)
    PROVE  OnlyTopSpells' /\ BufferExact'
<1>1. CASE LinkData(Resolve(o))
  BY <1>1, SameStackStaysExact DEF LinkData
<1>2. CASE Resolve(o) \in Function /\ LinkFunction(Resolve(o))
  <2>1. /\ LinkReq(Resolve(o)) \in Request /\ LinkReq(Resolve(o)).op = "link"
        /\ Call(LinkReq(Resolve(o)))
    BY <1>2, LinkReqIs DEF LinkFunction, LinkReq
  <2> QED BY <2>1, CallStaysExact
<1> QED BY <1>1, <1>2 DEF LinkObject

\* The frame below the one that returns is not spelling a list.
LEMMA ReturnStaysExact ==
    ASSUME ExactInv, stack # <<>>, Return
    PROVE  OnlyTopSpells' /\ BufferExact'
<1>1. PICK n \in Nat : Len(stack) = n + 1 /\ stack \in Seq(Frame)
  <2>1. stack \in Seq(Frame) /\ Len(stack) \in Nat \ {0}
    BY StackInv, StackTop DEF ExactInv
  <2>2. Len(stack) - 1 \in Nat /\ Len(stack) = (Len(stack) - 1) + 1
    BY <2>1
  <2> QED BY <2>1, <2>2
<1>2. stack' \in Seq(Frame) /\ Len(stack') = n /\ \A k \in 1..n : stack'[k] = stack[k]
  BY <1>1, LastDropped DEF Return
<1>3. \A k \in 1..n : FrameIsRight(stack[k]) /\ stack[k].phase # "append"
  BY <1>1, OnlyTopSpellsIs DEF ExactInv
<1>4. ~Running("append")'
  <2>1. stack' # <<>> => Len(stack') \in 1..n
    BY <1>2
  <2> QED BY <1>2, <1>3, <2>1, RunningNext
<1> QED BY <1>2, <1>3, <1>4, OnlyTopSpellsNext DEF BufferExact

\* The frame on top goes on, and what it has spelled is right.
LEMMA StayStaysExact ==
    ASSUME ExactInv, stack # <<>>, NEW fr \in Frame, FrameIsRight(fr),
           stack' = [stack EXCEPT ![Len(stack)] = fr],
           fr.phase = "append" =>
              buf' = NameHead(fr.req) \o Texts(Args(fr.req), RefNames(Args(fr.req)))[fr.i - 1]
    PROVE  OnlyTopSpells' /\ BufferExact'
<1>1. PICK n \in Nat : Len(stack) = n + 1 /\ stack \in Seq(Frame)
  <2>1. stack \in Seq(Frame) /\ Len(stack) \in Nat \ {0}
    BY StackInv, StackTop DEF ExactInv
  <2>2. Len(stack) - 1 \in Nat /\ Len(stack) = (Len(stack) - 1) + 1
    BY <2>1
  <2> QED BY <2>1, <2>2
<1>2. /\ stack' \in Seq(Frame) /\ Len(stack') = n + 1 /\ stack'[n + 1] = fr
      /\ \A k \in 1..n : stack'[k] = stack[k]
  BY <1>1, LastReplaced
<1>3. \A k \in 1..n : FrameIsRight(stack[k]) /\ stack[k].phase # "append"
  BY <1>1, OnlyTopSpellsIs DEF ExactInv
<1>4. OnlyTopSpells'
  BY <1>2, <1>3, OnlyTopSpellsNext
<1>5. Top' = fr /\ (Running("append")' <=> fr.phase = "append")
  BY <1>1, <1>2, RunningNext DEF Top
<1>6. BufferExact'
  BY <1>5 DEF BufferExact
<1> QED BY <1>4, <1>6

\* The beginning of a name: its head, and nothing of its list.
LEMMA BeginNameStaysExact ==
    ASSUME ExactInv, BeginName PROVE OnlyTopSpells' /\ BufferExact'
<1>1. /\ IInv /\ Running("check") /\ ~(Top.req.op = "link" /\ Plain(Top.req.obj))
      /\ buf' = NameHead(Top.req)
      /\ stack' = [stack EXCEPT ![Len(stack)] =
                                   [req |-> Top.req, phase |-> "append", i |-> 1]]
  BY DEF BeginName, ExactInv
<1>2. Top.req \in ListRequest /\ stack # <<>> /\ stack[Len(stack)] = Top
      /\ Len(stack) \in 1..Len(stack)
  BY <1>1, TopLists, StackTop
<1>3. PICK fr : fr = [req |-> Top.req, phase |-> "append", i |-> 1]
  OBVIOUS
<1>4. fr \in Frame /\ fr.req = Top.req /\ fr.phase = "append" /\ fr.i = 1
  BY <1>2, <1>3 DEF Frame
<1>5. FrameIsRight(fr)
  BY <1>1, <1>2, <1>4, OnlyTopSpellsIs DEF ExactInv, FrameIsRight
<1>6. PICK req \in ListRequest, args \in Seq(TemplArg) : req = Top.req /\ args = Args(req)
  BY <1>2, ArgsType
<1>7. Texts(args, RefNames(args))[0] = <<>> /\ NameHead(req) \in Name
  BY RefNamesAre, TextsAre, HeadType
<1>8. NameHead(req) = NameHead(req) \o Texts(args, RefNames(args))[0]
  BY <1>7, ConcatEmptySeq DEF Name
<1>9. buf' = NameHead(fr.req) \o Texts(Args(fr.req), RefNames(Args(fr.req)))[fr.i - 1]
  <2>1. fr.i - 1 = 0
    BY <1>4
  <2> QED BY <1>1, <1>4, <1>6, <1>8, <2>1
<1> QED BY <1>1, <1>2, <1>3, <1>4, <1>5, <1>9, StayStaysExact

\* One more argument of the list.
LEMMA AppendArgStaysExact ==
    ASSUME ExactInv, AppendArg PROVE OnlyTopSpells' /\ BufferExact'
<1>1. /\ IInv /\ Running("append") /\ Top.i <= Len(TopArgs)
      /\ ~NeedsName(TopArgs[Top.i])
  BY AppendNeedsNoName DEF AppendArg, ExactInv
<1>2. PICK req \in ListRequest, args \in Seq(TemplArg) :
         req = Top.req /\ args = Args(req) /\ args = TopArgs
  BY <1>1, TopLists, ArgsType DEF TopArgs
<1>3. PICK i \in 1..Len(args) : i = Top.i
  BY <1>1, <1>2, TopAdvances
<1> DEFINE name == IF args[i].kind \in RefArg THEN LinkName(args[i].ref) ELSE NULL
<1>4. Advance /\ buf' = buf \o ArgText(args, i, name)
  BY <1>1, <1>2, <1>3 DEF AppendArg
<1>5. name = RefNames(args)[i]
  <2>1. CASE args[i].kind \in RefArg
    <3>1. args[i].ref \in Object /\ Resolve(args[i].ref) \notin LocalVar
      BY <1>2, <2>1, ArgRef
    <3>2. Known(args[i].ref)
      BY <1>1, <1>2, <1>3, <2>1 DEF NeedsName
    <3> QED BY <2>1, <3>1, <3>2, LinkNameIsRight DEF RefNames
  <2>2. CASE args[i].kind \notin RefArg
    BY <2>2 DEF RefNames
  <2> QED BY <2>1, <2>2
<1> HIDE DEF name
<1>6. PICK text : text = Texts(args, RefNames(args))
  OBVIOUS
<1>7. /\ text \in [0..Len(args) -> Name] /\ text[i] = text[i - 1] \o ArgText(args, i, name)
      /\ name \in Name /\ ArgText(args, i, name) \in Name
  BY <1>5, <1>6, RefNamesAre, TextsAre, ArgTextType
<1>8. buf = NameHead(req) \o text[i - 1]
  BY <1>1, <1>2, <1>3, <1>6 DEF ExactInv, BufferExact
<1>9. NameHead(req) \in Name /\ text[i - 1] \in Name
  <2>1. i - 1 \in 0..Len(args)
    OBVIOUS
  <2> QED BY <1>7, <2>1, HeadType
<1>10. buf' = NameHead(req) \o text[i]
  <2> DEFINE head == NameHead(req)
             old == text[i - 1]
             new == ArgText(args, i, name)
  <2>1. head \in Seq(Token) /\ old \in Seq(Token) /\ new \in Seq(Token)
    BY <1>7, <1>9 DEF Name
  <2> HIDE DEF head, old, new
  <2>2. (head \o old) \o new = head \o (old \o new)
    BY <2>1, ConcatAssociative
  <2>3. buf' = (head \o old) \o new
    BY <1>4, <1>8 DEF head, old, new
  <2>4. text[i] = old \o new
    BY <1>7 DEF old, new
  <2> QED BY <2>2, <2>3, <2>4 DEF head
<1>11. PICK fr : fr = [Top EXCEPT !.i = Top.i + 1]
  OBVIOUS
<1>12. /\ fr \in Frame /\ stack # <<>> /\ Top \in Frame /\ Top = stack[Len(stack)]
       /\ Len(stack) \in 1..Len(stack) /\ stack \in Seq(Frame)
  BY <1>1, <1>11, TopAdvances, TopLists, StackTop, StackInv
<1>13. stack' = [stack EXCEPT ![Len(stack)] = fr]
  BY <1>4, <1>11, <1>12 DEF Advance
<1>14. fr.req = Top.req /\ fr.phase = Top.phase /\ fr.i = Top.i + 1
  BY <1>11, <1>12 DEF Frame
<1>15. FrameIsRight(fr)
  BY <1>12, <1>14, OnlyTopSpellsIs DEF ExactInv, FrameIsRight
<1>16. fr.i - 1 = i
  BY <1>3, <1>14
<1>17. buf' = NameHead(fr.req) \o Texts(Args(fr.req), RefNames(Args(fr.req)))[fr.i - 1]
  BY <1>2, <1>6, <1>10, <1>14, <1>16
<1> QED BY <1>12, <1>13, <1>15, <1>17, StayStaysExact

LEMMA StackStaysExact ==
    ASSUME ExactInv, [Next]_vars PROVE OnlyTopSpells' /\ BufferExact'
<1>0. IInv
  BY DEF ExactInv
<1>1. CASE EntryPoint
  <2>1. Idle /\ ~Running("append")
    BY <1>1 DEF EntryPoint, GetLinkName, SetupLocalVarName, Ask, SetupGuardVarName,
                TemplateInstanceName, SetupLocalStringName, ThunkName,
                CovariantFunctionName, VTableName, RTTIObjectName,
                ConversionFuncName, TypeName, Idle, Running
  <2>2. CASE UNCHANGED stack
    BY <2>1, <2>2, SameStackStaysExact
  <2>3. CASE \E o \in Object : GetLinkName(o)
    BY <2>1, <2>3, SameStackStaysExact, LinkObjectStaysExact DEF GetLinkName, vars
  <2>4. CASE \E req \in Request : Call(req) /\ (req.op = "local" => req.num = LocalNum[req.obj])
    BY <2>1, <2>4, CallStaysExact
  <2>5. CASE \E d \in LocalVar : SetupLocalVarName(d)
    <3>1. PICK d \in LocalVar : SetupLocalVarName(d)
      BY <2>5
    <3>2. [op |-> "local", obj |-> d, num |-> LocalNum[d]] \in Request
      BY ObjectAssumption DEF Request, ListRequest
    <3> QED BY <2>4, <3>1, <3>2 DEF SetupLocalVarName
  <2>6. CASE \E c \in Class : TemplateInstanceName(c)
    <3>1. PICK c \in Class : TemplateInstanceName(c)
      BY <2>6
    <3>2. [op |-> "instance", obj |-> c, num |-> NULL] \in Request
      BY DEF Request, ListRequest
    <3> QED BY <2>4, <3>1, <3>2 DEF TemplateInstanceName, Ask
  <2>7. CASE \E f \in Function, n \in StringNum : SetupLocalStringName(f, n)
    <3>1. PICK f \in Function, n \in StringNum : SetupLocalStringName(f, n)
      BY <2>7
    <3>2. [op |-> "string", obj |-> f, num |-> n] \in Request
      BY DEF Request, ListRequest
    <3> QED BY <2>4, <3>1, <3>2 DEF SetupLocalStringName, Ask
  <2>8. CASE \E f \in Virtual, offsets \in ThunkOffset : ThunkName(f, offsets)
    <3>1. PICK f \in Virtual, offsets \in ThunkOffset : ThunkName(f, offsets)
      BY <2>8
    <3>2. [op |-> "thunk", obj |-> f, num |-> offsets] \in Request
      BY ObjectAssumption DEF Request, AfterLinkRequest
    <3> QED BY <2>4, <3>1, <3>2 DEF ThunkName, Ask
  <2>9. CASE \E f \in Virtual, t \in MangledType : CovariantFunctionName(f, t)
    <3>1. PICK f \in Virtual, t \in MangledType : CovariantFunctionName(f, t)
      BY <2>9
    <3>2. [op |-> "covariant", obj |-> f, num |-> t] \in Request
      BY ObjectAssumption DEF Request, AfterLinkRequest
    <3> QED BY <2>4, <3>1, <3>2 DEF CovariantFunctionName, Ask
  <2> QED BY <1>1, <2>2, <2>3, <2>5, <2>6, <2>7, <2>8, <2>9
      DEF EntryPoint, SetupGuardVarName, VTableName, RTTIObjectName,
          ConversionFuncName, TypeName
<1>2. CASE CheckArg
  <2>1. Running("check") /\ ~Running("append") /\ Top.i <= Len(TopArgs)
    BY <1>2 DEF CheckArg, Running
  <2>2. CASE NeedsName(TopArgs[Top.i])
    BY <1>0, <1>2, <2>1, <2>2, TopArgIsOlder, LinkObjectStaysExact DEF CheckArg
  <2>3. CASE ~NeedsName(TopArgs[Top.i])
    <3>1. PICK fr : fr = [Top EXCEPT !.i = Top.i + 1]
      OBVIOUS
    <3>2. /\ fr \in Frame /\ stack # <<>> /\ Top \in Frame /\ Top = stack[Len(stack)]
          /\ Len(stack) \in 1..Len(stack) /\ stack \in Seq(Frame)
      BY <1>0, <2>1, <3>1, TopAdvances, TopLists, StackTop, StackInv
    <3>3. stack' = [stack EXCEPT ![Len(stack)] = fr]
      BY <1>2, <2>3, <3>1, <3>2 DEF CheckArg, Advance
    <3>4. fr.req = Top.req /\ fr.phase = Top.phase
      BY <3>1, <3>2 DEF Frame
    <3>5. FrameIsRight(fr) /\ fr.phase # "append"
      BY <2>1, <3>2, <3>4, OnlyTopSpellsIs DEF ExactInv, FrameIsRight, Running
    <3> QED BY <3>2, <3>3, <3>5, StayStaysExact
  <2> QED BY <2>2, <2>3
<1>3. CASE BeginName
  BY <1>3, BeginNameStaysExact
<1>4. CASE KeepIdentifier
  BY <1>0, <1>4, TopLists, ReturnStaysExact DEF KeepIdentifier
<1>5. CASE AppendArg
  BY <1>5, AppendArgStaysExact
<1>6. CASE FinishName
  BY <1>6, FinishedName, ReturnStaysExact DEF FinishName
<1>7. CASE AwaitLink
  <2>1. Running("await") /\ ~Running("append") /\ stack # <<>>
    BY <1>7 DEF AwaitLink, Running
  <2>2. CASE Known(Top.req.obj)
    BY <1>7, <2>1, <2>2, ReturnStaysExact DEF AwaitLink
  <2>3. CASE ~Known(Top.req.obj)
    <3>1. Top.req.obj \in Object
      BY <1>0, <2>1, StackTop DEF Running, Frame, AfterLinkRequest, Object
    <3> QED BY <1>7, <2>1, <2>3, <3>1, LinkObjectStaysExact DEF AwaitLink
  <2> QED BY <2>2, <2>3
<1>8. CASE UNCHANGED vars
  <2>1. stack' = stack /\ buf' = buf
    BY <1>8 DEF vars
  <2>2. OnlyTopSpells'
    BY <2>1, OnlyTopSpellsIs, OnlyTopSpellsNext DEF ExactInv
  <2>3. Top' = Top /\ (Running("append")' <=> Running("append"))
    BY <2>1 DEF Top, Running
  <2> QED BY <2>1, <2>2, <2>3 DEF ExactInv, BufferExact
<1> QED BY <1>1, <1>2, <1>3, <1>4, <1>5, <1>6, <1>7, <1>8 DEF Next, Step

\* Every link name that is cached, and every name that is handed to a caller,
\* is the name of its object, though all of them are assembled in one buffer by
\* calls inside calls, in every order the compiler may ask for them.
THEOREM NamesAreExact == Spec => []NamesExact
<1>1. Init => ExactInv
  <2> SUFFICES ASSUME Init PROVE ExactInv
    OBVIOUS
  <2>1. stack = <<>> /\ 1..Len(stack) = {} /\ given = {} /\ \A x \in Named : linkname[x] = NULL
    BY DEF Init
  <2> QED BY <2>1, InitIInv, NamesExactIs
      DEF ExactInv, OnlyTopSpells, BufferExact, GuardedIsNamed, Running
<1>2. ExactInv /\ [Next]_vars => ExactInv'
  <2> SUFFICES ASSUME ExactInv, [Next]_vars PROVE ExactInv'
    OBVIOUS
  <2>1. IInv'
    BY NextKeeps DEF ExactInv
  <2> QED BY <2>1, NamesStayExact, StackStaysExact DEF ExactInv
<1>3. ExactInv => NamesExact
  BY DEF ExactInv
<1> QED BY <1>1, <1>2, <1>3, PTL DEF Spec
=============================================================================
