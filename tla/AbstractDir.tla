---------------------------- MODULE AbstractDir ----------------------------
(***************************************************************************)
(* What reading a directory promises: each readable entry once, in the     *)
(* order the system lists them, and then nothing more.  Only each time the *)
(* system refuses to end the search is the last entry given once again.    *)
(***************************************************************************)
EXTENDS Integers, Sequences

CONSTANTS
    Listing,   \* the sequences of readable entries a directory can have
    Nothing    \* the answer that there is no entry

VARIABLES
    remaining,   \* what is still to be answered
    answer,      \* what the last read answered
    failures     \* how often the system has refused to end a search

Init == remaining = <<>> /\ answer = Nothing /\ failures = 0

Open == remaining = <<>> /\ remaining' \in Listing /\ UNCHANGED <<answer, failures>>

ReadEntry ==
    /\ remaining # <<>>
    /\ answer' = Head(remaining) /\ remaining' = Tail(remaining)
    /\ UNCHANGED failures

Refused == failures' = failures + 1 /\ UNCHANGED remaining

ReadLastAgain == Len(remaining) = 1 /\ answer' = Head(remaining) /\ Refused

ReadEnd ==
    /\ remaining = <<>>
    /\ answer' = Nothing /\ UNCHANGED <<remaining, failures>>

Close == remaining' = <<>> /\ UNCHANGED <<answer, failures>>

CloseFails == Refused /\ UNCHANGED answer

Next == Close \/ CloseFails \/ Open \/ ReadEntry \/ ReadLastAgain \/ ReadEnd

Spec == Init /\ [][Next]_<<remaining, answer, failures>>
=============================================================================
