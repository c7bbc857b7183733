-------------------------- MODULE MCManagedSession --------------------------
(* Instances of ManagedSession for TLC: two or three calls after the probe;
   what distinguishes the runs is what the commands print and how they end. *)
EXTENDS ManagedSession, Functions, TLC

CONSTANTS a, b, d

TwoCalls == {a, b}
ThreeCalls == {a, b, d}
NoCalls == {}
OnlyD == {d}

\* Failing commands, so that a lost status (zero) is seen.
Failing == [c \in Senders |-> IF c = Open THEN 0 ELSE IF c = a THEN 3 ELSE 7]

\* The profile greets; a prints more than the buffer holds; b prints a page with blank
\* lines before and after its line of text.
Pages == (Open :> <<"text">>) @@ (a :> [i \in 1..6 |-> IF i = 3 THEN "blank" ELSE "text"])
           @@ (b :> <<"blank", "blank", "text", "blank">>) @@ [c \in Senders |-> <<>>]

\* A line each.
Short == [c \in Senders |-> IF c = Open THEN <<>> ELSE <<"text">>]

\* Standard error: nothing, or a line of everyone, the profile included.
Silent == [c \in Senders |-> 0]
Warnings == [c \in Senders |-> 1]
WarningOfB == [c \in Senders |-> IF c = b THEN 1 ELSE 0]

\* Noise counts them all.
ASSUME NoiseCounts == FoldFunction(LAMBDA x, y : x + y, 0, Errors) <= Noise
=============================================================================
