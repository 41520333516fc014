----------------------------- MODULE LinearRepo -----------------------------
(***************************************************************************)
(* What the write path of a PDS promises about the repository of one       *)
(* account: its commits form one line, each made from the one before it,   *)
(* and none of them lands that has not been announced first.  An announced *)
(* commit may never land: the process may stop in between.                 *)
(***************************************************************************)
EXTENDS Integers, Sequences

CONSTANT Follows(_, _)   \* Follows(c, p): commit c was made from commit p

VARIABLES
    line,       \* the commits of the repository
    announced   \* the commit events in the order of the firehose

vars == <<line, announced>>

Last(s) == s[Len(s)]

Init ==
    /\ Len(line) = 1
    /\ announced = line

\* Only what follows the present commit is announced
Announce ==
    /\ announced' = Append(announced, Last(announced'))
    /\ Follows(Last(announced'), Last(line))
    /\ UNCHANGED line

\* What was announced last lands, if it still follows
Land ==
    /\ Follows(Last(announced), Last(line))
    /\ line' = Append(line, Last(announced))
    /\ UNCHANGED announced

Next == Announce \/ Land

Spec == Init /\ [][Next]_vars

=============================================================================
