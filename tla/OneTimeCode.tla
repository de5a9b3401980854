---------------------------- MODULE OneTimeCode -----------------------------
(***************************************************************************)
(* What the verification subdomain promises about the codes it mails: a    *)
(* live code takes a limited number of wrong guesses, opens the door at    *)
(* most once, and once it is dead (used, blocked, expired or superseded)   *)
(* it stays dead and answers nothing.                                      *)
(***************************************************************************)
EXTENDS Naturals, Sequences

CONSTANT MaxAttempts

VARIABLE codes

Code == [live: BOOLEAN, wrong: Nat, used: Nat]

Init == codes = <<>>

Issue == codes' = Append(codes, [live |-> TRUE, wrong |-> 0, used |-> 0])

Becomes(i, live, wrong, used) ==
    codes' = [codes EXCEPT ![i] = [live |-> live, wrong |-> wrong, used |-> used]]

\* The last wrong guess the code takes kills it.
GuessWrong(i) ==
    /\ codes[i].live
    /\ LET n == codes[i].wrong + 1 IN Becomes(i, n < MaxAttempts, n, codes[i].used)

GuessRight(i) ==
    /\ codes[i].live
    /\ Becomes(i, FALSE, codes[i].wrong, codes[i].used + 1)

Retire(i) ==
    /\ codes[i].live
    /\ Becomes(i, FALSE, codes[i].wrong, codes[i].used)

Next ==
    \/ Issue
    \/ \E i \in DOMAIN codes : GuessWrong(i) \/ GuessRight(i) \/ Retire(i)

Spec == Init /\ [][Next]_codes
=============================================================================
