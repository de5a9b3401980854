------------------------- MODULE AtomicRegistration -------------------------
(***************************************************************************)
(* What the registration saga promises: a person is registered whole, in   *)
(* one step, or not at all; nobody shares an e-mail, a phone number or a   *)
(* username with anyone else.                                              *)
(***************************************************************************)
CONSTANTS Emails, Phones, Usernames

VARIABLE registered

Person == [email: Emails, phone: Phones, username: Usernames]

Clash(a, b) == a.email = b.email \/ a.phone = b.phone \/ a.username = b.username

Init == registered = {}

Register ==
    \E a \in Person :
        /\ \A b \in registered : ~Clash(a, b)
        /\ registered' = registered \cup {a}

\* UpdateProfile may give a registered person another phone number.
ChangePhone ==
    \E a \in registered, ph \in Phones :
        LET b == [a EXCEPT !.phone = ph] IN
        /\ \A c \in registered \ {a} : ~Clash(b, c)
        /\ registered' = (registered \ {a}) \cup {b}

\* ChangeUsername another username.
ChangeName ==
    \E a \in registered, u \in Usernames :
        LET b == [a EXCEPT !.username = u] IN
        /\ \A c \in registered \ {a} : ~Clash(b, c)
        /\ registered' = (registered \ {a}) \cup {b}

Spec == Init /\ [][Register \/ ChangePhone \/ ChangeName]_registered
=============================================================================
