----------------------------- MODULE MCAccounts -----------------------------
(* Instances of Accounts for TLC. *)
EXTENDS Accounts, TLC

CONSTANTS ana, bea, sys, junk, p1, p2, long

Symmetry == Permutations(Sessions)

MCStrings == {ana, bea, sys, junk}
MCPasswords == {p1, p2, long, junk}
\* p2 is the beginning of long.
MCCut == [p \in MCPasswords |-> IF p = long THEN p2 ELSE p]

Create(name, email, password) ==
    [op |-> "CREATE_USER", username |-> name, email |-> email, password |-> password,
     form |-> "ok"]
Login(key, password) == [op |-> "VALIDATE_USER", key |-> key, password |-> password]

MCSystemRow == Row(sys, sys, p1)

\* bea's email is the username ana, and the other way round.
MCRequests ==
    {Create(ana, ana, p1), Create(bea, ana, p2), Create(ana, bea, p1),
     Create(bea, bea, long), [Create(ana, ana, p1) EXCEPT !.form = "bad"],
     Login(ana, p1), Login(ana, p2), Login(bea, p2), Login(bea, long), Login(sys, p1),
     Login(junk, junk)}

=============================================================================
