----------------------------- MODULE TokenLife -----------------------------
(***************************************************************************)
(* What the session tokens of Dragram promise, with no clock, no Redis and *)
(* no requests: a token is issued once, is good for a while, and once it   *)
(* has stopped being good it never is again.  A token may stop being good  *)
(* by revocation, by "log out everywhere" or by reaching its expiry; the   *)
(* promise does not tell them apart.                                       *)
(***************************************************************************)
CONSTANT Token           \* every token that can ever be issued

VARIABLES seen,          \* the tokens issued so far
          valid          \* those that have not stopped being good

vars == <<seen, valid>>

TypeOK == /\ seen \subseteq Token
          /\ valid \subseteq seen

Init == seen = {} /\ valid = {}

\* New tokens come into being, good from the start.
Issue == \E new \in SUBSET (Token \ seen) :
            /\ new # {}
            /\ seen' = seen \cup new
            /\ valid' = valid \cup new

\* Some tokens stop being good.
Kill == /\ valid' \subseteq valid
        /\ UNCHANGED seen

Next == Issue \/ Kill

Spec == Init /\ [][Next]_vars
=============================================================================
