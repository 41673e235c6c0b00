---------------------------- MODULE LoginSessions ----------------------------
(***************************************************************************)
(* What a login promises, whatever fails or runs at the same time: a login *)
(* transaction is spent once, and gives at most one session, to the        *)
(* account of the person who approved that login.  A person's account is   *)
(* chosen once and is nobody else's.                                       *)
(***************************************************************************)
CONSTANTS Logins, Subjects, Accounts, None

VARIABLES
    stage,          \* of each login transaction
    subject,        \* who approved it at the provider
    owner,          \* the account of each person
    sessions        \* sessions given for each login: <<code, number, account>>

vars == <<stage, subject, owner, sessions>>

Init ==
    /\ stage = [l \in Logins |-> "absent"]
    /\ subject = [l \in Logins |-> None]
    /\ owner = [s \in Subjects |-> None]
    /\ sessions = [l \in Logins |-> {}]

Open(l) ==
    /\ stage[l] = "absent"
    /\ stage' = [stage EXCEPT ![l] = "open"]
    /\ UNCHANGED <<subject, owner, sessions>>

Approve(l, s) ==
    /\ stage[l] # "absent" /\ subject[l] = None
    /\ subject' = [subject EXCEPT ![l] = s]
    /\ UNCHANGED <<stage, owner, sessions>>

Spend(l) ==
    /\ stage[l] = "open"
    /\ stage' = [stage EXCEPT ![l] = "consumed"]
    /\ UNCHANGED <<subject, owner, sessions>>

Adopt(l, a) ==
    /\ stage[l] = "consumed" /\ subject[l] # None
    /\ owner[subject[l]] = None
    /\ \A s \in Subjects : owner[s] # a
    /\ owner' = [owner EXCEPT ![subject[l]] = a]
    /\ UNCHANGED <<stage, subject, sessions>>

Issue(l) ==
    /\ stage[l] = "consumed" /\ subject[l] # None
    /\ owner[subject[l]] # None
    /\ sessions[l] = {}
    /\ \E x \in sessions'[l] :
         /\ x[3] = owner[subject[l]]
         /\ sessions' = [sessions EXCEPT ![l] = {x}]
    /\ UNCHANGED <<stage, subject, owner>>

Next ==
    \E l \in Logins :
      \/ Open(l) \/ Spend(l) \/ Issue(l)
      \/ \E s \in Subjects : Approve(l, s)
      \/ \E a \in Accounts : Adopt(l, a)

Spec == Init /\ [][Next]_vars
=============================================================================
