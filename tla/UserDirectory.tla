----------------------------- MODULE UserDirectory -----------------------------
(***************************************************************************)
(* What the program promises its callers, with no service, bus or cache in *)
(* sight: a directory of users in which every request makes at most one    *)
(* change, the one it asked for, at most once, and returns something that  *)
(* is true of that change.                                                 *)
(*                                                                         *)
(* A request may return an internal error before, after or without its     *)
(* change; any other answer to a create, update or delete is final.        *)
(***************************************************************************)
EXTENDS UsersTable

CONSTANTS Requests, Ops, Mutations, Codes

VARIABLES table,    \* the users
          asked,    \* request -> the operation and the user it named
          due,      \* request -> the input of the change it is still owed
          applied,  \* requests that have changed the directory
          returned  \* request -> what it returned

dirVars == <<table, asked, due, applied, returned>>

Wish == [op : Ops, user : Users \cup {None}]

Init ==
    /\ table \in [Users -> [email : Emails, name : Names, stamp : {0}]
                              \cup {None}]
    /\ UniqueEmails(table)
    /\ asked = [r \in Requests |-> None]
    /\ due = [r \in Requests |-> None]
    /\ applied = {}
    /\ returned = [r \in Requests |-> None]

\* A request names what it wants.  Its change becomes due, with an input, or
\* it returns on the spot: a read, or a service that is down.  Which wish,
\* input or row it is shows in the next state: primed entries of the request
\* or user stand for the choice, and EXCEPT leaves all others alone.
Invoke(r) ==
    /\ asked[r] = None
    /\ asked'[r] \in Wish
    /\ asked' = [asked EXCEPT ![r] = asked'[r]]
    /\ \/ /\ due' = [due EXCEPT ![r] = due'[r]]
          /\ due'[r] \in Input \cup {None}
          /\ due'[r] # None => asked'[r].op \in Mutations
          /\ UNCHANGED returned
       \/ /\ \E code \in {"INTERNAL"}
                            \cup (IF asked'[r].op = "get" THEN {"OK"} ELSE {}) :
                returned' = [returned EXCEPT ![r] = code]
          /\ UNCHANGED due
    /\ UNCHANGED <<table, applied>>

\* Before and after of user u, changed by a request that asked for a with
\* input in: a new user made of the input, or the user it named.
Permitted(a, in, u, old, new) ==
    \/ /\ a.op = "create"
       /\ old = None /\ new # None
       /\ new = InsertedRow(in, new.stamp)
    \/ /\ a.op = "update" /\ a.user = u
       /\ old # None /\ new \notin {None, old}
       /\ new = UpdatedRow(old, in, new.stamp)
    \/ /\ a.op = "delete" /\ a.user = u
       /\ old # None /\ new = None

\* The change takes effect, perhaps after the caller has been told of an
\* internal error, never after any other answer.
Apply(r) ==
    /\ r \notin applied
    /\ applied' = applied \cup {r}
    /\ due[r] # None
    /\ due' = [due EXCEPT ![r] = None]
    /\ returned[r] \in {None, "INTERNAL"}
    /\ \E u \in Users :
          /\ table' # table
          /\ table' = [table EXCEPT ![u] = table'[u]]
          /\ Permitted(asked[r], due[r], u, table[u], table'[u])
    /\ UniqueEmails(table')
    /\ UNCHANGED <<asked, returned>>

\* Changes that were refused, or got lost, are due no more: any number of
\* them at once, as a service that stops drops all it has queued.
GiveUp ==
    /\ UNCHANGED <<table, applied, asked, returned>>
    /\ \A r \in Requests : due'[r] \in {None, due[r]}

\* A definite answer leaves nothing due.
Truthful(r, code) ==
    /\ code # "INTERNAL" => due[r] = None
    /\ code = "OK" /\ asked[r].op \in Mutations => r \in applied
    /\ code \in {"BAD_REQUEST", "NOT_FOUND"} => r \notin applied

Return(r) ==
    /\ asked[r] # None
    /\ returned[r] = None
    /\ returned'[r] \in Codes
    /\ Truthful(r, returned'[r])
    /\ returned' = [returned EXCEPT ![r] = returned'[r]]
    /\ UNCHANGED <<table, asked, due, applied>>

\* A gateway goes down: its callers, however many, see their connections
\* fail.  What they asked for may still be due.
Abandon ==
    /\ \A r \in Requests :
          \/ returned'[r] = returned[r]
          \/ asked[r] # None /\ returned[r] = None /\ returned'[r] = "INTERNAL"
    /\ UNCHANGED <<table, asked, due, applied>>

Next ==
    \/ GiveUp
    \/ Abandon
    \/ \E r \in Requests : Invoke(r) \/ Apply(r) \/ Return(r)

Spec == Init /\ [][Next]_dirVars
=============================================================================
