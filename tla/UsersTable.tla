------------------------------ MODULE UsersTable ------------------------------
(***************************************************************************)
(* The "users" table of user-service: its rows, the constraints of its     *)
(* migration that can refuse a statement, and the row each SQL statement   *)
(* of queries/users.sql leaves behind.                                     *)
(*                                                                         *)
(* A row keeps the two columns that behave differently: email (UNIQUE) and *)
(* name, which stands for first_name, last_name, phone, age and status,    *)
(* all written and COALESCEd alike.  updated_at becomes a stamp that       *)
(* numbers the versions of rows in the order they were committed.          *)
(***************************************************************************)
EXTENDS Naturals

CONSTANTS Users,    \* the ids gen_random_uuid() may generate
          Emails,   \* values of the email column
          Names,    \* values of the other, unconstrained columns
          None      \* SQL's "no row", Go's nil: the absence of a value

Row == [email : Emails, name : Names, stamp : Nat]

\* CreateInput / UpdateInput: a column is given a value or left nil.
Input == [email : Emails \cup {None}, name : Names \cup {None}]
NewUser == [email : Emails, name : Names]
NoInput == [email |-> None, name |-> None]

ASSUME NoneIsNoValue ==
    None \notin Users \cup Emails \cup Names \cup Row \cup Input

\* The table, and any partial copy of it: a reply, a cache.
Rows == [Users -> Row \cup {None}]

Nothing == [u \in Users |-> None]

Only(u, row) == [Nothing EXCEPT ![u] = row]

-----------------------------------------------------------------------------

\* UNIQUE (email), seen by the statement that writes the row of u.
EmailTaken(t, u, email) ==
    \E v \in Users \ {u} : t[v] # None /\ t[v].email = email

\* Ids gen_random_uuid() may still come up with: it never repeats itself.
UnusedIds(past) == {u \in Users : past[u] = {}}

\* INSERT ... RETURNING
InsertedRow(in, now) == [email |-> in.email, name |-> in.name, stamp |-> now]

Coalesce(new, old) == IF new = None THEN old ELSE new

\* Mutant of UpdatedRow: the columns are set without COALESCE.
UpdatedRowOverwriting(old, in, now) ==
    [email |-> in.email, name |-> in.name, stamp |-> now]

\* UPDATE ... SET column = COALESCE(new, column) ... RETURNING
UpdatedRow(old, in, now) ==
    [email |-> Coalesce(in.email, old.email),
     name  |-> Coalesce(in.name, old.name),
     stamp |-> now]

\* What the UNIQUE constraint promises of a whole table.
UniqueEmails(t) ==
    \A u, v \in Users :
        t[u] # None /\ t[v] # None /\ t[u].email = t[v].email => u = v
=============================================================================
