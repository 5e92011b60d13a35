------------------------------ MODULE UserInput ------------------------------
(***************************************************************************)
(* The input of create and update requests: what JSON decodes, what the    *)
(* validation of the gateway and that of user-service accept, and what the *)
(* columns of the users table hold.                                        *)
(*                                                                         *)
(* A text is known by what the rules ask of it: its length, whether it     *)
(* matches a pattern, whether it ends in a space or holds a NUL character, *)
(* whether it is the address of another user.  name stands for firstName   *)
(* and lastName, which have the same rules and columns, and Active for     *)
(* both statuses.                                                          *)
(***************************************************************************)
EXTENDS Integers

CONSTANTS NameLengths, EmailLengths, PhoneLengths, Ages,
          MaxInt32,  \* stands for 2^31 - 1
          None       \* a field that is absent or null

ASSUME SizesAreNats ==
    MaxInt32 \in Nat /\ NameLengths \cup EmailLengths \cup PhoneLengths \subseteq Nat
ASSUME AgesAreInts == Ages \subseteq Int

Names == [length : NameLengths, nul : BOOLEAN]

\* Every malformed address is as good as none.
Emails == [length : EmailLengths, wellFormed : {TRUE}, taken : BOOLEAN]

NoName == [length |-> 0, nul |-> FALSE]
NoEmail == [length |-> 0, wellFormed |-> FALSE, taken |-> FALSE]
NoPhone == [plus |-> FALSE, length |-> 0, legal |-> FALSE, spaceAtEnd |-> FALSE]
BadPhone == [NoPhone EXCEPT !.length = 10]

\* length counts the characters after a leading +; legal: the first of them
\* is a digit and the others are digits, white space, hyphens or brackets.
Phones == [plus : BOOLEAN, length : PhoneLengths, legal : {TRUE},
           spaceAtEnd : BOOLEAN] \cup {NoPhone, BadPhone}

ASSUME NoneIsNoField ==
    None \notin Names \cup {NoName} \cup Emails \cup {NoEmail} \cup Phones
                 \cup Ages \cup {"", "Active", "Other"}

\* A field the body of a create leaves out is the empty string.
CreateUserInput ==
    [name : Names \cup {NoName}, email : Emails \cup {NoEmail},
     phone : Phones, age : Ages \cup {None}, status : {"", "Active", "Other"}]

\* The fields of an update are pointers: absent is not empty.
UpdateUserInput ==
    [name : Names \cup {NoName, None}, email : Emails \cup {NoEmail, None},
     phone : Phones \cup {None}, age : Ages \cup {None},
     status : {"", "Active", "Other", None}]

\* encoding/json refuses a number that does not fit its field.
Decodes(input) == input.age # None => input.age \in -MaxInt32 - 1 .. MaxInt32

-----------------------------------------------------------------------------
(* Validation.  The two programs hold the same tags, each in its own types, *)
(* and share the phone pattern.  email and phone: the field has the tag.   *)

\* Mutant of ValidPhone: the pattern counts one character more.
ValidPhoneLonger(p) == p = NoPhone \/ (p.legal /\ p.length \in 7 .. 21)

\* ^\+?[0-9][0-9\s\-()]{6,19}$, or nothing at all.
ValidPhone(p) == p = NoPhone \/ (p.legal /\ p.length \in 7 .. 20)

\* Mutant of GatewayRules: the gateway's copy has lost the tag of the phone.
GatewayRulesDrifted ==
    [name |-> 2 .. 50, email |-> TRUE, phone |-> FALSE, age |-> 1,
     status |-> {"Active"}]

GatewayRules ==
    [name |-> 2 .. 50, email |-> TRUE, phone |-> TRUE, age |-> 1,
     status |-> {"Active"}]

ServiceRules ==
    [name |-> 2 .. 50, email |-> TRUE, phone |-> TRUE, age |-> 1,
     status |-> {"Active"}]

ValidAge(rules, age) == age # None => age >= rules.age

ValidCreate(rules, input) ==
    /\ input.name.length \in rules.name
    /\ rules.email => input.email.wellFormed
    /\ rules.phone => ValidPhone(input.phone)
    /\ ValidAge(rules, input.age)
    /\ input.status \in rules.status \cup {""}

\* omitempty leaves out an absent field, not a present empty one.
ValidUpdate(rules, input) ==
    /\ input.name # None => input.name.length \in rules.name
    /\ rules.email /\ input.email # None => input.email.wellFormed
    /\ rules.phone /\ input.phone # None => ValidPhone(input.phone)
    /\ ValidAge(rules, input.age)
    /\ input.status \in rules.status \cup {None}

HasField(input) == \E f \in DOMAIN input : input[f] # None

-----------------------------------------------------------------------------
(* The columns.                                                            *)

Length(p) == p.length + (IF p.plus THEN 1 ELSE 0)

\* VARCHAR(50), VARCHAR(255) and VARCHAR(20); a space too many at the end is
\* cut off, any other character too many is an error.  No text holds a NUL.
Fits(input) ==
    /\ input.name # None => input.name.length <= 50 /\ ~input.name.nul
    /\ input.email # None => input.email.length <= 255
    /\ input.phone # None =>
           Length(input.phone) <= (IF input.phone.spaceAtEnd THEN 21 ELSE 20)
=============================================================================
