------------------------------ MODULE Accounts ------------------------------
(* The accounts of the server (backend/middlewares/mdwuser): a join names a user and
   a password, an unknown name is registered on the spot, a known one must bring its
   password.  One request is authenticated at a time (it runs under the mutex of the
   pipes), but it takes up to three database sessions that are opened and committed
   on their own: each of their statements may fail, and the process may be stopped
   between any two and started again on the same file.                           *)
EXTENDS Naturals

CONSTANTS
    Conns,      \* connections
    Names,      \* user names
    Passwords,
    Salts,      \* what RandomString(16) may return
    NoOne       \* a payload without a user, a pipe without a request

VARIABLES
    account,  \* table user: name -> encoded password
    user,     \* connection -> the user in its payload, and the password it came with
    request,  \* the join being authenticated
    denied    \* connection -> how its last join was turned down

vars == <<account, user, request, denied>>

Users == [name : Names, password : Passwords]

Steps == {"authenticate", "register", "getUser"}

Requests ==
    [conn : Conns, name : Names, password : Passwords, step : Steps, failed : BOOLEAN]

ASSUME AccountsAssumption == NoOne \notin Users \cup Requests

(* Why a join was turned down: it could not be decoded, some statement failed, or
   none did.                                                                    *)
Denials == {"never", "malformed", "failure", "refused"}

-----------------------------------------------------------------------------
(* hasher_encode keeps the salt in its result, so that hasher_verify can encode
   again.  A salt is made of letters: the result splits at its separators.       *)
hasher_encode(password, salt) == [salt |-> salt, hash |-> <<password, salt>>]

hasher_verify(password, encoded) == encoded = hasher_encode(password, encoded.salt)

Encoded == {hasher_encode(p, s) : p \in Passwords, s \in Salts}

-----------------------------------------------------------------------------
TypeOK ==
    /\ DOMAIN account \subseteq Names
    /\ account \in [DOMAIN account -> Encoded]
    /\ user \in [Conns -> Users \cup {NoOne}]
    /\ request \in Requests \cup {NoOne}
    /\ denied \in [Conns -> Denials]

(* NewDatabase creates the table only where there is none. *)
Init ==
    /\ account = [n \in {} |-> NoOne]
    /\ user = [c \in Conns |-> NoOne]
    /\ request = NoOne
    /\ denied = [c \in Conns |-> "never"]

(* The process stops, wherever it is, and is started again: connections and their
   payloads are gone, the file is not.                                          *)
Restart ==
    /\ user' = [c \in Conns |-> NoOne]
    /\ request' = NoOne
    /\ denied' = [c \in Conns |-> "never"]
    /\ UNCHANGED account

At(step) == request # NoOne /\ request.step = step

GoOn(step, failed) ==
    request' = [request EXCEPT !.step = step, !.failed = @ \/ failed]

(* The join is answered with a denial and goes no further; the payload keeps the
   user of an earlier join.                                                     *)
Deny(c, why) ==
    /\ denied' = [denied EXCEPT ![c] = why]
    /\ UNCHANGED user

End(failed) ==
    /\ Deny(request.conn, IF request.failed \/ failed THEN "failure" ELSE "refused")
    /\ request' = NoOne

-----------------------------------------------------------------------------
(* Middleware.authenticate *)

(* Unmarshal *)
Malformed(c) ==
    /\ request = NoOne
    /\ Deny(c, "malformed")
    /\ UNCHANGED <<account, request>>

Receive(c, n, p) ==
    /\ request = NoOne
    /\ request' = [conn |-> c, name |-> n, password |-> p,
                   step |-> "authenticate", failed |-> FALSE]
    /\ UNCHANGED <<account, user, denied>>

(* Slip: a name that is not found is an error like any other. *)
NotFound_Ends ==
    /\ At("authenticate") /\ request.name \notin DOMAIN account
    /\ End(FALSE)
    /\ UNCHANGED account

(* No row: the name is new. *)
NotFound ==
    /\ At("authenticate") /\ request.name \notin DOMAIN account
    /\ GoOn("register", FALSE)
    /\ UNCHANGED <<account, user, denied>>

(* Whatever else goes wrong with the row is taken for a name that is not there. *)
ScanFails ==
    /\ At("authenticate")
    /\ GoOn("register", TRUE)
    /\ UNCHANGED <<account, user, denied>>

Verified ==
    /\ At("authenticate") /\ request.name \in DOMAIN account
    /\ hasher_verify(request.password, account[request.name])
    /\ GoOn("getUser", FALSE)
    /\ UNCHANGED <<account, user, denied>>

WrongPassword ==
    /\ At("authenticate") /\ request.name \in DOMAIN account
    /\ ~ hasher_verify(request.password, account[request.name])
    /\ End(FALSE)
    /\ UNCHANGED account

(* Slip: INSERT OR REPLACE. *)
Register_Replace(salt) ==
    /\ At("register")
    /\ account' = [n \in DOMAIN account \cup {request.name} |->
                    IF n = request.name THEN hasher_encode(request.password, salt)
                    ELSE account[n]]
    /\ GoOn("getUser", FALSE)
    /\ UNCHANGED <<user, denied>>

(* Slip: the password is kept as it came. *)
Register_Plain(salt) ==
    /\ At("register") /\ request.name \notin DOMAIN account
    /\ account' = [n \in DOMAIN account \cup {request.name} |->
                    IF n = request.name THEN request.password ELSE account[n]]
    /\ GoOn("getUser", FALSE)
    /\ UNCHANGED <<user, denied>>

(* The name is the primary key. *)
Register(salt) ==
    /\ At("register") /\ request.name \notin DOMAIN account
    /\ account' = [n \in DOMAIN account \cup {request.name} |->
                    IF n = request.name THEN hasher_encode(request.password, salt)
                    ELSE account[n]]
    /\ GoOn("getUser", FALSE)
    /\ UNCHANGED <<user, denied>>

(* Slip: the error of the registration is dropped. *)
KeyTaken_GoesOn ==
    /\ At("register") /\ request.name \in DOMAIN account
    /\ GoOn("getUser", FALSE)
    /\ UNCHANGED <<account, user, denied>>

KeyTaken ==
    /\ At("register") /\ request.name \in DOMAIN account
    /\ End(FALSE)
    /\ UNCHANGED account

(* The row of statistics makes a user for the payload. *)
GetUser ==
    /\ At("getUser") /\ request.name \in DOMAIN account
    /\ user' = [user EXCEPT ![request.conn] =
                    [name |-> request.name, password |-> request.password]]
    /\ request' = NoOne
    /\ UNCHANGED <<account, denied>>

(* The file cannot be opened, a statement cannot be prepared or carried out.  The
   account that was registered a moment ago stays.                              *)
DatabaseFails ==
    /\ request # NoOne
    /\ End(TRUE)
    /\ UNCHANGED account

-----------------------------------------------------------------------------
Authenticate ==
    \/ NotFound
    \/ ScanFails
    \/ Verified
    \/ WrongPassword
    \/ \E salt \in Salts : Register(salt)
    \/ KeyTaken
    \/ GetUser
    \/ DatabaseFails

Next ==
    \/ Restart
    \/ \E c \in Conns : Malformed(c)
    \/ \E c \in Conns, n \in Names, p \in Passwords : Receive(c, n, p)
    \/ Authenticate

Spec == Init /\ [][Next]_vars

-----------------------------------------------------------------------------
(* Properties *)

(* Whoever is in came with the password the account was registered with, whichever
   statements failed on the way and however often the server was restarted.      *)
InByPassword ==
    \A c \in Conns : user[c] # NoOne =>
        /\ user[c].name \in DOMAIN account
        /\ hasher_verify(user[c].password, account[user[c].name])

(* An account, once made, stays as it was made. *)
AccountStays ==
    [][\A n \in DOMAIN account : n \in DOMAIN account' /\ account'[n] = account[n]]_vars

(* A join that was turned down although nothing failed brought a wrong password:
   the owner of an account is never told off.                                   *)
OnlyWrongRefused ==
    [][\A c \in Conns :
        denied'[c] = "refused" /\ denied[c] # "refused" =>
            /\ request.conn = c
            /\ request.name \in DOMAIN account
            /\ ~ hasher_verify(request.password, account[request.name])]_vars
=============================================================================
