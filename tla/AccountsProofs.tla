--------------------------- MODULE AccountsProofs ---------------------------
(* The accounts, for any number of connections, names and passwords. *)
EXTENDS Accounts, TLAPS

(* Beyond what is promised of the connections: a request that is past the test of
   its password brought the right one, and one that found no row and met no failure
   will find its name free.                                                     *)
RequestProven ==
    /\ At("getUser") =>
        /\ request.name \in DOMAIN account
        /\ hasher_verify(request.password, account[request.name])
    /\ At("register") /\ ~ request.failed => request.name \notin DOMAIN account

AccountsInv == TypeOK /\ InByPassword /\ RequestProven

(* An encoded password is verified by the password it was made from. *)
LEMMA VerifiesOwn ==
    ASSUME NEW p, NEW salt
    PROVE  hasher_verify(p, hasher_encode(p, salt))
  BY DEF hasher_verify, hasher_encode

(* No account, and nobody has asked for one. *)
LEMMA AccountsInit == Init => AccountsInv
  BY DEF Init, AccountsInv, TypeOK, InByPassword, RequestProven, At, Denials

(* The account a registration adds, and those it leaves alone. *)
LEMMA RegisterAdds ==
    ASSUME AccountsInv, NEW salt \in Salts, Register(salt)
    PROVE  /\ DOMAIN account' = DOMAIN account \cup {request.name}
           /\ account'[request.name] = hasher_encode(request.password, salt)
           /\ \A n \in DOMAIN account : account'[n] = account[n]
  BY DEF AccountsInv, Register

(* Every step keeps the invariant: one step per action. *)
LEMMA AccountsStep == AccountsInv /\ [Next]_vars => AccountsInv'
<1> SUFFICES ASSUME AccountsInv, [Next]_vars PROVE AccountsInv'
  OBVIOUS
<1> USE AccountsAssumption DEF AccountsInv
<1>1. CASE UNCHANGED vars
  BY <1>1 DEF vars, TypeOK, InByPassword, RequestProven, At
<1>2. CASE Restart
  BY <1>2 DEF Restart, TypeOK, InByPassword, RequestProven, At, Denials
<1>3. ASSUME NEW c \in Conns, Malformed(c) PROVE AccountsInv'
  BY <1>3 DEF Malformed, Deny, TypeOK, InByPassword, RequestProven, At, Denials
<1>4. ASSUME NEW c \in Conns, NEW n \in Names, NEW p \in Passwords, Receive(c, n, p)
      PROVE  AccountsInv'
  <2>1. request' \in Requests /\ request'.step = "authenticate"
    BY <1>4 DEF Receive, Requests, Steps
  <2>2. TypeOK'
    BY <1>4, <2>1 DEF Receive, TypeOK
  <2>3. InByPassword' /\ RequestProven'
    BY <1>4, <2>1 DEF Receive, InByPassword, RequestProven, At
  <2> QED BY <2>2, <2>3
<1>5. CASE NotFound
  <2>1. request' \in Requests /\ request'.step = "register"
        /\ request'.name = request.name
    BY <1>5 DEF NotFound, At, GoOn, TypeOK, Requests, Steps
  <2> QED BY <1>5, <2>1 DEF NotFound, TypeOK, InByPassword, RequestProven, At
<1>6. CASE ScanFails
  <2>1. request' \in Requests /\ request'.step = "register" /\ request'.failed
    BY <1>6 DEF ScanFails, At, GoOn, TypeOK, Requests, Steps
  <2> QED BY <1>6, <2>1 DEF ScanFails, TypeOK, InByPassword, RequestProven, At
<1>7. CASE Verified
  <2>1. request' \in Requests /\ request'.step = "getUser"
        /\ request'.name = request.name /\ request'.password = request.password
    BY <1>7 DEF Verified, At, GoOn, TypeOK, Requests, Steps
  <2> QED BY <1>7, <2>1 DEF Verified, TypeOK, InByPassword, RequestProven, At
<1>8. CASE WrongPassword \/ KeyTaken \/ DatabaseFails
  <2>1. request \in Requests
    BY <1>8 DEF WrongPassword, KeyTaken, DatabaseFails, At, TypeOK
  <2>2. request' = NoOne /\ UNCHANGED <<account, user>> /\ denied' \in [Conns -> Denials]
    BY <1>8, <2>1 DEF WrongPassword, KeyTaken, DatabaseFails, End, Deny, TypeOK, Denials, Requests
  <2> QED BY <2>2 DEF TypeOK, InByPassword, RequestProven, At
<1>9. ASSUME NEW salt \in Salts, Register(salt) PROVE AccountsInv'
  <2>1. request \in Requests /\ request.name \notin DOMAIN account
    BY <1>9 DEF Register, At, TypeOK
  <2>2. request' \in Requests /\ request'.step = "getUser"
        /\ request'.name = request.name /\ request'.password = request.password
    BY <1>9, <2>1 DEF Register, GoOn, Requests, Steps
  <2>3. /\ DOMAIN account' = DOMAIN account \cup {request.name}
        /\ account'[request.name] = hasher_encode(request.password, salt)
        /\ \A n \in DOMAIN account : account'[n] = account[n]
    BY <1>9, RegisterAdds
  <2>4. hasher_encode(request.password, salt) \in Encoded
    BY <2>1 DEF Encoded, Requests
  <2>5. DOMAIN account' \subseteq Names
    BY <2>1, <2>3 DEF TypeOK, Requests
  <2>6. account' \in [DOMAIN account' -> Encoded]
    <3>1. \A n \in DOMAIN account' : account'[n] \in Encoded
      BY <2>3, <2>4 DEF TypeOK
    <3>2. account' = [n \in DOMAIN account' |-> account'[n]]
      BY <1>9, <2>3 DEF Register
    <3> QED BY <3>1, <3>2
  <2>7. TypeOK'
    BY <1>9, <2>2, <2>5, <2>6 DEF Register, TypeOK
  <2>8. InByPassword'
    BY <1>9, <2>3 DEF Register, InByPassword
  <2>9. RequestProven'
    BY <2>2, <2>3, VerifiesOwn DEF RequestProven, At
  <2> QED BY <2>7, <2>8, <2>9
<1>10. CASE GetUser
  <2>1. request \in Requests /\ At("getUser")
    BY <1>10 DEF GetUser, At, TypeOK
  <2>2. [name |-> request.name, password |-> request.password] \in Users
    BY <2>1 DEF Requests, Users
  <2>3. TypeOK'
    BY <1>10, <2>2 DEF GetUser, TypeOK
  <2>4. InByPassword'
    <3> SUFFICES ASSUME NEW c \in Conns, user'[c] # NoOne
                 PROVE  /\ user'[c].name \in DOMAIN account
                        /\ hasher_verify(user'[c].password, account[user'[c].name])
      BY <1>10 DEF GetUser, InByPassword
    <3>1. CASE c = request.conn
      <4>1. user'[c] = [name |-> request.name, password |-> request.password]
        BY <1>10, <3>1 DEF GetUser, TypeOK
      <4> QED BY <4>1, <2>1 DEF RequestProven
    <3>2. CASE c # request.conn
      BY <1>10, <3>2 DEF GetUser, InByPassword, TypeOK
    <3> QED BY <3>1, <3>2
  <2>5. RequestProven'
    BY <1>10 DEF GetUser, RequestProven, At
  <2> QED BY <2>3, <2>4, <2>5
<1> QED
  BY <1>1, <1>2, <1>3, <1>4, <1>5, <1>6, <1>7, <1>8, <1>9, <1>10 DEF Next, Authenticate

(* The invariant of every behaviour. *)
LEMMA AccountsInvariant == Spec => []AccountsInv
  BY AccountsInit, AccountsStep, PTL DEF Spec

(* The table, the payloads and the request keep their types. *)
THEOREM AccountsTypes == Spec => []TypeOK
  BY AccountsInvariant, PTL DEF AccountsInv

(* Nobody is let in without the password the account was registered with, whatever
   fails in authenticate, register and getUser, and whenever the server restarts.  *)
THEOREM AlwaysInByPassword == Spec => []InByPassword
  BY AccountsInvariant, PTL DEF AccountsInv

(* No request, failure or restart changes or removes an account: register only
   inserts.                                                                     *)
THEOREM AccountsStay == Spec => AccountStays
<1>1. AccountsInv /\ [Next]_vars =>
        [\A n \in DOMAIN account : n \in DOMAIN account' /\ account'[n] = account[n]]_vars
  <2> SUFFICES ASSUME AccountsInv, Next, NEW n \in DOMAIN account
               PROVE  n \in DOMAIN account' /\ account'[n] = account[n]
    BY DEF vars
  <2>1. CASE \E salt \in Salts : Register(salt)
    BY <2>1, RegisterAdds
  <2>2. CASE UNCHANGED account
    BY <2>2
  <2> QED
    BY <2>1, <2>2 DEF Next, Authenticate, Restart, Malformed, Receive, NotFound,
       ScanFails, Verified, WrongPassword, KeyTaken, GetUser, DatabaseFails
<1> QED BY <1>1, AccountsInvariant, PTL DEF Spec, AccountStays

(* A join that is turned down without a failure brought a wrong password for an
   account that exists.                                                         *)
THEOREM OnlyWrongEverRefused == Spec => OnlyWrongRefused
<1> DEFINE Justified == \A c \in Conns :
        denied'[c] = "refused" /\ denied[c] # "refused" =>
            /\ request.conn = c
            /\ request.name \in DOMAIN account
            /\ ~ hasher_verify(request.password, account[request.name])
<1>1. AccountsInv /\ [Next]_vars => [Justified]_vars
  <2> SUFFICES ASSUME AccountsInv, Next, NEW c \in Conns,
                      denied'[c] = "refused", denied[c] # "refused"
               PROVE  /\ request.conn = c
                      /\ request.name \in DOMAIN account
                      /\ ~ hasher_verify(request.password, account[request.name])
    OBVIOUS
  <2> USE DEF AccountsInv
  <2>1. CASE UNCHANGED denied
    BY <2>1
  <2>2. CASE Restart
    BY <2>2 DEF Restart
  <2>3. ASSUME NEW d \in Conns, Malformed(d) PROVE FALSE
    BY <2>3 DEF Malformed, Deny, TypeOK
  <2>4. ASSUME NEW failed \in BOOLEAN, End(failed), request \in Requests
        PROVE  request.conn = c /\ ~ request.failed /\ ~ failed
    BY <2>4 DEF End, Deny, TypeOK, Requests
  <2>5. CASE WrongPassword
    BY <2>4, <2>5 DEF WrongPassword, At, TypeOK
  <2>6. CASE KeyTaken
    BY <2>4, <2>6 DEF KeyTaken, At, TypeOK, RequestProven
  <2>7. CASE DatabaseFails
    BY <2>4, <2>7 DEF DatabaseFails, TypeOK
  <2> QED
    BY <2>1, <2>2, <2>3, <2>5, <2>6, <2>7 DEF Next, Authenticate, Receive, NotFound,
       ScanFails, Verified, Register, GetUser
<1> QED BY <1>1, AccountsInvariant, PTL DEF Spec, OnlyWrongRefused
=============================================================================
