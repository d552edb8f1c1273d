---------------------------- MODULE AuthProofs ----------------------------
(***************************************************************************)
(* For any number of calls and any lifetime of a token: an address has one *)
(* user, and a token that was logged out is refused as long as it lives.   *)
(*                                                                         *)
(* Moves is the frame: a step of a call leaves the other calls alone and   *)
(* removes nothing from the collections, so it is enough to look at the    *)
(* call itself and at what it adds.  Only the surroundings remove.         *)
(***************************************************************************)
EXTENDS Auth, TLAPS

\* The collections, apart from the calls.
UsersInv ==
    /\ \A u \in users : /\ u.id \in Calls /\ u.email \in Spellings \cap Addresses
                        /\ u.hashed_password \in {Hash(p) : p \in Passwords}
    /\ OneUserPerEmail

TokensInv ==
    \A t \in tokens : t.jti \in Calls /\ t.sub \in Calls /\ t.exp \in Nat /\ t.exp % Second = 0

RevokedInv ==
    \A d \in revoked_tokens : d.jti \in {t.jti : t \in tokens} /\ d.expires_at \in Nat

\* An address in lower case is one of the spellings, and stays as it is.
LEMMA LowerOnce ==
    \A a \in Addresses : a \in Spellings /\ Lower[a] = a
BY AuthAssumption DEF Addresses

\* A call that is not answered is not a confirmed logout.
LEMMA OthersLoggedOut ==
    ASSUME AuthInv, NEW c \in Calls, pc[c] # "answered",
           \A q \in Calls \ {c} : /\ kind'[q] = kind[q] /\ answer'[q] = answer[q]
                                  /\ presented'[q] = presented[q]
    PROVE  /\ LoggedOut \subseteq LoggedOut'
           /\ \A t \in LoggedOut' : \/ t \in LoggedOut
                                    \/ /\ kind'[c] = "logout" /\ answer'[c] = "OK"
                                       /\ t = presented'[c]
<1>1. answer[c] = "NONE"
    BY DEF AuthInv, CallInv
<1> QED
    BY <1>1 DEF LoggedOut

\* A step of the call c, on its way or to its answer.
LEMMA Moves ==
    ASSUME AuthInv, NEW c \in Calls, pc[c] # "answered",
           NEW label, pc' = [pc EXCEPT ![c] = label],
           NEW result \in Answers, answer' = [answer EXCEPT ![c] = result],
           \A q \in Calls \ {c} : /\ kind'[q] = kind[q] /\ payload'[q] = payload[q]
                                  /\ presented'[q] = presented[q] /\ found'[q] = found[q]
                                  /\ late'[q] = late[q],
           DOMAIN kind' = Calls, DOMAIN payload' = Calls, DOMAIN presented' = Calls,
           DOMAIN found' = Calls, DOMAIN late' = Calls,
           presented'[c] \in tokens' \cup {NoToken},
           now' = now, tokens \subseteq tokens', revoked_tokens \subseteq revoked_tokens',
           UsersInv', TokensInv', RevokedInv',
           kind'[c] = "logout" /\ result = "OK" =>
               \E d \in revoked_tokens' : /\ d.jti = presented'[c].jti
                                          /\ d.expires_at >= presented'[c].exp,
           CallInv(c)'
    PROVE  AuthInv'
<1>1. /\ DOMAIN pc' = Calls /\ answer' \in [Calls -> Answers] /\ answer'[c] = result
      /\ \A q \in Calls \ {c} : pc'[q] = pc[q] /\ answer'[q] = answer[q]
    BY DEF AuthInv, TypeOK
<1>2. /\ LoggedOut \subseteq LoggedOut'
      /\ \A t \in LoggedOut' : \/ t \in LoggedOut
                               \/ kind'[c] = "logout" /\ result = "OK" /\ t = presented'[c]
    BY <1>1, OthersLoggedOut
<1>3. ASSUME NEW q \in Calls PROVE CallInv(q)' /\ presented'[q] \in tokens' \cup {NoToken}
  <2>1. CASE q # c
    <3>1. CallInv(q) /\ presented[q] \in tokens \cup {NoToken}
      BY DEF AuthInv, TypeOK
    <3> QED
      BY <1>1, <1>2, <2>1, <3>1 DEF CallInv
  <2> QED
    BY <2>1
<1>4. RevocationOutlivesToken'
    BY <1>2 DEF AuthInv, RevocationOutlivesToken
<1>5. TypeOK'
    BY <1>1, <1>3 DEF AuthInv, TypeOK, UsersInv, TokensInv, RevokedInv
<1> QED
    BY <1>1, <1>3, <1>4, <1>5 DEF AuthInv, UsersInv, TokensInv

\* What the invariant says of the collections.
LEMMA CollectionsFine == AuthInv => UsersInv /\ TokensInv /\ RevokedInv
BY DEF AuthInv, TypeOK, UsersInv, TokensInv, RevokedInv

\* Going on is answering nothing yet.
LEMMA NoAnswerYet ==
    ASSUME AuthInv, NEW c \in Calls, pc[c] # "answered", UNCHANGED answer
    PROVE  "NONE" \in Answers /\ answer' = [answer EXCEPT ![c] = "NONE"]
BY DEF AuthInv, CallInv, TypeOK, Answers

\* A step that changes the call's place, and what it has found, only.
LEMMA ReadingStep ==
    ASSUME AuthInv, NEW c \in Calls, pc[c] # "answered",
           NEW label, pc' = [pc EXCEPT ![c] = label],
           NEW result \in Answers, answer' = [answer EXCEPT ![c] = result],
           UNCHANGED <<now, collections, tokens, request, late>>,
           DOMAIN found' = Calls, \A q \in Calls \ {c} : found'[q] = found[q],
           kind[c] = "logout" => result # "OK",
           CallInv(c)'
    PROVE  AuthInv'
<1>1. /\ UNCHANGED <<now, users, revoked_tokens, tokens, kind, payload, presented, late>>
      /\ presented[c] \in tokens \cup {NoToken}
    BY DEF AuthInv, TypeOK, collections, request
<1>2. UsersInv' /\ TokensInv' /\ RevokedInv'
    BY <1>1, CollectionsFine DEF UsersInv, TokensInv, RevokedInv, OneUserPerEmail
<1> QED
    BY <1>1, <1>2, Moves DEF AuthInv

-----------------------------------------------------------------------------
(* Tokens are in whole seconds. *)

LEMMA WholeSeconds ==
    ASSUME NEW t \in Nat
    PROVE  Expiry(t) \in Nat /\ Expiry(t) % Second = 0
<1> DEFINE k == (t + Lifetime) \div Second
<1>1. Second \in Nat \ {0} /\ Lifetime \in Nat
    BY AuthAssumption
<1>2. k \in Nat
    BY <1>1
<1> HIDE DEF k
<1>3. k * Second \in Nat /\ (k * Second) % Second = 0
    BY <1>1, <1>2
<1> QED
    BY <1>3 DEF Expiry, k

-----------------------------------------------------------------------------
(* The steps of a call. *)

\* A call arrives with an address and a password.
LEMMA CredentialsStep ==
    ASSUME AuthInv, NEW c \in Calls, NEW endpoint \in {"register", "login"},
           NEW label \in {"insert_user", "find_user"}, SubmitCredentials(c, endpoint, label)
    PROVE  AuthInv'
<1>1. PICK s \in Spellings, p \in Passwords :
        payload' = [payload EXCEPT ![c] = [email |-> Address(s), password |-> p]]
    BY DEF SubmitCredentials
<1>2. /\ pc[c] = "idle" /\ kind' = [kind EXCEPT ![c] = endpoint]
      /\ pc' = [pc EXCEPT ![c] = label]
      /\ UNCHANGED <<now, users, revoked_tokens, tokens, presented, found, late, answer>>
    BY DEF SubmitCredentials, Goto, collections
<1>3. "NONE" \in Answers /\ answer' = [answer EXCEPT ![c] = "NONE"]
    BY <1>2, NoAnswerYet
<1>4. /\ kind'[c] = endpoint /\ pc'[c] = label /\ answer'[c] = "NONE"
      /\ payload'[c] = [email |-> Address(s), password |-> p]
      /\ \A q \in Calls \ {c} : /\ kind'[q] = kind[q] /\ payload'[q] = payload[q]
                                /\ presented'[q] = presented[q] /\ answer'[q] = answer[q]
    BY <1>1, <1>2, <1>3 DEF AuthInv, TypeOK
<1>5. LoggedOut \subseteq LoggedOut'
    BY <1>2, <1>4, OthersLoggedOut
<1>6. CallInv(c)'
  <2>1. Address(s) \in Addresses
    BY DEF Address, Addresses
  <2>2. late[c] => presented[c] \in LoggedOut
    BY DEF AuthInv, CallInv
  <2> QED
    BY <1>2, <1>4, <1>5, <2>1, <2>2 DEF CallInv, TokenSteps
<1>7. UsersInv' /\ TokensInv' /\ RevokedInv'
    BY <1>2, CollectionsFine DEF UsersInv, TokensInv, RevokedInv, OneUserPerEmail
<1>8. /\ presented[c] \in tokens \cup {NoToken}
      /\ DOMAIN kind' = Calls /\ DOMAIN payload' = Calls
    BY <1>1, <1>2 DEF AuthInv, TypeOK
<1> QED
    BY <1>2, <1>3, <1>4, <1>6, <1>7, <1>8, Moves DEF AuthInv

\* A call arrives with a token; it is late if that was logged out by then.
LEMMA TokenStep ==
    ASSUME AuthInv, NEW c \in Calls, NEW endpoint \in {"logout", "me"}, SubmitToken(c, endpoint)
    PROVE  AuthInv'
<1>1. PICK t \in tokens : /\ presented' = [presented EXCEPT ![c] = t]
                          /\ late' = [late EXCEPT ![c] = t \in LoggedOut]
    BY DEF SubmitToken
<1>2. /\ pc[c] = "idle" /\ kind' = [kind EXCEPT ![c] = endpoint]
      /\ pc' = [pc EXCEPT ![c] = "decode"]
      /\ UNCHANGED <<now, users, revoked_tokens, tokens, payload, found, answer>>
    BY DEF SubmitToken, Goto, collections
<1>3. "NONE" \in Answers /\ answer' = [answer EXCEPT ![c] = "NONE"]
    BY <1>2, NoAnswerYet
<1>4. /\ kind'[c] = endpoint /\ pc'[c] = "decode" /\ answer'[c] = "NONE"
      /\ presented'[c] = t /\ late'[c] = (t \in LoggedOut)
      /\ \A q \in Calls \ {c} : /\ kind'[q] = kind[q] /\ presented'[q] = presented[q]
                                /\ late'[q] = late[q] /\ answer'[q] = answer[q]
    BY <1>1, <1>2, <1>3 DEF AuthInv, TypeOK
<1>5. LoggedOut \subseteq LoggedOut'
    BY <1>2, <1>4, OthersLoggedOut
<1>6. CallInv(c)'
    BY <1>2, <1>4, <1>5 DEF CallInv, CredentialSteps
<1>7. UsersInv' /\ TokensInv' /\ RevokedInv'
    BY <1>2, CollectionsFine DEF UsersInv, TokensInv, RevokedInv, OneUserPerEmail
<1>8. DOMAIN kind' = Calls /\ DOMAIN presented' = Calls /\ DOMAIN late' = Calls
    BY <1>1, <1>2 DEF AuthInv
<1> QED
    BY <1>2, <1>3, <1>4, <1>6, <1>7, <1>8, Moves DEF AuthInv

\* What the call knows stays true while it goes on.
LEMMA StillLate ==
    ASSUME AuthInv, NEW c \in Calls, pc[c] # "answered",
           NEW result, answer' = [answer EXCEPT ![c] = result], UNCHANGED request
    PROVE  /\ answer'[c] = result
           /\ late[c] => presented[c] \in LoggedOut'
<1>1. /\ answer'[c] = result
      /\ \A q \in Calls \ {c} : /\ kind'[q] = kind[q] /\ answer'[q] = answer[q]
                                /\ presented'[q] = presented[q]
    BY DEF AuthInv, TypeOK, request
<1>2. LoggedOut \subseteq LoggedOut'
    BY <1>1, OthersLoggedOut
<1> QED
    BY <1>1, <1>2 DEF AuthInv, CallInv

\* An answer that confirms nothing.
LEMMA RefusedStep ==
    ASSUME AuthInv, NEW c \in Calls, pc[c] # "answered", NEW result \in Answers,
           Answer(c, result), kind[c] = "logout" => result # "OK",
           UNCHANGED <<now, collections, tokens, request, found, late>>
    PROVE  AuthInv'
<1>1. /\ pc' = [pc EXCEPT ![c] = "answered"] /\ answer' = [answer EXCEPT ![c] = result]
    BY DEF Answer
<1>2. pc'[c] = "answered" /\ late'[c] = late[c] /\ presented'[c] = presented[c]
    BY <1>1 DEF AuthInv, request
<1>3. CallInv(c)'
    BY <1>1, <1>2, StillLate DEF CallInv, CredentialSteps, TokenSteps
<1> QED
    BY <1>1, <1>3, ReadingStep DEF AuthInv

\* A step to the next operation with a token in hand.
LEMMA ForwardStep ==
    ASSUME AuthInv, NEW c \in Calls, pc[c] \in TokenSteps,
           NEW label \in TokenSteps \cup {"dead"}, Goto(c, label),
           label = "read" => kind[c] # "logout",
           UNCHANGED <<now, collections, tokens, request, found, late>>
    PROVE  AuthInv'
<1>1. pc[c] # "answered" /\ label \notin CredentialSteps \cup {"answered"}
    BY DEF TokenSteps, CredentialSteps
<1>2. pc' = [pc EXCEPT ![c] = label] /\ UNCHANGED answer
    BY DEF Goto
<1>3. "NONE" \in Answers /\ answer' = [answer EXCEPT ![c] = "NONE"]
    BY <1>1, <1>2, NoAnswerYet
<1>4. /\ pc'[c] = label /\ UNCHANGED <<kind, payload, presented, found, late, tokens>>
      /\ presented[c] \in tokens
    BY <1>2 DEF AuthInv, CallInv, request
<1>5. answer'[c] = "NONE" /\ (late[c] => presented[c] \in LoggedOut')
    BY <1>1, <1>3, StillLate
<1>6. CallInv(c)'
    BY <1>1, <1>4, <1>5 DEF CallInv, CredentialSteps
<1> QED
    BY <1>1, <1>2, <1>3, <1>6, ReadingStep DEF AuthInv

\* The process of a call dies.
LEMMA DieStep ==
    ASSUME AuthInv, NEW c \in Calls, Die(c)
    PROVE  AuthInv'
<1>1. /\ pc[c] # "answered" /\ pc' = [pc EXCEPT ![c] = "dead"]
      /\ UNCHANGED <<now, collections, tokens, request, found, late, answer>>
    BY DEF Die, Goto
<1>2. "NONE" \in Answers /\ answer' = [answer EXCEPT ![c] = "NONE"]
    BY <1>1, NoAnswerYet
<1>3. pc'[c] = "dead" /\ UNCHANGED <<presented, late>>
    BY <1>1 DEF AuthInv, request
<1>4. answer'[c] = "NONE" /\ (late[c] => presented[c] \in LoggedOut')
    BY <1>1, <1>2, StillLate
<1>5. CallInv(c)'
    BY <1>3, <1>4 DEF CallInv, CredentialSteps, TokenSteps
<1> QED
    BY <1>1, <1>2, <1>5, ReadingStep DEF AuthInv

\* A token is issued, to a call that was not for a logout.
LEMMA IssueStep ==
    ASSUME AuthInv, NEW c \in Calls, pc[c] \in CredentialSteps, NEW user \in Calls,
           Issue(c, user), UNCHANGED <<now, collections, request, found, late>>
    PROVE  AuthInv'
<1> DEFINE token == [jti |-> c, sub |-> user, exp |-> Expiry(now)]
<1>1. /\ tokens' = tokens \cup {token} /\ pc' = [pc EXCEPT ![c] = "answered"]
      /\ answer' = [answer EXCEPT ![c] = "OK"] /\ "OK" \in Answers
    BY DEF Issue, Answer, Answers
<1>2. /\ pc[c] # "answered" /\ kind[c] # "logout"
      /\ UNCHANGED <<users, revoked_tokens, kind, payload, presented>>
    BY DEF AuthInv, CallInv, CredentialSteps, collections, request
<1>3. now \in Nat /\ Expiry(now) \in Nat /\ Expiry(now) % Second = 0
    BY WholeSeconds DEF AuthInv, TypeOK
<1>4. TokensInv'
    BY <1>1, <1>3, CollectionsFine DEF TokensInv
<1>5. UsersInv' /\ RevokedInv'
    BY <1>1, <1>2, CollectionsFine DEF UsersInv, RevokedInv, OneUserPerEmail
<1>6. pc'[c] = "answered" /\ answer'[c] = "OK" /\ (late[c] => presented[c] \in LoggedOut')
    BY <1>1, <1>2, StillLate DEF AuthInv
<1>7. CallInv(c)'
    BY <1>2, <1>6 DEF CallInv, CredentialSteps, TokenSteps
<1>8. presented[c] \in tokens' \cup {NoToken} /\ tokens \subseteq tokens'
    BY <1>1 DEF AuthInv, TypeOK
<1> QED
    BY <1>1, <1>2, <1>4, <1>5, <1>7, <1>8, Moves DEF AuthInv

LEMMA IssueToNewStep ==
    ASSUME AuthInv, NEW c \in Calls, IssueToNew(c)
    PROVE  AuthInv'
BY IssueStep DEF IssueToNew, CredentialSteps

\* The unique index: a second user of the address is refused.
LEMMA InsertUserStep ==
    ASSUME AuthInv, NEW c \in Calls, InsertUser(c)
    PROVE  AuthInv'
<1>1. /\ pc[c] = "insert_user"
      /\ UNCHANGED <<now, revoked_tokens, tokens, kind, payload, presented, found, late>>
    BY DEF InsertUser, request
<1>2. CASE Answer(c, "EMAIL_ALREADY_REGISTERED") /\ UNCHANGED users
    BY <1>1, <1>2, RefusedStep DEF Answers, collections, request
<1>3. CASE /\ \A u \in users : u.email # payload[c].email
           /\ users' = users \cup {[id |-> c, email |-> payload[c].email,
                                    hashed_password |-> Hash(payload[c].password)]}
           /\ Goto(c, "issue_to_new")
  <2> DEFINE new == [id |-> c, email |-> payload[c].email,
                     hashed_password |-> Hash(payload[c].password)]
  <2>1. payload[c].email \in Addresses /\ payload[c].password \in Passwords /\ kind[c] # "logout"
    BY <1>1 DEF AuthInv, CallInv, CredentialSteps
  <2>2. /\ new.id \in Calls /\ new.email = payload[c].email
        /\ new.hashed_password \in {Hash(p) : p \in Passwords}
    BY <2>1
  <2>3. users' = users \cup {new} /\ \A u \in users : u.email # new.email
    BY <1>3
  <2>4. UsersInv
    BY CollectionsFine
  <2> HIDE DEF new
  <2>5. /\ new.email \in Spellings \cap Addresses /\ Lower[new.email] = new.email
        /\ \A u \in users : Lower[u.email] = u.email
    BY <2>1, <2>2, <2>4, LowerOnce DEF UsersInv
  <2>6. OneUserPerEmail'
    BY <2>3, <2>4, <2>5 DEF UsersInv, OneUserPerEmail
  <2>7. UsersInv' /\ TokensInv' /\ RevokedInv'
    BY <1>1, <2>2, <2>3, <2>4, <2>5, <2>6, CollectionsFine DEF UsersInv, TokensInv, RevokedInv
  <2>8. pc' = [pc EXCEPT ![c] = "issue_to_new"] /\ UNCHANGED answer /\ pc[c] # "answered"
    BY <1>1, <1>3 DEF Goto
  <2>9. "NONE" \in Answers /\ answer' = [answer EXCEPT ![c] = "NONE"]
    BY <2>8, NoAnswerYet
  <2>10. answer'[c] = "NONE" /\ (late[c] => presented[c] \in LoggedOut')
    BY <1>1, <2>8, <2>9, StillLate DEF request
  <2>11. CallInv(c)'
    BY <1>1, <2>1, <2>8, <2>10 DEF CallInv, TokenSteps, AuthInv
  <2>12. presented[c] \in tokens \cup {NoToken}
    BY DEF AuthInv, TypeOK
  <2> QED
    BY <1>1, <2>7, <2>8, <2>9, <2>11, <2>12, Moves DEF AuthInv
<1> QED
    BY <1>2, <1>3 DEF InsertUser

LEMMA FindUserStep ==
    ASSUME AuthInv, NEW c \in Calls, FindUser(c)
    PROVE  AuthInv'
<1>1. pc[c] = "find_user" /\ UNCHANGED <<now, collections, tokens, request, late>>
    BY DEF FindUser
<1>2. CASE Answer(c, "INVALID_CREDENTIALS") /\ UNCHANGED found
    BY <1>1, <1>2, RefusedStep DEF Answers
<1>3. ASSUME NEW u \in users, found' = [found EXCEPT ![c] = u], Goto(c, "verify")
      PROVE  AuthInv'
  <2>1. /\ payload[c].email \in Addresses /\ payload[c].password \in Passwords
        /\ kind[c] # "logout" /\ u.id \in Calls
    BY <1>1 DEF AuthInv, CallInv, CredentialSteps, TypeOK
  <2>2. pc' = [pc EXCEPT ![c] = "verify"] /\ UNCHANGED answer /\ pc[c] # "answered"
    BY <1>1, <1>3 DEF Goto
  <2>3. "NONE" \in Answers /\ answer' = [answer EXCEPT ![c] = "NONE"]
    BY <2>2, NoAnswerYet
  <2>4. answer'[c] = "NONE" /\ (late[c] => presented[c] \in LoggedOut')
    BY <1>1, <2>2, <2>3, StillLate
  <2>5. /\ DOMAIN found' = Calls /\ found'[c] = u /\ pc'[c] = "verify"
        /\ \A q \in Calls \ {c} : found'[q] = found[q]
    BY <1>3, <2>2 DEF AuthInv
  <2>6. CallInv(c)'
    BY <1>1, <2>1, <2>4, <2>5 DEF CallInv, TokenSteps, request
  <2> QED
    BY <1>1, <2>1, <2>2, <2>3, <2>5, <2>6, ReadingStep
<1> QED
    BY <1>2, <1>3 DEF FindUser

LEMMA VerifyStep ==
    ASSUME AuthInv, NEW c \in Calls, Verify(c)
    PROVE  AuthInv'
<1>1. /\ pc[c] = "verify" /\ found[c].id \in Calls
      /\ UNCHANGED <<now, collections, request, found, late>>
    BY DEF Verify, AuthInv, CallInv
<1>2. CASE Issue(c, found[c].id)
    BY <1>1, <1>2, IssueStep DEF CredentialSteps
<1>3. CASE Answer(c, "INVALID_CREDENTIALS") /\ UNCHANGED tokens
    BY <1>1, <1>3, RefusedStep DEF Answers
<1> QED
    BY <1>2, <1>3 DEF Verify

\* The three checks of get_current_user.
LEMMA CheckingStep ==
    ASSUME AuthInv, NEW c \in Calls, Decode(c) \/ CheckRevoked(c) \/ FindOwner(c)
    PROVE  AuthInv'
<1>1. /\ pc[c] \in TokenSteps /\ pc[c] # "answered"
      /\ UNCHANGED <<now, collections, tokens, request, found, late>>
    BY DEF Decode, CheckRevoked, FindOwner, TokenSteps
<1>2. \/ \E result \in Answers \ {"OK"} : Answer(c, result)
      \/ \E label \in TokenSteps : Goto(c, label) /\ (label = "read" => kind[c] # "logout")
  <2>1. CASE Decode(c)
    BY <2>1 DEF Decode, Answers, TokenSteps
  <2>2. CASE CheckRevoked(c)
    BY <2>2 DEF CheckRevoked, Answers, TokenSteps
  <2>3. CASE FindOwner(c)
    BY <2>3 DEF FindOwner, Answers, TokenSteps
  <2> QED
    BY <2>1, <2>2, <2>3
<1> QED
    BY <1>1, <1>2, RefusedStep, ForwardStep

LEMMA ReadUserStep ==
    ASSUME AuthInv, NEW c \in Calls, ReadUser(c)
    PROVE  AuthInv'
<1>1. /\ pc[c] = "read" /\ kind[c] # "logout"
      /\ UNCHANGED <<now, collections, tokens, request, found, late>>
    BY DEF ReadUser, AuthInv, CallInv
<1>2. Answer(c, "OK") \/ Answer(c, "INVALID_CREDENTIALS")
    BY DEF ReadUser
<1> QED
    BY <1>1, <1>2, RefusedStep DEF Answers

\* A logout is confirmed with the revocation in the collection, as long-lived as
\* the token.
LEMMA RevokeStep ==
    ASSUME AuthInv, NEW c \in Calls, Revoke(c)
    PROVE  AuthInv'
<1> DEFINE new == [jti |-> presented[c].jti, expires_at |-> presented[c].exp]
<1>1. /\ pc[c] = "revoke" /\ revoked_tokens' = revoked_tokens \cup {new}
      /\ pc' = [pc EXCEPT ![c] = "answered"] /\ answer' = [answer EXCEPT ![c] = "OK"]
      /\ UNCHANGED <<now, users, tokens, kind, payload, presented, found, late>>
      /\ "OK" \in Answers
    BY DEF Revoke, Answer, request, Answers
<1>2. presented[c] \in tokens
    BY <1>1 DEF AuthInv, CallInv, TokenSteps
<1>3. presented[c].exp \in Nat
    BY <1>2 DEF AuthInv
<1>4. UsersInv' /\ TokensInv'
    BY <1>1, CollectionsFine DEF UsersInv, TokensInv, OneUserPerEmail
<1>5. RevokedInv'
    BY <1>1, <1>2, <1>3, CollectionsFine DEF RevokedInv
<1>6. \E d \in revoked_tokens' : d.jti = presented'[c].jti /\ d.expires_at >= presented'[c].exp
  <2>1. /\ new \in revoked_tokens' /\ new.jti = presented'[c].jti
        /\ new.expires_at >= presented'[c].exp
    BY <1>1, <1>3
  <2> HIDE DEF new
  <2> QED
    BY <2>1
<1>7. pc'[c] = "answered" /\ answer'[c] = "OK" /\ (late[c] => presented[c] \in LoggedOut')
    BY <1>1, StillLate DEF AuthInv, request
<1>8. CallInv(c)'
    BY <1>1, <1>7 DEF CallInv, CredentialSteps, TokenSteps
<1> QED
    BY <1>1, <1>2, <1>4, <1>5, <1>6, <1>8, Moves DEF AuthInv

-----------------------------------------------------------------------------
(* The surroundings: the only steps that remove something. *)

\* What is pruned belongs to a token that has expired.
LEMMA PruneStep == AuthInv /\ Prune => AuthInv'
<1> SUFFICES ASSUME AuthInv, Prune PROVE AuthInv'
    OBVIOUS
<1>1. /\ revoked_tokens' = {d \in revoked_tokens : ~(d.expires_at <= now)}
      /\ UNCHANGED <<now, users, tokens, kind, payload, presented, found, late, pc, answer>>
    BY DEF Prune, Expired, request
<1>2. LoggedOut' = LoggedOut
    BY <1>1 DEF LoggedOut
<1>3. RevocationOutlivesToken'
  <2> SUFFICES ASSUME NEW t \in LoggedOut, t.exp > now
               PROVE  \E d \in revoked_tokens' : d.jti = t.jti /\ d.expires_at >= t.exp
    BY <1>1, <1>2 DEF RevocationOutlivesToken
  <2>1. PICK d \in revoked_tokens : d.jti = t.jti /\ d.expires_at >= t.exp
    BY DEF AuthInv, RevocationOutlivesToken
  <2>2. t \in tokens \cup {NoToken}
    BY DEF LoggedOut, AuthInv, TypeOK
  <2>3. t.exp \in Nat /\ d.expires_at \in Nat /\ now \in Nat
    BY <2>2 DEF AuthInv, TypeOK, NoToken
  <2>4. ~(d.expires_at <= now)
    BY <2>1, <2>3
  <2>5. d \in revoked_tokens'
    BY <1>1, <2>4
  <2> QED
    BY <2>1, <2>5
<1>4. TypeOK'
    BY <1>1 DEF AuthInv, TypeOK
<1>5. \A c \in Calls : CallInv(c)'
    BY <1>1, <1>2 DEF AuthInv, CallInv
<1> QED
    BY <1>1, <1>3, <1>4, <1>5 DEF AuthInv, OneUserPerEmail

\* Time only runs out.
LEMMA TickStep == AuthInv /\ Tick => AuthInv'
<1> SUFFICES ASSUME AuthInv, Tick PROVE AuthInv'
    OBVIOUS
<1>1. /\ now' = now + 1 /\ now \in Nat
      /\ UNCHANGED <<users, revoked_tokens, tokens, kind, payload, presented, found, late, pc, answer>>
    BY DEF Tick, request, collections, AuthInv, TypeOK
<1>2. LoggedOut' = LoggedOut
    BY <1>1 DEF LoggedOut
<1>3. \A t \in LoggedOut : t.exp \in Nat
    BY DEF LoggedOut, AuthInv, TypeOK, NoToken
<1>4. RevocationOutlivesToken'
    BY <1>1, <1>2, <1>3 DEF AuthInv, RevocationOutlivesToken
<1>5. TypeOK'
    BY <1>1 DEF AuthInv, TypeOK
<1>6. \A c \in Calls : CallInv(c)'
    BY <1>1, <1>2 DEF AuthInv, CallInv
<1> QED
    BY <1>1, <1>4, <1>5, <1>6 DEF AuthInv, OneUserPerEmail

LEMMA DeleteUserStep ==
    ASSUME AuthInv, NEW u \in users, DeleteUser(u)
    PROVE  AuthInv'
<1>1. /\ users' = users \ {u}
      /\ UNCHANGED <<now, revoked_tokens, tokens, kind, payload, presented, found, late, pc, answer>>
    BY DEF DeleteUser, request
<1>2. LoggedOut' = LoggedOut
    BY <1>1 DEF LoggedOut
<1>3. TypeOK'
    BY <1>1 DEF AuthInv, TypeOK
<1>4. \A c \in Calls : CallInv(c)'
    BY <1>1, <1>2 DEF AuthInv, CallInv
<1>5. OneUserPerEmail' /\ RevocationOutlivesToken'
    BY <1>1, <1>2 DEF AuthInv, OneUserPerEmail, RevocationOutlivesToken
<1> QED
    BY <1>1, <1>3, <1>4, <1>5 DEF AuthInv

-----------------------------------------------------------------------------

LEMMA InitAuth == Init => AuthInv
<1> SUFFICES ASSUME Init PROVE AuthInv
    OBVIOUS
<1>1. LoggedOut = {}
    BY DEF Init, LoggedOut
<1>2. \A c \in Calls : CallInv(c)
    BY DEF Init, CallInv, CredentialSteps, TokenSteps
<1>3. TypeOK
    BY DEF Init, TypeOK, Answers
<1> QED
    BY <1>1, <1>2, <1>3 DEF Init, AuthInv, OneUserPerEmail, RevocationOutlivesToken

LEMMA NextAuth == AuthInv /\ [Next]_vars => AuthInv'
<1> SUFFICES ASSUME AuthInv, [Next]_vars PROVE AuthInv'
    OBVIOUS
<1>1. ASSUME NEW c \in Calls, Submit(c) PROVE AuthInv'
    BY <1>1, CredentialsStep, TokenStep DEF Submit
<1>2. ASSUME NEW c \in Calls, Handler(c) PROVE AuthInv'
    BY <1>2, InsertUserStep, IssueToNewStep, FindUserStep, VerifyStep, CheckingStep,
       ReadUserStep, RevokeStep
    DEF Handler
<1>3. CASE UNCHANGED vars
  <2>1. UNCHANGED <<now, users, revoked_tokens, tokens, kind, payload, presented,
                    found, late, pc, answer>>
    BY <1>3 DEF vars, collections, request
  <2>2. LoggedOut' = LoggedOut
    BY <2>1 DEF LoggedOut
  <2>3. TypeOK'
    BY <2>1 DEF AuthInv, TypeOK
  <2>4. \A c \in Calls : CallInv(c)'
    BY <2>1, <2>2 DEF AuthInv, CallInv
  <2> QED
    BY <2>1, <2>2, <2>3, <2>4 DEF AuthInv, OneUserPerEmail, RevocationOutlivesToken
<1> QED
    BY <1>1, <1>2, <1>3, DieStep, PruneStep, TickStep, DeleteUserStep DEF Next

\* The inductive invariant of Auth, for any number of calls and any lifetime.
THEOREM Invariance == Spec => []AuthInv
<1> QED
    BY InitAuth, NextAuth, PTL DEF Spec

\* Every state is well typed, and the times in tokens are whole seconds.
THEOREM TypeCorrect == Spec => []TypeOK
<1>1. AuthInv => TypeOK
    BY DEF AuthInv
<1> QED
    BY <1>1, Invariance, PTL

\* Concurrent registrations of an address, however it is spelled, make one user.
THEOREM AddressIsUnique == Spec => []OneUserPerEmail
<1>1. AuthInv => OneUserPerEmail
    BY DEF AuthInv
<1> QED
    BY <1>1, Invariance, PTL

\* The TTL index prunes no revocation of a token that could still be used.
THEOREM RevocationLasts == Spec => []RevocationOutlivesToken
<1>1. AuthInv => RevocationOutlivesToken
    BY DEF AuthInv
<1> QED
    BY <1>1, Invariance, PTL

\* A token presented after its logout was confirmed gets past the check of the
\* blacklist only if it has expired in between.
THEOREM RefusedOnceRevoked == Spec => RevokedIsRefused
<1> DEFINE Refused == \A c \in Calls :
             late[c] /\ pc[c] = "check_revoked" /\ pc'[c] = "find_owner" =>
               presented[c].exp <= now
<1>1. AuthInv /\ [Next]_vars => [Refused]_vars
  <2> SUFFICES ASSUME AuthInv, Next, NEW c \in Calls,
                      late[c], pc[c] = "check_revoked", pc'[c] = "find_owner"
               PROVE  presented[c].exp <= now
    OBVIOUS
  <2>1. CheckRevoked(c)
    <3>1. ASSUME NEW q \in Calls, q # c,
                 \E label : pc' = [pc EXCEPT ![q] = label]
          PROVE  FALSE
      BY <3>1 DEF AuthInv
    <3>2. ASSUME NEW q \in Calls, Submit(q) \/ Handler(q) \/ Die(q)
          PROVE  \E label : pc' = [pc EXCEPT ![q] = label]
      BY <3>2 DEF Submit, SubmitCredentials, SubmitToken, Handler, InsertUser, IssueToNew,
         FindUser, Verify, Issue, Decode, CheckRevoked, FindOwner, ReadUser, Revoke, Die,
         Goto, Answer
    <3>3. UNCHANGED pc => FALSE
      OBVIOUS
    <3>4. Submit(c) \/ Handler(c) \/ Die(c)
      BY <3>1, <3>2, <3>3 DEF Next, DeleteUser, Prune, Tick
    <3>5. ~Submit(c) /\ ~Die(c)
      BY DEF Submit, SubmitCredentials, SubmitToken, Die, Goto, AuthInv
    <3> QED
      BY <3>4, <3>5 DEF Handler, InsertUser, IssueToNew, FindUser, Verify, Decode, FindOwner,
         ReadUser, Revoke
  <2>2. ~IsRevoked(presented[c])
    BY <2>1 DEF CheckRevoked, Answer, AuthInv
  <2>3. presented[c] \in LoggedOut
    BY DEF AuthInv, CallInv
  <2>4. ~(presented[c].exp > now)
    BY <2>2, <2>3 DEF AuthInv, RevocationOutlivesToken, IsRevoked
  <2>5. presented[c].exp \in Nat /\ now \in Nat
    BY DEF AuthInv, TypeOK, NoToken
  <2> QED
    BY <2>4, <2>5
<1> QED
    BY <1>1, Invariance, PTL DEF Spec, RevokedIsRefused

=============================================================================
