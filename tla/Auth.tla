-------------------------------- MODULE Auth --------------------------------
(***************************************************************************)
(* Users, access tokens and their revocation: app/routes/auth.py and       *)
(* app/core/security.py.                                                   *)
(*                                                                         *)
(* A token is stateless: whoever holds it is let in until it expires,      *)
(* unless its jti is in revoked_tokens, where a logout puts it and a TTL   *)
(* index removes it again once the token would have expired anyway.  Each  *)
(* call awaits the database, or a worker thread for bcrypt, at every step, *)
(* and time passes and other calls run in between.                         *)
(*                                                                         *)
(* The API's clock and the database's are one clock, in fractions of a     *)
(* second.  Tokens are presented as they were issued: the signature is not *)
(* modelled.                                                               *)
(***************************************************************************)
EXTENDS Naturals, FiniteSets

CONSTANTS
    Calls,      \* HTTP requests
    Spellings,  \* e-mail addresses as they are typed
    Lower,      \* [Spellings -> Spellings]: value.strip().lower()
    Passwords,
    Second,     \* the fractions of a second that time is measured in
    Lifetime,   \* access_token_expire_minutes, in those fractions
    Horizon     \* bound: the clock runs on only while a revocation is unexpired

ASSUME AuthAssumption ==
    /\ Lower \in [Spellings -> Spellings]
    /\ \A s \in Spellings : Lower[Lower[s]] = Lower[s]
    /\ Second \in Nat \ {0} /\ Lifetime \in Nat \ {0} /\ Horizon \in Nat

VARIABLES
    now,
    users, revoked_tokens,  \* the collections
    tokens,                 \* every access token that was issued
    kind,                   \* call -> the endpoint it is for
    payload,                \* call -> the address and password it gives
    presented,              \* call -> the token it carries
    found,                  \* call -> the user document it has read
    late,                   \* call -> it began after its token's logout was confirmed
    pc, answer

collections == <<users, revoked_tokens>>
request     == <<kind, payload, presented>>
vars        == <<now, collections, tokens, request, found, late, pc, answer>>

\* bcrypt: a hash matches the password it was made of, and no other.
Hash(password) == [hash_of |-> password]

NoToken   == [jti |-> "None", sub |-> "None", exp |-> 0]
NoPayload == [email |-> "None", password |-> "None"]
NoUser    == [id |-> "None", email |-> "None", hashed_password |-> "None"]

Init ==
    /\ now = 0
    /\ users = {} /\ revoked_tokens = {} /\ tokens = {}
    /\ kind = [c \in Calls |-> "None"]
    /\ payload = [c \in Calls |-> NoPayload]
    /\ presented = [c \in Calls |-> NoToken]
    /\ found = [c \in Calls |-> NoUser]
    /\ late = [c \in Calls |-> FALSE]
    /\ pc = [c \in Calls |-> "idle"]
    /\ answer = [c \in Calls |-> "NONE"]

-----------------------------------------------------------------------------
(* How a call goes on. *)

Goto(c, label) == pc' = [pc EXCEPT ![c] = label] /\ UNCHANGED answer

Answer(c, result) ==
    /\ pc' = [pc EXCEPT ![c] = "answered"]
    /\ answer' = [answer EXCEPT ![c] = result]

\* The tokens whose logout has been confirmed.
LoggedOut == {presented[d] : d \in {c \in Calls : kind[c] = "logout" /\ answer[c] = "OK"}}

\* Fault: the address is stored and looked up as it was typed.
AddressAsTyped(s) == s

\* normalise_email, of both request models.
Address(s) == Lower[s]

\* A register or login call arrives.
SubmitCredentials(c, endpoint, label) ==
    /\ pc[c] = "idle"
    /\ \E s \in Spellings, p \in Passwords :
         payload' = [payload EXCEPT ![c] = [email |-> Address(s), password |-> p]]
    /\ kind' = [kind EXCEPT ![c] = endpoint]
    /\ Goto(c, label)
    /\ UNCHANGED <<now, collections, tokens, presented, found, late>>

\* A call that carries a token arrives.
SubmitToken(c, endpoint) ==
    /\ pc[c] = "idle"
    /\ \E t \in tokens :
         /\ presented' = [presented EXCEPT ![c] = t]
         /\ late' = [late EXCEPT ![c] = t \in LoggedOut]
    /\ kind' = [kind EXCEPT ![c] = endpoint]
    /\ Goto(c, "decode")
    /\ UNCHANGED <<now, collections, tokens, payload, found>>

Submit(c) ==
    \/ SubmitCredentials(c, "register", "insert_user")
    \/ SubmitCredentials(c, "login", "find_user")
    \/ SubmitToken(c, "logout") \/ SubmitToken(c, "me")

\* Fault: exp keeps the fraction of the second.
ExpiryUnrounded(t) == t + Lifetime

\* int(expires_at.timestamp()): exp is in whole seconds, rounded down.
Expiry(t) == ((t + Lifetime) \div Second) * Second

\* create_access_token; the jti is the call's own, nobody else's.
Issue(c, user) ==
    /\ tokens' = tokens \cup {[jti |-> c, sub |-> user, exp |-> Expiry(now)]}
    /\ Answer(c, "OK")

-----------------------------------------------------------------------------
(* register and login. *)

\* hash_password and insert_one: the unique index decides who was first.
InsertUser(c) ==
    /\ pc[c] = "insert_user"
    /\ \/ /\ \E u \in users : u.email = payload[c].email
          /\ Answer(c, "EMAIL_ALREADY_REGISTERED")
          /\ UNCHANGED users
       \/ /\ \A u \in users : u.email # payload[c].email
          /\ users' = users \cup {[id |-> c, email |-> payload[c].email,
                                   hashed_password |-> Hash(payload[c].password)]}
          /\ Goto(c, "issue_to_new")
    /\ UNCHANGED <<now, revoked_tokens, tokens, request, found, late>>

IssueToNew(c) ==
    /\ pc[c] = "issue_to_new"
    /\ Issue(c, c)
    /\ UNCHANGED <<now, collections, request, found, late>>

\* login reads the user; for an unknown address it only spends the time.
FindUser(c) ==
    /\ pc[c] = "find_user"
    /\ \/ \E u \in users : /\ u.email = payload[c].email
                           /\ found' = [found EXCEPT ![c] = u]
                           /\ Goto(c, "verify")
       \/ /\ \A u \in users : u.email # payload[c].email
          /\ Answer(c, "INVALID_CREDENTIALS") /\ UNCHANGED found
    /\ UNCHANGED <<now, collections, tokens, request, late>>

\* verify_password runs in a thread, on the document that was read.
Verify(c) ==
    /\ pc[c] = "verify"
    /\ IF found[c].hashed_password = Hash(payload[c].password)
       THEN Issue(c, found[c].id)
       ELSE Answer(c, "INVALID_CREDENTIALS") /\ UNCHANGED tokens
    /\ UNCHANGED <<now, collections, request, found, late>>

-----------------------------------------------------------------------------
(* get_current_user, then the endpoint. *)

\* decode_access_token; no database is asked.
Decode(c) ==
    /\ pc[c] = "decode"
    /\ IF presented[c].exp <= now
       THEN Answer(c, "TOKEN_EXPIRED")
       ELSE Goto(c, "check_revoked")
    /\ UNCHANGED <<now, collections, tokens, request, found, late>>

\* Fault: the user's id is looked up, not the token's.
IsRevokedBySub(t) == \E d \in revoked_tokens : d.jti = t.sub

\* is_token_revoked.
IsRevoked(t) == \E d \in revoked_tokens : d.jti = t.jti

CheckRevoked(c) ==
    /\ pc[c] = "check_revoked"
    /\ IF IsRevoked(presented[c])
       THEN Answer(c, "TOKEN_REVOKED")
       ELSE Goto(c, "find_owner")
    /\ UNCHANGED <<now, collections, tokens, request, found, late>>

UserExists(id) == \E u \in users : u.id = id

\* The token may name a user who has been deleted since.
FindOwner(c) ==
    /\ pc[c] = "find_owner"
    /\ IF UserExists(presented[c].sub)
       THEN Goto(c, IF kind[c] = "logout" THEN "revoke" ELSE "read")
       ELSE Answer(c, "UNAUTHENTICATED")
    /\ UNCHANGED <<now, collections, tokens, request, found, late>>

\* read_current_user reads the user once more.
ReadUser(c) ==
    /\ pc[c] = "read"
    /\ Answer(c, IF UserExists(presented[c].sub) THEN "OK" ELSE "INVALID_CREDENTIALS")
    /\ UNCHANGED <<now, collections, tokens, request, found, late>>

\* Fault: the revocation expires when it is made.
RevokeUntilNow(c) ==
    /\ pc[c] = "revoke"
    /\ revoked_tokens' = revoked_tokens \cup {[jti |-> presented[c].jti, expires_at |-> now]}
    /\ Answer(c, "OK")
    /\ UNCHANGED <<now, users, tokens, request, found, late>>

\* revoke_token, an upsert: a second one changes nothing.
Revoke(c) ==
    /\ pc[c] = "revoke"
    /\ revoked_tokens' = revoked_tokens \cup
                           {[jti |-> presented[c].jti, expires_at |-> presented[c].exp]}
    /\ Answer(c, "OK")
    /\ UNCHANGED <<now, users, tokens, request, found, late>>

-----------------------------------------------------------------------------
(* The surroundings. *)

\* expireAfterSeconds=0: expired at the instant stored in expires_at.
Expired(d) == d.expires_at <= now

\* MongoDB's TTL monitor passes by, whenever it does.
Prune ==
    /\ \E d \in revoked_tokens : Expired(d)
    /\ revoked_tokens' = {d \in revoked_tokens : ~Expired(d)}
    /\ UNCHANGED <<now, users, tokens, request, found, late, pc, answer>>

Tick ==
    /\ now < Horizon \/ \E d \in revoked_tokens : d.expires_at > now
    /\ now' = now + 1
    /\ UNCHANGED <<collections, tokens, request, found, late, pc, answer>>

\* No endpoint deletes a user; an operator may.
DeleteUser(u) ==
    /\ u \in users
    /\ users' = users \ {u}
    /\ UNCHANGED <<now, revoked_tokens, tokens, request, found, late, pc, answer>>

\* The process dies; what it wrote stays, the answer never comes.
Die(c) ==
    /\ pc[c] \notin {"idle", "answered", "dead"}
    /\ Goto(c, "dead")
    /\ UNCHANGED <<now, collections, tokens, request, found, late>>

Handler(c) ==
    \/ InsertUser(c) \/ IssueToNew(c) \/ FindUser(c) \/ Verify(c)
    \/ Decode(c) \/ CheckRevoked(c) \/ FindOwner(c) \/ ReadUser(c) \/ Revoke(c)

Next ==
    \/ \E c \in Calls : Submit(c) \/ Handler(c) \/ Die(c)
    \/ \E u \in users : DeleteUser(u)
    \/ Prune \/ Tick

Spec == Init /\ [][Next]_vars

-----------------------------------------------------------------------------
Answers == {"NONE", "OK", "EMAIL_ALREADY_REGISTERED", "INVALID_CREDENTIALS",
            "TOKEN_EXPIRED", "TOKEN_REVOKED", "UNAUTHENTICATED"}

\* Documents and tokens have their fields, and times in a token are whole seconds.
TypeOK ==
    /\ now \in Nat
    /\ \A u \in users : u.id \in Calls /\ u.email \in Spellings
                          /\ u.hashed_password \in {Hash(p) : p \in Passwords}
    /\ \A t \in tokens : t.jti \in Calls /\ t.sub \in Calls /\ t.exp % Second = 0
    /\ \A d \in revoked_tokens : d.jti \in {t.jti : t \in tokens} /\ d.expires_at \in Nat
    /\ \A c \in Calls : presented[c] \in tokens \cup {NoToken}
    /\ answer \in [Calls -> Answers]

\* Concurrent registrations of one address, in whatever capitals, make one user.
OneUserPerEmail ==
    \A u, v \in users : Lower[u.email] = Lower[v.email] => u = v

\* The TTL index never prunes the revocation of a token that could still be
\* used: from the confirmation of the logout to its expiry the token is listed.
RevocationOutlivesToken ==
    \A t \in LoggedOut : t.exp > now =>
        \E d \in revoked_tokens : d.jti = t.jti /\ d.expires_at >= t.exp

\* A call that began after its token's logout was confirmed gets past the check
\* only if the token has expired by then: it was decoded just before, and the
\* revocation was pruned in between.
RevokedIsRefused ==
    [][\A c \in Calls :
          late[c] /\ pc[c] = "check_revoked" /\ pc'[c] = "find_owner" =>
            presented[c].exp <= now]_vars

-----------------------------------------------------------------------------
(* Why: how far each call has got, and what it holds by then. *)

Addresses == {Lower[s] : s \in Spellings}

CredentialSteps == {"insert_user", "issue_to_new", "find_user", "verify"}
TokenSteps      == {"decode", "check_revoked", "find_owner", "revoke", "read"}

CallInv(c) ==
    /\ pc[c] # "answered" => answer[c] = "NONE"
    /\ pc[c] \in CredentialSteps =>
         /\ kind[c] # "logout"
         /\ payload[c].email \in Addresses /\ payload[c].password \in Passwords
    /\ pc[c] = "verify" => found[c].id \in Calls
    /\ pc[c] \in TokenSteps => presented[c] \in tokens
    /\ pc[c] = "read" => kind[c] # "logout"
    /\ late[c] => presented[c] \in LoggedOut

\* The inductive invariant.
AuthInv ==
    /\ TypeOK /\ OneUserPerEmail /\ RevocationOutlivesToken
    /\ \A u \in users : u.email \in Addresses
    /\ \A t \in tokens : t.exp \in Nat
    /\ DOMAIN pc = Calls /\ DOMAIN kind = Calls /\ DOMAIN payload = Calls
    /\ DOMAIN presented = Calls /\ DOMAIN found = Calls /\ DOMAIN late = Calls
    /\ \A c \in Calls : CallInv(c)

=============================================================================
