------------------------------- MODULE Accounts -------------------------------
(***************************************************************************)
(* Accounts, companies and training records (services/api/app/accounts.py  *)
(* behind api/accountroutes.py), as requests on the document store.  The   *)
(* caller of an authenticated request holds a session of its account's     *)
(* present version (_user).  The audit record some routes append at the    *)
(* end, best effort, is left out: no request here reads the trail.         *)
(***************************************************************************)
EXTENDS DocumentStore

CONSTANTS
    Emails,        \* addresses
    Subjects,      \* Google's account subjects
    Company,       \* the id of the one company of the instance
    Passwords,     \* passwords
    LockAfter,     \* LOCK_AFTER
    SignalCap,     \* SIGNAL_CAP
    MailEnabled    \* mail.enabled()

ASSUME AccountsAssumption ==
    /\ LockAfter \in Nat \ {0} /\ SignalCap \in Nat \ {0}
    /\ MailEnabled \in BOOLEAN

VARIABLES
    leaving,    \* ghost: accounts whose deletion has begun
    gone        \* ghost: accounts whose deletion has answered

accountVars == <<leaving, gone>>

-----------------------------------------------------------------------------
(* The documents, under their partition and key. *)

User(u) == <<"USER", u>>
Login(name) == <<"LOGIN", name>>
Lock(email) == <<"LOCK", email>>
Reset(token) == <<"RESET", token>>
Verify(token) == <<"VERIFY", token>>
Training(u) == <<"TRAINING", u>>
Org == <<"ORG", Company>>
Invite(code) == <<"INVITE", code>>
Member(u) == <<"MEMBER", u>>
MemberOf(u) == <<"MEMBEROF", u>>
Policy(p) == <<"POLICY", p>>
Ack(p, u) == <<"ACK", p, u>>
Signal(s) == <<"SIGNAL", s>>

(* get_doc("USER", u) or {}: an account document that is missing reads as one without fields. *)
NoFields == [whole |-> FALSE, provider |-> None, email |-> None, password |-> None,
             version |-> 0, verified |-> FALSE]
Account(u) == IF Held(User(u)) THEN doc[User(u)] ELSE NoFields
NewAccount(provider, email, password) ==
    [whole |-> TRUE, provider |-> provider, email |-> email, password |-> password,
     version |-> 0, verified |-> FALSE]

Role(u) == IF Held(Member(u)) THEN doc[Member(u)] ELSE None
Untrained == [passed |-> FALSE, verifiedPassed |-> FALSE]
Record(u) == IF Held(Training(u)) THEN doc[Training(u)] ELSE Untrained
Tries(email) == IF Held(Lock(email)) THEN doc[Lock(email)] ELSE 0

IsAdmin(u) == Held(Org) /\ Role(u) \in {"owner", "admin"}

-----------------------------------------------------------------------------
(* The storage calls of its operations *)

(* _join *)
Joins(u, role) == <<Put(Member(u), role), Put(MemberOf(u), role)>>
(* Slip: the company's list forgets a member, the member's list keeps the company. *)
LeavesHalf(u) == <<Delete(Member(u))>>
Leaves(u) == <<Delete(Member(u)), Delete(MemberOf(u))>>

(* verification_token; none is sent within a minute of the last. *)
Verification(u) ==
    LET found == Account(u)
        token == minted + 1
    IN <<Put(User(u), found), Put(Verify(token), [user |-> u, email |-> found.email])>>

(* _set_password: the account is read again, whatever the caller has read. *)
SetPassword(u, password) ==
    LET found == Account(u)
        changed == [found EXCEPT !.password = password, !.version = @ + 1]
    IN <<Put(User(u), changed)>>
       \o (IF found.email = None THEN <<>> ELSE <<Delete(Lock(found.email))>>)

(* What a deciding read of a request under way adds to its calls. *)
Decided(task) ==
    CASE task.call = "password"     -> SetPassword(task.of.user, task.of.password)
      [] task.call = "memberships"  -> IF Held(MemberOf(task.of)) THEN Leaves(task.of) ELSE <<>>
      [] task.call = "acks"         -> DeleteAll({key \in Partition("ACK") : key[2] = task.of})
      [] task.call = "verification" -> Verification(task.of)

(* A session of u is accepted, and the account's document reads as a user.  The first session is issued *)
(* when the sign-up answers. *)
SignedIn(u) == Held(User(u)) /\ doc[User(u)].whole /\ ~Makes(<<"account", u>>, "create")

Others == UNCHANGED accountVars

OfAccount(u, change) == Of("account", u, change)
OfLogin(name, change) == Of("login", name, change)
OfMembership(u, change) == Of("membership", u, change)
OfCompany(change) == Of("company", Company, change)
OfTraining(u, change) == Of("training", u, change)

-----------------------------------------------------------------------------
(* Signing up and in *)

Guest(h) ==
    /\ Starts(h, "guest", NoTopic, <<Put(User(minted + 1), NewAccount("guest", None, None))>>)
    /\ Mints(1)
    /\ Others

(* Slip: the sign-in key is written whether or not the address has one. *)
ClaimsAnyway(email, u) == <<Put(Login(email), u)>>

(* The key is claimed after the account is made; the one who loses takes its account back. *)
Claims(email, u) == <<PutNew(Login(email), u, User(u))>>

Register(h, email, password) ==
    LET u == minted + 1
    IN /\ ~Held(Login(email))
       /\ Starts(h, "register", And(OfAccount(u, "create"), OfLogin(email, "claim")),
                 <<Put(User(u), NewAccount("email", email, password))>> \o Claims(email, u)
                 \o (IF MailEnabled THEN <<Later("verification", u)>> ELSE <<>>))
       /\ Mints(1)
       /\ Others

(* google, when the subject has no account that still exists. *)
Google(h, subject) ==
    LET u == minted + 1
    IN /\ Held(Login(subject)) => ~Held(User(doc[Login(subject)]))
       /\ Starts(h, "google", And(OfAccount(u, "create"), OfLogin(subject, "google")),
                 <<Put(User(u), NewAccount("google", None, None)), Put(Login(subject), u)>>)
       /\ Mints(1)
       /\ Others

(* Slip: the tenth wrong password does not lock yet. *)
LockedLate(tries) == tries > LockAfter
Locked(tries) == tries >= LockAfter

(* login: the count of wrong passwords, or its end.  The window of the count may have passed. *)
SignIn(h, email, password, elapsed) ==
    LET tries == IF elapsed THEN 0 ELSE Tries(email)
        found == IF Held(Login(email)) THEN Account(doc[Login(email)]) ELSE NoFields
        right == found.password # None /\ found.password = password
    IN /\ ~Locked(tries)
       /\ Starts(h, "login", NoTopic,
                 IF right THEN <<Delete(Lock(email))>> ELSE <<Put(Lock(email), tries + 1)>>)
       /\ Mints(0)
       /\ Others

-----------------------------------------------------------------------------
(* An account's own requests *)

Rename(h, u) ==
    /\ SignedIn(u)
    /\ Starts(h, "rename", OfAccount(u, "rename"), <<Put(User(u), Account(u))>>)
    /\ Mints(0)
    /\ Others

(* _bump *)
SignOutEverywhere(h, u) ==
    /\ SignedIn(u)
    /\ Starts(h, "sign out", OfAccount(u, "version"),
              <<Put(User(u), [Account(u) EXCEPT !.version = @ + 1])>>)
    /\ Mints(0)
    /\ Others

ChangePassword(h, u, password) ==
    /\ SignedIn(u)
    /\ doc[User(u)].password # None
    /\ Starts(h, "change password", OfAccount(u, "password"),
              <<Later("password", [user |-> u, password |-> password])>>)
    /\ Mints(0)
    /\ Others

KeysOf(u) == {key \in Partition("LOGIN") : doc[key] = u}

DeleteAccount(h, u) ==
    /\ SignedIn(u)
    /\ Starts(h, "delete",
              And(OfMembership(u, None),
                  [topic \in {<<"account", u>>, <<"training", u>>} \cup {<<"login", key[2]>> : key \in KeysOf(u)}
                     |-> "delete"]),
              DeleteAll(KeysOf(u)) \o <<Later("memberships", u), Delete(Training(u)), Delete(User(u)), Later("answer", u)>>)
    /\ leaving' = leaving \cup {u}
    /\ Mints(0)
    /\ UNCHANGED gone

RequestReset(h, email) ==
    /\ Held(Login(email))
    /\ Starts(h, "request reset", NoTopic, <<Put(Reset(minted + 1), doc[Login(email)])>>)
    /\ Mints(1)
    /\ Others

(* An administrator asks for a member's reset link. *)
AdminReset(h, actor, u) ==
    /\ SignedIn(actor) /\ IsAdmin(actor)
    /\ Role(u) # None
    /\ SignedIn(u) /\ doc[User(u)].provider = "email"
    /\ Starts(h, "admin reset", NoTopic, <<Put(Reset(minted + 1), u)>>)
    /\ Mints(1)
    /\ Others

(* reset_password, with a link that has not expired. *)
ResetPassword(h, key, password) ==
    LET u == doc[key]
    IN /\ Starts(h, "reset", OfAccount(u, "password"),
                 <<Later("password", [user |-> u, password |-> password]), Delete(key)>>)
       /\ Mints(0)
       /\ Others

SendVerification(h, u) ==
    /\ MailEnabled
    /\ SignedIn(u) /\ doc[User(u)].provider = "email" /\ ~doc[User(u)].verified
    /\ Starts(h, "verification", OfAccount(u, "verification"), Verification(u))
    /\ Mints(1)
    /\ Others

(* confirm_email: a link for another address is only spent. *)
ConfirmEmail(h, key) ==
    LET u == doc[key].user
        fits == Held(User(u)) /\ doc[User(u)].email = doc[key].email
    IN /\ Starts(h, "confirm", OfAccount(u, "confirm"),
                 (IF fits THEN <<Put(User(u), [Account(u) EXCEPT !.verified = TRUE])>> ELSE <<>>)
                 \o <<Delete(key)>>)
       /\ Mints(0)
       /\ Others

(* record_training and mark_attempt, which marks the answers itself. *)
Merged(before, passed, marked) ==
    [passed |-> before.passed \/ passed,
     verifiedPassed |-> before.verifiedPassed \/ (marked /\ passed)]

RecordTraining(h, u, passed, marked) ==
    /\ SignedIn(u)
    /\ Starts(h, "training", OfTraining(u, h),
              <<Put(Training(u), Merged(Record(u), passed, marked))>>)
    /\ Mints(0)
    /\ Others

-----------------------------------------------------------------------------
(* Companies *)

CreateCompany(h, u) ==
    LET code == minted + 1
    IN /\ SignedIn(u) /\ doc[User(u)].provider # "guest"
       /\ ~Held(Org) /\ ~Makes(<<"company", Company>>, "create")
       /\ Starts(h, "create", And(OfCompany("create"), OfMembership(u, "owner")),
                 <<Put(Org, [owner |-> u, invite |-> code, intake |-> None]),
                   Put(Invite(code), Company)>> \o Joins(u, "owner"))
       /\ Mints(1)
       /\ Others

(* join.  Nobody has the code before the request that made it has answered. *)
Join(h, u, code) ==
    /\ SignedIn(u)
    /\ ~Makes(<<"company", Company>>, "create")
    /\ Held(Invite(code)) /\ Held(Org) /\ doc[Org].invite = code
    /\ Role(u) = None
    /\ Starts(h, "join", OfMembership(u, "employee"), Joins(u, "employee"))
    /\ Mints(0)
    /\ Others

(* Slip: the company is given its new code before the old one is deleted, so that the new one is. *)
RotatesFirst(code) ==
    <<Put(Org, [doc[Org] EXCEPT !.invite = code]), Put(Invite(code), Company), Delete(Invite(code))>>

Rotates(code) ==
    <<Delete(Invite(doc[Org].invite)), Put(Org, [doc[Org] EXCEPT !.invite = code]),
      Put(Invite(code), Company)>>

RotateInvite(h, actor) ==
    /\ SignedIn(actor) /\ IsAdmin(actor)
    /\ Starts(h, "rotate", OfCompany("rotate"), Rotates(minted + 1))
    /\ Mints(1)
    /\ Others

MayName(actor, u) == Held(Org) /\ Role(actor) = "owner" /\ u # actor /\ Role(u) # None

SetRole(h, actor, u, role) ==
    /\ SignedIn(actor)
    /\ MayName(actor, u)
    /\ Starts(h, "set role", OfMembership(u, role), Joins(u, role))
    /\ Mints(0)
    /\ Others

RemoveMember(h, actor, u) ==
    /\ SignedIn(actor) /\ IsAdmin(actor)
    /\ u # doc[Org].owner
    /\ Starts(h, "remove", OfMembership(u, None), Leaves(u))
    /\ Mints(0)
    /\ Others

(* update_settings and the intake key write the whole company document they have read. *)
UpdateSettings(h, actor) ==
    /\ SignedIn(actor) /\ IsAdmin(actor)
    /\ Starts(h, "settings", OfCompany("settings"), <<Put(Org, doc[Org])>>)
    /\ Mints(0)
    /\ Others

CreateIngestKey(h, actor) ==
    /\ SignedIn(actor) /\ IsAdmin(actor)
    /\ Starts(h, "intake key", OfCompany("intake"),
              <<Put(Org, [doc[Org] EXCEPT !.intake = ToString(minted + 1)])>>)
    /\ Mints(1)
    /\ Others

RevokeIngestKey(h, actor) ==
    /\ SignedIn(actor) /\ IsAdmin(actor)
    /\ Starts(h, "revoke key", OfCompany("intake"), <<Put(Org, [doc[Org] EXCEPT !.intake = None])>>)
    /\ Mints(0)
    /\ Others

(* ingest, with the company's present key. *)
Ingest(h) ==
    /\ Held(Org) /\ doc[Org].intake # None
    /\ Cardinality(Partition("SIGNAL")) < SignalCap
    /\ Starts(h, "ingest", NoTopic, <<Put(Signal(minted + 1), None)>>)
    /\ Mints(1)
    /\ Others

AddPolicy(h, actor) ==
    /\ SignedIn(actor) /\ IsAdmin(actor)
    /\ Starts(h, "add policy", NoTopic, <<Put(Policy(minted + 1), actor)>>)
    /\ Mints(1)
    /\ Others

RemovePolicy(h, actor, key) ==
    /\ SignedIn(actor) /\ IsAdmin(actor)
    /\ Starts(h, "remove policy", NoTopic, <<Delete(key), Later("acks", key[2])>>)
    /\ Mints(0)
    /\ Others

Acknowledge(h, u, key) ==
    /\ SignedIn(u) /\ Role(u) # None
    /\ Starts(h, "acknowledge", NoTopic, <<Put(Ack(key[2], u), None)>>)
    /\ Mints(0)
    /\ Others

-----------------------------------------------------------------------------
(* What a request under way reads before it goes on. *)

ReadAgain(h) ==
    /\ Working(h) /\ Task(h).call \in {"password", "memberships", "acks", "verification"}
    /\ Continues(h, Decided(Task(h)) \o Next1(h))
    /\ Mints(IF Task(h).call = "verification" THEN 1 ELSE 0)
    /\ UNCHANGED doc
    /\ Others

AnswersDeletion(h) ==
    /\ Working(h) /\ Task(h).call = "answer"
    /\ gone' = gone \cup {Task(h).of}
    /\ Continues(h, Next1(h))
    /\ Mints(0)
    /\ UNCHANGED <<doc, leaving>>

-----------------------------------------------------------------------------
Accounts == {key[2] : key \in Partition("USER")}
Codes == {key[2] : key \in Partition("INVITE")}

SignsUp(h) ==
    \/ Guest(h)
    \/ \E email \in Emails, password \in Passwords : Register(h, email, password)
    \/ \E subject \in Subjects : Google(h, subject)
    \/ \E email \in Emails, password \in Passwords, elapsed \in BOOLEAN : SignIn(h, email, password, elapsed)

OwnRequest(h) ==
    \/ \E u \in Accounts : Rename(h, u)
    \/ \E u \in Accounts : SignOutEverywhere(h, u)
    \/ \E u \in Accounts, password \in Passwords : ChangePassword(h, u, password)
    \/ \E u \in Accounts : DeleteAccount(h, u)
    \/ \E email \in Emails : RequestReset(h, email)
    \/ \E actor, u \in Accounts : AdminReset(h, actor, u)
    \/ \E key \in Partition("RESET"), password \in Passwords : ResetPassword(h, key, password)
    \/ \E u \in Accounts : SendVerification(h, u)
    \/ \E key \in Partition("VERIFY") : ConfirmEmail(h, key)
    \/ \E u \in Accounts, passed, marked \in BOOLEAN : RecordTraining(h, u, passed, marked)

CompanyRequest(h) ==
    \/ \E u \in Accounts : CreateCompany(h, u)
    \/ \E u \in Accounts, code \in Codes : Join(h, u, code)
    \/ \E actor \in Accounts : RotateInvite(h, actor)
    \/ \E actor, u \in Accounts, role \in {"admin", "employee"} : SetRole(h, actor, u, role)
    \/ \E actor, u \in Accounts : RemoveMember(h, actor, u)
    \/ \E actor \in Accounts : UpdateSettings(h, actor)
    \/ \E actor \in Accounts : CreateIngestKey(h, actor)
    \/ \E actor \in Accounts : RevokeIngestKey(h, actor)
    \/ Ingest(h)
    \/ \E actor \in Accounts : AddPolicy(h, actor)
    \/ \E actor \in Accounts, key \in Partition("POLICY") : RemovePolicy(h, actor, key)
    \/ \E u \in Accounts, key \in Partition("POLICY") : Acknowledge(h, u, key)

AccountStep(h) == SignsUp(h) \/ OwnRequest(h) \/ CompanyRequest(h) \/ ReadAgain(h) \/ AnswersDeletion(h)

AccountInit == leaving = {} /\ gone = {}

-----------------------------------------------------------------------------
(* Properties *)

(* Each partition holds what its readers take from it (accounts.py, _user, login, join, role_in), a count of *)
(* wrong passwords stops where it locks, and a request at work is one of the menu. *)
TypeOK ==
    /\ minted \in Nat /\ requests \in 0..MaxRequests /\ deaths \in 0..MaxDeaths
    /\ \A key \in Partition("USER") : doc[key] \in
         [whole : BOOLEAN, provider : {None, "guest", "google", "email"}, email : Emails \cup {None},
          password : Passwords \cup {None}, version : Nat, verified : BOOLEAN]
    /\ \A key \in Partition("LOGIN") \cup Partition("RESET") : doc[key] \in 1..minted
    /\ \A key \in Partition("LOCK") : doc[key] \in 1..LockAfter
    /\ \A key \in Partition("MEMBER") \cup Partition("MEMBEROF") : doc[key] \in {"owner", "admin", "employee"}
    /\ Held(Org) => doc[Org].owner \in 1..minted /\ doc[Org].invite \in 1..minted
    /\ leaving \cup gone \subseteq 1..minted
    /\ \A h \in Handlers : Working(h) => handler[h].op \in menu

(* Two sign-ups racing for one address end with exactly one winner (dynamo.py, put_doc; *)
(* accounts.py, register): once its sign-up has answered, an account that has not been deleted is the one *)
(* its address signs in to, and the account of the one who lost is not left behind. *)
OneWinner ==
    \A u \in Accounts \ leaving :
        (doc[User(u)].whole /\ doc[User(u)].provider = "email" /\ ~WorksOn(<<"account", u>>)
         /\ <<"login", doc[User(u)].email>> \notin crossed)
        => Held(Login(doc[User(u)].email)) /\ doc[Login(doc[User(u)].email)] = u

(* The code a company shows its admins lets people in (accounts.py, rotate_invite and join), however many *)
(* rotations have overlapped: only another save of the company's document may have lost it. *)
InviteWorks ==
    Held(Org) /\ Settled(<<"company", Company>>) => Held(Invite(doc[Org].invite))

(* A membership is two documents, and both say the same (accounts.py, _join, remove_member, delete_user), *)
(* unless two different changes of it were at work at once. *)
MembershipsAgree ==
    \A u \in 1..minted : Settled(<<"membership", u>>) =>
        /\ Held(Member(u)) <=> Held(MemberOf(u))
        /\ Held(Member(u)) => doc[Member(u)] = doc[MemberOf(u)]

(* "Deletion is real" (accounts.py:21): of an account whose deletion has answered nothing is left, no *)
(* account, sign-in key, membership or training record. *)
DeletionIsReal ==
    \A u \in gone :
        /\ ~Held(User(u)) /\ ~Held(Training(u)) /\ ~Held(Member(u)) /\ ~Held(MemberOf(u))
        /\ KeysOf(u) = {}
=============================================================================
