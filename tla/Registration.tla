---------------------------- MODULE Registration ----------------------------
(***************************************************************************)
(* AuthService.requestOtp and verifyOtp with the user and wallet rows      *)
(* TypeOrmAuthRepository creates.  A phone number, as normalizePhoneNumber *)
(* leaves it, identifies its OTP session in Redis, its user row            *)
(* (phone_number is unique) and that user's wallet (user_id is unique).    *)
(***************************************************************************)
EXTENDS Integers, FiniteSets, Sequences

CONSTANTS
    Spellings, \* phone numbers as clients write them: sequences of characters
    Codes,    \* values createOtpCode may draw
    Calls,    \* concurrent calls, each reusable
    OtpTtl,   \* OTP_TTL_SECONDS in ticks
    Faults,   \* operations a call may fail at
    NoCode,   \* no OTP session was stored
    NoPhone   \* the phone of a call that is not running

\* normalizePhoneNumber takes out white space, and nothing else.
Normalize(spelling) == SelectSeq(spelling, LAMBDA character : character # " ")

\* What sessions and users are stored under.
Phones == {Normalize(spelling) : spelling \in Spellings}

Operations == {"sendCode", "delSession", "findByPhoneNumber", "createUser",
               "createWallet", "issueTokens"}

ASSUME RegistrationAssumption ==
    /\ OtpTtl \in Nat /\ OtpTtl > 0
    /\ Faults \subseteq Operations
    /\ NoCode \notin Codes
    /\ Spellings \subseteq Seq(STRING)
    /\ NoPhone \notin Phones

VARIABLES
    otp,      \* the code of the stored OTP session
    ttl,      \* its remaining ticks; 0 when there is no session
    users,    \* phones with a user row
    wallets,  \* phones whose user has a wallet row
    pc,       \* the operation each call awaits next
    phone,    \* the phone each call is about
    answer,   \* how each call's last operation was answered
    uses,     \* history: verify calls that matched the stored session, at most 2
    safe      \* history: phones whose stored code no running call will delete

database == <<users, wallets>>
history  == <<uses, safe>>
vars     == <<otp, ttl, users, wallets, pc, phone, answer, uses, safe>>

\* "More than once" is all OneTimeCode asks of uses.
UsesBound  == 2
Answers    == {"none", "sent", "loggedIn", "invalidOtp", "error"}

Init ==
    /\ otp = [p \in Phones |-> NoCode]
    /\ ttl = [p \in Phones |-> 0]
    /\ users = {}
    /\ wallets = {}
    /\ pc = [c \in Calls |-> "idle"]
    /\ phone = [c \in Calls |-> NoPhone]
    /\ answer = [c \in Calls |-> "none"]
    /\ uses = [p \in Phones |-> 0]
    /\ safe = {}

-----------------------------------------------------------------------------
At(c, operation) == pc[c] = operation

Start(c, p, operation) ==
    /\ pc' = [pc EXCEPT ![c] = operation]
    /\ phone' = [phone EXCEPT ![c] = p]
    /\ answer' = [answer EXCEPT ![c] = "none"]

Continue(c, operation) ==
    /\ pc' = [pc EXCEPT ![c] = operation]
    /\ UNCHANGED <<phone, answer>>

Answer(c, a) ==
    /\ pc' = [pc EXCEPT ![c] = "idle"]
    /\ phone' = [phone EXCEPT ![c] = NoPhone]
    /\ answer' = [answer EXCEPT ![c] = a]

-----------------------------------------------------------------------------
(* requestOtp: SET the session, then hand the code to the SMS service. *)

\* Mutant: a code lives a tick longer than its setting.
OtpLifeLonger == OtpTtl + 1

\* What requestOtp passes to SET ... EX.
OtpLife == OtpTtl

RequestOtp(c, p, code) ==
    /\ At(c, "idle")
    /\ otp' = [otp EXCEPT ![p] = code]
    /\ ttl' = [ttl EXCEPT ![p] = OtpLife]
    /\ uses' = [uses EXCEPT ![p] = 0]
    /\ safe' = IF \E d \in Calls : At(d, "delSession") /\ phone[d] = p
               THEN safe \ {p} ELSE safe \cup {p}
    /\ Start(c, p, "sendCode")
    /\ UNCHANGED database

SendCode(c) ==
    /\ At(c, "sendCode")
    /\ Answer(c, "sent")
    /\ UNCHANGED <<otp, ttl, history, database>>

-----------------------------------------------------------------------------
(* verifyOtp: GET and compare, DEL, find or create the user, issue tokens. *)

Matches(p, code) == ttl[p] > 0 /\ otp[p] = code

VerifyOtp(c, p, code) ==
    /\ At(c, "idle")
    /\ IF Matches(p, code)
       THEN /\ uses' = [uses EXCEPT ![p] = IF @ < UsesBound THEN @ + 1 ELSE @]
            /\ safe' = safe \ {p}
            /\ Start(c, p, "delSession")
       ELSE /\ Answer(c, "invalidOtp")
            /\ UNCHANGED history
    /\ UNCHANGED <<otp, ttl, database>>

\* DEL removes whatever session is stored by now.
DelSession(c) ==
    /\ At(c, "delSession")
    /\ ttl' = [ttl EXCEPT ![phone[c]] = 0]
    /\ Continue(c, "findByPhoneNumber")
    /\ UNCHANGED <<otp, history, database>>

FindByPhoneNumber(c) ==
    /\ At(c, "findByPhoneNumber")
    /\ Continue(c, IF phone[c] \in users THEN "issueTokens" ELSE "createUser")
    /\ UNCHANGED <<otp, ttl, history, database>>

\* Mutant: phone_number is not unique, a second insert succeeds.
CreateUserTwice(c) ==
    /\ At(c, "createUser")
    /\ users' = users \cup {phone[c]}
    /\ Continue(c, "createWallet")
    /\ UNCHANGED <<otp, ttl, wallets, history>>

\* Mutant: the wallet is left for later.
CreateUserOnly(c) ==
    /\ At(c, "createUser")
    /\ users' = users \cup {phone[c]}
    /\ Continue(c, "issueTokens")
    /\ UNCHANGED <<otp, ttl, wallets, history>>

\* The unique index refuses a second row for the phone.
CreateUser(c) ==
    /\ At(c, "createUser")
    /\ IF phone[c] \in users
       THEN Answer(c, "error") /\ UNCHANGED users
       ELSE Continue(c, "createWallet") /\ users' = users \cup {phone[c]}
    /\ UNCHANGED <<otp, ttl, wallets, history>>

CreateWallet(c) ==
    /\ At(c, "createWallet")
    /\ wallets' = wallets \cup {phone[c]}
    /\ Continue(c, "issueTokens")
    /\ UNCHANGED <<otp, ttl, users, history>>

\* Mutant: the session is deleted again once the user is logged in.
IssueTokensDeletes(c) ==
    /\ At(c, "issueTokens")
    /\ ttl' = [ttl EXCEPT ![phone[c]] = 0]
    /\ Answer(c, "loggedIn")
    /\ UNCHANGED <<otp, history, database>>

IssueTokens(c) ==
    /\ At(c, "issueTokens")
    /\ Answer(c, "loggedIn")
    /\ UNCHANGED <<otp, ttl, history, database>>

-----------------------------------------------------------------------------
\* An operation in Faults fails, the process stops before it, or the reply of
\* the operation before it is lost.
Fail(c) ==
    /\ pc[c] \in Faults
    /\ Answer(c, "error")
    /\ UNCHANGED <<otp, ttl, history, database>>

Older(ticks) == IF ticks > 0 THEN ticks - 1 ELSE 0

Tick ==
    /\ \E p \in Phones : ttl[p] > 0
    /\ ttl' = [p \in Phones |-> Older(ttl[p])]
    /\ safe' = {p \in safe : ttl[p] > 1}
    /\ UNCHANGED <<otp, users, wallets, pc, phone, answer, uses>>

Step(c) ==
    \/ SendCode(c)   \/ DelSession(c)   \/ FindByPhoneNumber(c)
    \/ CreateUser(c) \/ CreateWallet(c) \/ IssueTokens(c)

Next ==
    \/ \E c \in Calls :
         \/ \E spelling \in Spellings, code \in Codes :
              \/ RequestOtp(c, Normalize(spelling), code)
              \/ VerifyOtp(c, Normalize(spelling), code)
         \/ Step(c)
         \/ Fail(c)
    \/ Tick

Spec     == Init /\ [][Next]_vars
FairSpec == Spec /\ \A c \in Calls : WF_vars(Step(c))

-----------------------------------------------------------------------------
(* Properties. *)

\* Every variable has its type.
TypeOK ==
    /\ otp \in [Phones -> Codes \cup {NoCode}]
    /\ ttl \in [Phones -> 0..OtpTtl]
    /\ users \subseteq Phones
    /\ wallets \subseteq Phones
    /\ pc \in [Calls -> Operations \cup {"idle"}]
    /\ phone \in [Calls -> Phones \cup {NoPhone}]
    /\ answer \in [Calls -> Answers]
    /\ uses \in [Phones -> 0..UsesBound]
    /\ safe \subseteq Phones

\* However many verify calls race for a new phone, one of them alone creates
\* its wallet, and only after the user row: wallets.user_id never clashes.
OneWalletCreator ==
    \A p \in Phones :
        LET creators == {c \in Calls : phone[c] = p /\ At(c, "createWallet")} IN
        /\ Cardinality(creators) <= 1
        /\ creators # {} => p \in users \ wallets

\* While a call cannot fail between the two inserts a registered user ends up
\* with the wallet increaseWallet and uploadAndTranscribe look for, also when
\* another verify of the same phone is answered first.
UserGetsWallet == \A p \in Phones : (p \in users) ~> (p \in wallets)

\* While a call cannot fail between the two inserts, a user without a wallet
\* still has the one call at work that creates it: nobody else ever will.
WalletlessHasCreator ==
    \A p \in users \ wallets : \E c \in Calls : phone[c] = p /\ At(c, "createWallet")

\* A code sent while no verify of its phone was about to delete the session
\* stays until it is used, replaced or expires: verify calls still finding or
\* creating the user, late, failed or dead, do not take a resent code away.
CodeStays == \A p \in safe : ttl[p] > 0

\* The documented one-time code: one stored session admits one verify call.
OneTimeCode == \A p \in Phones : uses[p] <= 1
=============================================================================
