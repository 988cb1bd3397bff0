------------------------ MODULE RegistrationProofs ------------------------
(* Theorems about Registration, for every value of its constants.          *)
EXTENDS Registration, FiniteSetTheorems, TLAPS

-----------------------------------------------------------------------------
(* The inductive invariants behind the safety properties. *)

\* A running call is about a phone.
CallHasPhone == \A c \in Calls : pc[c] # "idle" => phone[c] \in Phones

\* Wallets belong to users, and who is about to insert a wallet has inserted
\* its user, whom the unique index admits once.
SoleCreator ==
    /\ wallets \subseteq users
    /\ \A c \in Calls : At(c, "createWallet") => phone[c] \in users \ wallets
    /\ \A c, d \in Calls :
         At(c, "createWallet") /\ At(d, "createWallet") /\ phone[c] = phone[d] => c = d

\* A phone with a delete under way is not safe.
DeleteUnsafe == \A c \in Calls : At(c, "delSession") => phone[c] \notin safe

RegistrationInvariant ==
    /\ TypeOK
    /\ CallHasPhone
    /\ SoleCreator
    /\ DeleteUnsafe
    /\ CodeStays

\* What OneTimeCode misses: a verify that compares its code while another is
\* yet to delete that session.
LateCompare ==
    \E c, d \in Calls, p \in Phones, code \in Codes :
        VerifyOtp(c, p, code) /\ Matches(p, code) /\ At(d, "delSession") /\ phone[d] = p

\* A code that was used is gone, or about to be deleted.
UsedIsDeleted ==
    \A p \in Phones : uses[p] > 0 =>
        uses[p] = 1 /\ (ttl[p] = 0 \/ \E c \in Calls : At(c, "delSession") /\ phone[c] = p)

-----------------------------------------------------------------------------
LEMMA InitRegistration == Init => RegistrationInvariant
  BY RegistrationAssumption
     DEF Init, RegistrationInvariant, TypeOK, CallHasPhone, SoleCreator, DeleteUnsafe, CodeStays,
         At, Operations, Answers, UsesBound

\* A call that arrives is about the phone its spelling stands for.
LEMMA ArrivalPhone ==
  ASSUME NEW spelling \in Spellings
  PROVE  Normalize(spelling) \in Phones
  BY DEF Phones

LEMMA RequestOtpStep ==
  ASSUME RegistrationInvariant, NEW c \in Calls, NEW p \in Phones, NEW code \in Codes,
         RequestOtp(c, p, code)
  PROVE  RegistrationInvariant'
<1> USE DEF RegistrationInvariant, At
<1>1. TypeOK'
  BY RegistrationAssumption DEF RequestOtp, Start, TypeOK, Operations, Answers, UsesBound, OtpLife, database
<1>2. CallHasPhone' /\ SoleCreator'
  BY DEF RequestOtp, Start, TypeOK, CallHasPhone, SoleCreator, database
<1>3. DeleteUnsafe'
  BY DEF RequestOtp, Start, TypeOK, DeleteUnsafe
<1>4. CodeStays'
  BY RegistrationAssumption DEF RequestOtp, TypeOK, CodeStays, OtpLife
<1> QED BY <1>1, <1>2, <1>3, <1>4

LEMMA VerifyOtpStep ==
  ASSUME RegistrationInvariant, NEW c \in Calls, NEW p \in Phones, NEW code \in Codes,
         VerifyOtp(c, p, code)
  PROVE  RegistrationInvariant'
<1> USE DEF RegistrationInvariant, At
<1>1. TypeOK'
  BY DEF VerifyOtp, Start, Answer, TypeOK, Operations, Answers, UsesBound, database, history
<1>2. CallHasPhone' /\ SoleCreator'
  BY DEF VerifyOtp, Start, Answer, TypeOK, CallHasPhone, SoleCreator, database
<1>3. DeleteUnsafe' /\ CodeStays'
  BY DEF VerifyOtp, Start, Answer, TypeOK, DeleteUnsafe, CodeStays, history
<1> QED BY <1>1, <1>2, <1>3

\* What a running call does next.
LEMMA StepRegistration ==
  ASSUME RegistrationInvariant, NEW c \in Calls, Step(c)
  PROVE  RegistrationInvariant'
<1> USE DEF RegistrationInvariant, TypeOK, CallHasPhone, SoleCreator, DeleteUnsafe, CodeStays,
        At, Continue, Answer, Operations, Answers, database, history
<1>1. CASE SendCode(c)          BY <1>1 DEF SendCode
<1>2. CASE DelSession(c)        BY <1>2, RegistrationAssumption DEF DelSession
<1>3. CASE FindByPhoneNumber(c) BY <1>3 DEF FindByPhoneNumber
<1>4. CASE CreateUser(c)        BY <1>4 DEF CreateUser
<1>5. CASE CreateWallet(c)      BY <1>5 DEF CreateWallet
<1>6. CASE IssueTokens(c)       BY <1>6 DEF IssueTokens
<1> QED BY <1>1, <1>2, <1>3, <1>4, <1>5, <1>6 DEF Step

LEMMA FailRegistration ==
  ASSUME RegistrationInvariant, NEW c \in Calls, Fail(c)
  PROVE  RegistrationInvariant'
  BY DEF Fail, Answer, RegistrationInvariant, TypeOK, CallHasPhone, SoleCreator, DeleteUnsafe,
     CodeStays, At, Operations, Answers, database, history

LEMMA TickRegistration ==
  ASSUME RegistrationInvariant, Tick
  PROVE  RegistrationInvariant'
  BY RegistrationAssumption
     DEF Tick, Older, RegistrationInvariant, TypeOK, CallHasPhone, SoleCreator, DeleteUnsafe,
     CodeStays, At

LEMMA NextRegistration == RegistrationInvariant /\ [Next]_vars => RegistrationInvariant'
<1> SUFFICES ASSUME RegistrationInvariant, [Next]_vars
             PROVE  RegistrationInvariant'
  OBVIOUS
<1>1. ASSUME NEW c \in Calls, NEW spelling \in Spellings, NEW code \in Codes,
             \/ RequestOtp(c, Normalize(spelling), code)
             \/ VerifyOtp(c, Normalize(spelling), code)
      PROVE  RegistrationInvariant'
  BY <1>1, ArrivalPhone, RequestOtpStep, VerifyOtpStep
<1>2. ASSUME NEW c \in Calls, Step(c) PROVE RegistrationInvariant'
  BY <1>2, StepRegistration
<1>3. ASSUME NEW c \in Calls, Fail(c) PROVE RegistrationInvariant'
  BY <1>3, FailRegistration
<1>4. CASE Tick
  BY <1>4, TickRegistration
<1>5. CASE UNCHANGED vars
  BY <1>5 DEF vars, RegistrationInvariant, TypeOK, CallHasPhone, SoleCreator, DeleteUnsafe,
     CodeStays, At
<1> QED BY <1>1, <1>2, <1>3, <1>4, <1>5 DEF Next

\* Phones, users, wallets and the two histories fit together in every reachable
\* state, for any phones, codes and overlapping calls and any set of faults.
THEOREM RegistrationCorrect == Spec => []RegistrationInvariant
  BY InitRegistration, NextRegistration, PTL DEF Spec

\* Every variable of requestOtp and verifyOtp keeps its type.
THEOREM RegistrationTypes == Spec => []TypeOK
<1>1. RegistrationInvariant => TypeOK
  BY DEF RegistrationInvariant
<1> QED BY <1>1, RegistrationCorrect, PTL

\* At most one verify of a phone is ever about to insert its wallet, and the
\* user row is there and has none yet: the unique index on phone_number is all
\* that wallets.user_id needs.
THEOREM OneCreatorOnly == Spec => []OneWalletCreator
<1>1. ASSUME RegistrationInvariant, NEW p \in Phones
      PROVE  LET creators == {c \in Calls : phone[c] = p /\ At(c, "createWallet")} IN
             /\ Cardinality(creators) <= 1
             /\ creators # {} => p \in users \ wallets
  <2> DEFINE creators == {c \in Calls : phone[c] = p /\ At(c, "createWallet")}
  <2>1. creators = {} \/ \E c \in Calls : creators = {c}
    BY <1>1 DEF RegistrationInvariant, SoleCreator
  <2>2. Cardinality(creators) \in {0, 1}
    BY <2>1, FS_EmptySet, FS_Singleton
  <2>3. creators # {} => p \in users \ wallets
    BY <1>1 DEF RegistrationInvariant, SoleCreator
  <2> QED BY <2>2, <2>3
<1>2. RegistrationInvariant => OneWalletCreator
  BY <1>1 DEF OneWalletCreator
<1> QED BY <1>2, RegistrationCorrect, PTL

\* Calls that are late, fail or die while they find or create the user never
\* take a resent code away.
THEOREM ResentCodeStays == Spec => []CodeStays
<1>1. RegistrationInvariant => CodeStays
  BY DEF RegistrationInvariant
<1> QED BY <1>1, RegistrationCorrect, PTL

-----------------------------------------------------------------------------
(* A user without a wallet.                                                 *)

WalletInsertReliable == "createWallet" \notin Faults

LEMMA NextWalletless ==
  ASSUME WalletInsertReliable, RegistrationInvariant, WalletlessHasCreator, [Next]_vars
  PROVE  WalletlessHasCreator'
<1> USE DEF RegistrationInvariant, TypeOK, CallHasPhone, WalletlessHasCreator, At
<1>1. ASSUME NEW c \in Calls, NEW spelling \in Spellings, NEW code \in Codes,
             \/ RequestOtp(c, Normalize(spelling), code)
             \/ VerifyOtp(c, Normalize(spelling), code)
      PROVE  WalletlessHasCreator'
  BY <1>1 DEF RequestOtp, VerifyOtp, Start, Answer, database
<1>2. ASSUME NEW c \in Calls, Step(c) PROVE WalletlessHasCreator'
  <2> USE DEF Continue, Answer, database
  <2>1. CASE SendCode(c)          BY <2>1 DEF SendCode
  <2>2. CASE DelSession(c)        BY <2>2 DEF DelSession
  <2>3. CASE FindByPhoneNumber(c) BY <2>3 DEF FindByPhoneNumber
  <2>4. CASE CreateUser(c)        BY <2>4 DEF CreateUser
  <2>5. CASE CreateWallet(c)      BY <2>5 DEF CreateWallet
  <2>6. CASE IssueTokens(c)       BY <2>6 DEF IssueTokens
  <2> QED BY <1>2, <2>1, <2>2, <2>3, <2>4, <2>5, <2>6 DEF Step
<1>3. ASSUME NEW c \in Calls, Fail(c) PROVE WalletlessHasCreator'
  BY <1>3 DEF WalletInsertReliable, Fail, Answer, database
<1>4. CASE Tick
  BY <1>4 DEF Tick
<1>5. CASE UNCHANGED vars
  BY <1>5 DEF vars
<1> QED BY <1>1, <1>2, <1>3, <1>4, <1>5 DEF Next

\* Where the wallet's insert cannot fail, every user without a wallet has the
\* one call at work that creates it, whatever else fails or is answered first.
THEOREM WalletOnItsWay == WalletInsertReliable /\ Spec => []WalletlessHasCreator
<1>1. Init => WalletlessHasCreator
  BY DEF Init, WalletlessHasCreator
<1>2. WalletInsertReliable /\ RegistrationInvariant /\ WalletlessHasCreator /\ [Next]_vars
        => WalletlessHasCreator'
  BY NextWalletless
<1>3. WalletInsertReliable => WalletInsertReliable'
  BY DEF WalletInsertReliable
<1> QED BY <1>1, <1>2, <1>3, RegistrationCorrect, PTL DEF Spec

-----------------------------------------------------------------------------
(* One login per code, and what it takes.                                   *)

DeleteReliable == "delSession" \notin Faults

LEMMA NextUsed ==
  ASSUME DeleteReliable, RegistrationInvariant, UsedIsDeleted, [Next]_vars, [~LateCompare]_vars
  PROVE  UsedIsDeleted'
<1> USE DEF RegistrationInvariant, TypeOK, CallHasPhone, UsedIsDeleted, At
<1>1. ASSUME NEW c \in Calls, NEW p \in Phones, NEW code \in Codes, RequestOtp(c, p, code)
      PROVE  UsedIsDeleted'
  BY <1>1 DEF RequestOtp, Start
<1>2. ASSUME NEW c \in Calls, NEW p \in Phones, NEW code \in Codes, VerifyOtp(c, p, code)
      PROVE  UsedIsDeleted'
  <2>1. CASE Matches(p, code)
    <3>1. \A d \in Calls : At(d, "delSession") => phone[d] # p
      <4>1. pc' # pc
        BY <1>2, <2>1 DEF VerifyOtp, Start
      <4> QED BY <1>2, <2>1, <4>1 DEF LateCompare, vars
    <3>2. ttl[p] > 0 /\ uses[p] = 0
      BY <2>1, <3>1 DEF Matches, UsesBound
    <3> QED BY <1>2, <2>1, <3>1, <3>2 DEF VerifyOtp, Start, UsesBound
  <2>2. CASE ~Matches(p, code)
    BY <1>2, <2>2 DEF VerifyOtp, Answer, history
  <2> QED BY <2>1, <2>2
<1>3. ASSUME NEW c \in Calls, Step(c) PROVE UsedIsDeleted'
  BY <1>3 DEF Step, SendCode, DelSession, FindByPhoneNumber, CreateUser, CreateWallet, IssueTokens,
              Continue, Answer, history
<1>4. ASSUME NEW c \in Calls, Fail(c) PROVE UsedIsDeleted'
  BY <1>4 DEF Fail, Answer, history, DeleteReliable
<1>5. CASE Tick
  BY <1>5 DEF Tick, Older, history
<1>6. CASE UNCHANGED vars
  BY <1>6 DEF vars
<1>7. ASSUME NEW c \in Calls, NEW spelling \in Spellings, NEW code \in Codes,
             \/ RequestOtp(c, Normalize(spelling), code)
             \/ VerifyOtp(c, Normalize(spelling), code)
      PROVE  UsedIsDeleted'
  BY <1>1, <1>2, <1>7, ArrivalPhone
<1> QED BY <1>3, <1>4, <1>5, <1>6, <1>7 DEF Next

\* The one way to log in twice with one code, as long as the delete itself does
\* not fail: to compare it between the comparison and the delete of another
\* verify.  Without such a step a stored code admits one verify.
THEOREM CodeUsedOnce == DeleteReliable /\ Spec /\ [][~LateCompare]_vars => []OneTimeCode
<1>1. Init => UsedIsDeleted
  BY DEF Init, UsedIsDeleted
<1>2. DeleteReliable /\ RegistrationInvariant /\ UsedIsDeleted /\ [Next]_vars /\ [~LateCompare]_vars
        => UsedIsDeleted'
  BY NextUsed
<1>3. RegistrationInvariant /\ UsedIsDeleted => OneTimeCode
  BY DEF RegistrationInvariant, TypeOK, UsedIsDeleted, OneTimeCode, UsesBound
<1>4. DeleteReliable => []DeleteReliable
  <2>1. DeleteReliable => DeleteReliable'
    BY DEF DeleteReliable
  <2> QED BY <2>1, PTL
<1> QED BY <1>1, <1>2, <1>3, <1>4, RegistrationCorrect, PTL DEF Spec

=============================================================================
