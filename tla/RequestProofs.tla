----------------------------- MODULE RequestProofs -----------------------------
(* Three services whose requests overlap at every database call, for any      *)
(* number of requests, buyers, documents, addresses and codes.                *)
(*                                                                            *)
(* None of the properties is inductive.  That an address was proved rests on  *)
(* what each request holds of the challenge it read; that whoever sees a      *)
(* listing's details was let in, on whom each request is about to let in;     *)
(* that a notice says what the row does, on nobody else being at work on that *)
(* row; and the figure of a buyer's funds, on what each request has read of   *)
(* it.                                                                        *)
(*                                                                            *)
(* Last, the types of all four services together.  That the sum of a set of   *)
(* documents is a number is proved from the smallest set of which it is not.  *)
EXTENDS MCServices, ConversationProofs, WellFoundedInduction, TLAPS

--------------------------------------------------------------------------------
(* Changing an address                                                        *)

(* The address a code was sent to, and may be entered for, is the one the row *)
(* held when the code was issued; no code is issued twice.                    *)
CodesBelong ==
  /\ challenge.code \in 0..lastCode
  /\ \A sent \in mailed : sent[1] \in 1..lastCode
  /\ \A sent \in mailed : sent[1] = challenge.code => sent[2] = challenge.pending

(* What each request has read or written of the challenge.                    *)
ClerksKnow ==
  \A c \in Clerks :
    /\ clerks[c].step \in {"write", "mail"} => clerks[c].to \in Addresses
    /\ clerks[c].step = "mail" =>
         /\ clerks[c].code \in 1..lastCode
         /\ clerks[c].code = challenge.code => clerks[c].to = challenge.pending
    /\ clerks[c].step \in {"free", "accept"} => <<clerks[c].code, clerks[c].to>> \in mailed

CheckInv == CheckTypeOK /\ CodesBelong /\ ClerksKnow /\ AddressWasProved

(* Codes are numbered from one; none is number zero.                          *)
LEMMA CodesAreNumbers == MaxCodes \in Nat /\ Codes = 1..MaxCodes /\ NoCode = 0
  BY AddressCheckAssumption DEF Codes, NoCode

(* The initial states satisfy the inductive invariant.                        *)
LEMMA CheckBegins == CheckInit => CheckInv
<1> SUFFICES ASSUME CheckInit PROVE CheckInv
  OBVIOUS
<1>1. CheckTypeOK
  BY CodesAreNumbers DEF CheckInit, CheckTypeOK, NoChallenge, Challenge, AtRest, Clerk, Ages
<1>2. CodesBelong /\ ClerksKnow
  BY CodesAreNumbers DEF CheckInit, CodesBelong, ClerksKnow, NoChallenge, AtRest
<1>3. QED
  BY <1>1, <1>2 DEF CheckInv, CheckInit, AddressWasProved

(* A request that ends, or goes on with what it holds, leaves what it knows.  *)
LEMMA Served ==
  ASSUME CheckInv, NEW c \in Clerks, NEW record \in Clerk, Serve(c, record),
         UNCHANGED <<challenge, lastCode, mailed>>,
         record.step # "mail", record.step = "write" => record.to \in Addresses,
         record.step \in {"free", "accept"} => <<record.code, record.to>> \in mailed
  PROVE  clerks' \in [Clerks -> Clerk] /\ ClerksKnow' /\ CodesBelong'
<1>1. clerks' \in [Clerks -> Clerk] /\ CodesBelong'
  BY DEF CheckInv, CheckTypeOK, Serve, CodesBelong
<1>2. ASSUME NEW d \in Clerks
      PROVE  clerks'[d] = IF d = c THEN record ELSE clerks[d]
  BY DEF CheckInv, CheckTypeOK, Serve
<1>3. ClerksKnow'
  BY <1>2 DEF CheckInv, ClerksKnow
<1>4. QED
  BY <1>1, <1>3

(* Ending a request.                                                          *)
LEMMA Dismissed ==
  ASSUME CheckInv, NEW c \in Clerks, Dismiss(c), UNCHANGED <<challenge, lastCode, mailed>>
  PROVE  clerks' \in [Clerks -> Clerk] /\ ClerksKnow' /\ CodesBelong'
<1>1. AtRest \in Clerk /\ AtRest.step = "idle"
  BY CodesAreNumbers DEF AtRest, Clerk
<1>2. QED
  BY <1>1, Served DEF Dismiss

(* A request for a code, up to the write of the challenge.                    *)
LEMMA SendCodeStep ==
  ASSUME CheckInv, NEW c \in Clerks, NEW a \in Addresses, SendCode(c, a)
  PROVE  CheckInv'
<1> DEFINE record == [AtRest EXCEPT !.step = "write", !.to = a]
<1>1. record \in Clerk /\ record.step = "write" /\ record.to \in Addresses
  BY CodesAreNumbers DEF AtRest, Clerk
<1>2. /\ Serve(c, record)
      /\ UNCHANGED <<channel, challenge, address, others, lastCode, mailed, provedBy>>
  BY DEF SendCode
<1> HIDE DEF record
<1>3. clerks' \in [Clerks -> Clerk] /\ ClerksKnow' /\ CodesBelong'
  BY <1>1, <1>2, Served
<1>4. QED
  BY <1>2, <1>3 DEF CheckInv, CheckTypeOK, AddressWasProved

(* The challenge is written: its code is newer than whatever anybody knows.   *)
LEMMA WriteChallengeStep ==
  ASSUME CheckInv, NEW c \in Clerks, WriteChallenge(c)
  PROVE  CheckInv'
<1> DEFINE record == [clerks[c] EXCEPT !.step = "mail", !.code = lastCode']
<1>1. /\ lastCode \in Nat /\ lastCode < MaxCodes /\ lastCode' = lastCode + 1
      /\ challenge' = [pending |-> clerks[c].to, code |-> lastCode', age |-> "new",
                       guesses |-> 0]
      /\ clerks' = [clerks EXCEPT ![c] = record]
      /\ UNCHANGED <<channel, address, others, mailed, provedBy>>
      /\ clerks[c] \in Clerk
  BY CodesAreNumbers DEF CheckInv, CheckTypeOK, WriteChallenge, Serve
<1>2. lastCode' \in 1..MaxCodes
  BY <1>1, CodesAreNumbers
<1>3. /\ record \in Clerk /\ challenge' \in Challenge
      /\ record.step = "mail" /\ record.code = lastCode' /\ record.to = challenge'.pending
  BY <1>1, <1>2, CodesAreNumbers DEF Clerk, Challenge, Ages
<1>4a. record.to \in Addresses
  <2>1. clerks[c].to \in Addresses
    BY DEF CheckInv, ClerksKnow, WriteChallenge
  <2>2. QED
    BY <1>1, <2>1 DEF Clerk
<1>4. challenge'.code = lastCode'
  BY <1>1
<1> HIDE DEF record
<1>5. CheckTypeOK'
  BY <1>1, <1>2, <1>3 DEF CheckInv, CheckTypeOK
<1>6. CodesBelong'
  <2>1. \A sent \in mailed : sent[1] \in 1..lastCode
    BY DEF CheckInv, CodesBelong
  <2>2. \A sent \in mailed : sent[1] \in 1..lastCode' /\ sent[1] # lastCode'
    BY <1>1, <2>1
  <2>3. QED
    BY <1>1, <1>2, <1>4, <2>2 DEF CodesBelong
<1>7. ASSUME NEW d \in Clerks
      PROVE  /\ clerks'[d].step \in {"write", "mail"} => clerks'[d].to \in Addresses
             /\ clerks'[d].step = "mail" =>
                  /\ clerks'[d].code \in 1..lastCode'
                  /\ clerks'[d].code = challenge'.code => clerks'[d].to = challenge'.pending
             /\ clerks'[d].step \in {"free", "accept"} =>
                  <<clerks'[d].code, clerks'[d].to>> \in mailed
  <2>1. CASE d = c
    <3>1. clerks'[d] = record
      BY <1>1, <2>1 DEF CheckInv, CheckTypeOK
    <3>2. lastCode' \in 1..lastCode'
      BY <1>2
    <3>3. QED
      BY <1>3, <1>4a, <3>1, <3>2
  <2>2. CASE d # c
    <3>1. clerks'[d] = clerks[d]
      BY <1>1, <2>2 DEF CheckInv, CheckTypeOK
    <3>2. clerks[d].step = "mail" => clerks[d].code \in 1..lastCode
      BY DEF CheckInv, ClerksKnow
    <3>3. clerks[d].step = "mail" => clerks[d].code \in 1..lastCode' /\ clerks[d].code # lastCode'
      BY <1>1, <3>2
    <3>4. QED
      BY <1>4, <3>1, <3>3 DEF CheckInv, ClerksKnow
  <2>3. QED
    BY <2>1, <2>2
<1>8. ClerksKnow'
  BY <1>1, <1>7 DEF ClerksKnow
<1>9. QED
  BY <1>1, <1>5, <1>6, <1>8 DEF CheckInv, AddressWasProved

(* The code goes to the address it was issued for, or it does not go at all.  *)
LEMMA MailStep ==
  ASSUME CheckInv, NEW c \in Clerks, Mail(c)
  PROVE  CheckInv'
<1> DEFINE sent == <<clerks[c].code, clerks[c].to>>
<1>1. /\ clerks[c] \in Clerk /\ clerks[c].code \in 1..lastCode
      /\ clerks[c].code = challenge.code => clerks[c].to = challenge.pending
      /\ UNCHANGED <<channel, challenge, address, others, lastCode, provedBy>>
  BY DEF CheckInv, CheckTypeOK, ClerksKnow, Mail
<1>2. CASE mailed' = mailed \cup {sent} /\ Dismiss(c)
  <2>1. AtRest \in Clerk /\ AtRest.step = "idle" /\ clerks' = [clerks EXCEPT ![c] = AtRest]
    BY <1>2, CodesAreNumbers DEF AtRest, Clerk, Dismiss, Serve
  <2>2. ClerksKnow' /\ clerks' \in [Clerks -> Clerk]
    BY <1>1, <1>2, <2>1 DEF CheckInv, CheckTypeOK, ClerksKnow
  <2>3. sent[1] = clerks[c].code /\ sent[2] = clerks[c].to
    OBVIOUS
  <2> HIDE DEF sent
  <2>4. CodesBelong'
    BY <1>1, <1>2, <2>3 DEF CheckInv, CodesBelong
  <2>5. mailed' \subseteq Codes \X Addresses
    <3>1. clerks[c].to \in Addresses
      BY DEF CheckInv, ClerksKnow, Mail
    <3>2. clerks[c].code \in Codes /\ mailed \subseteq Codes \X Addresses
      <4>1. clerks[c].code # 0
        BY <1>1
      <4>2. QED
        BY <1>1, <4>1, CodesAreNumbers DEF CheckInv, CheckTypeOK, Clerk
    <3>3. QED
      BY <1>2, <3>1, <3>2 DEF sent
  <2>6. QED
    BY <1>1, <1>2, <2>2, <2>4, <2>5 DEF CheckInv, CheckTypeOK, AddressWasProved
<1>3. CASE Serve(c, [AtRest EXCEPT !.step = "clear"]) /\ UNCHANGED mailed
  <2> DEFINE record == [AtRest EXCEPT !.step = "clear"]
  <2>1. record \in Clerk /\ record.step = "clear"
    BY CodesAreNumbers DEF AtRest, Clerk
  <2>2. Serve(c, record)
    BY <1>3
  <2> HIDE DEF record
  <2>3. clerks' \in [Clerks -> Clerk] /\ ClerksKnow' /\ CodesBelong'
    BY <1>1, <1>3, <2>1, <2>2, Served
  <2>4. QED
    BY <1>1, <1>3, <2>3 DEF CheckInv, CheckTypeOK, AddressWasProved
<1>4. QED
  BY <1>2, <1>3 DEF Mail

(* Withdrawing a code leaves no code to belong to anybody.                    *)
LEMMA ClearChallengeStep ==
  ASSUME CheckInv, NEW c \in Clerks, ClearChallenge(c)
  PROVE  CheckInv'
<1>1. /\ challenge \in Challenge
      /\ challenge' = [NoChallenge EXCEPT !.pending = challenge.pending]
      /\ clerks' = [clerks EXCEPT ![c] = AtRest]
      /\ UNCHANGED <<channel, address, others, lastCode, mailed, provedBy>>
  BY DEF CheckInv, CheckTypeOK, ClearChallenge, Dismiss, Serve
<1>2. /\ challenge' \in Challenge /\ challenge'.code = 0
      /\ AtRest \in Clerk /\ AtRest.step = "idle"
  BY <1>1, CodesAreNumbers DEF NoChallenge, Challenge, AtRest, Clerk
<1>3. CheckTypeOK'
  BY <1>1, <1>2 DEF CheckInv, CheckTypeOK
<1>4. lastCode \in Nat /\ \A sent \in mailed : sent[1] \in 1..lastCode
  BY CodesAreNumbers DEF CheckInv, CheckTypeOK, CodesBelong
<1>5. CodesBelong'
  BY <1>1, <1>2, <1>4 DEF CodesBelong
<1>6. ASSUME NEW d \in Clerks, clerks[d].step = "mail"
      PROVE  clerks[d].code # 0
  <2>1. clerks[d].code \in 1..lastCode
    BY <1>6 DEF CheckInv, ClerksKnow
  <2>2. QED
    BY <1>4, <2>1
<1>7. ClerksKnow'
  BY <1>1, <1>2, <1>6 DEF CheckInv, CheckTypeOK, ClerksKnow
<1>8. QED
  BY <1>1, <1>3, <1>5, <1>7 DEF CheckInv, AddressWasProved

(* A code that is right was sent to the address that is pending.              *)
LEMMA VerifyCodeStep ==
  ASSUME CheckInv, NEW c \in Clerks, NEW guess \in Entered, VerifyCode(c, guess)
  PROVE  CheckInv'
<1> DEFINE over == [AtRest EXCEPT !.step = "clear"]
           missed == [AtRest EXCEPT !.step = "miss", !.guesses = challenge.guesses + 1]
           right == [AtRest EXCEPT !.step = IF channel = "email" THEN "free" ELSE "accept",
                                   !.to = challenge.pending, !.code = challenge.code]
<1>1. /\ challenge \in Challenge /\ challenge.code # NoCode /\ challenge.pending # NoAddress
      /\ UNCHANGED <<channel, challenge, address, others, lastCode, mailed, provedBy>>
  BY DEF CheckInv, CheckTypeOK, VerifyCode
<1>2. challenge.guesses \in Nat /\ challenge.guesses + 1 \in Nat
  BY <1>1 DEF Challenge
<1>3. \/ Serve(c, over)
      \/ Serve(c, missed)
      \/ Serve(c, right) /\ guess = challenge.code
  <2>1. CASE challenge.age = "expired" \/ challenge.guesses >= MaxGuesses
    BY <2>1 DEF VerifyCode
  <2>2. CASE ~(challenge.age = "expired" \/ challenge.guesses >= MaxGuesses)
    <3>1. challenge.age # "expired" /\ challenge.guesses < MaxGuesses
      BY <1>2, <2>2, AddressCheckAssumption
    <3>2. CASE guess # challenge.code
      BY <2>2, <3>1, <3>2 DEF VerifyCode
    <3>3. CASE guess = challenge.code
      BY <2>2, <3>1, <3>3 DEF VerifyCode
    <3>4. QED
      BY <3>2, <3>3
  <2>3. QED
    BY <2>1, <2>2
<1>4. over \in Clerk /\ over.step = "clear"
  BY CodesAreNumbers DEF AtRest, Clerk
<1>5. missed \in Clerk /\ missed.step = "miss"
  BY <1>2, CodesAreNumbers DEF AtRest, Clerk
<1>6. /\ right \in Clerk /\ right.step \in {"free", "accept"}
      /\ right.code = challenge.code /\ right.to = challenge.pending
  BY <1>1 DEF AtRest, Clerk, Challenge, CheckInv, CheckTypeOK
<1>7. guess = challenge.code => <<challenge.code, challenge.pending>> \in mailed
  <2> SUFFICES ASSUME guess = challenge.code
               PROVE  <<challenge.code, challenge.pending>> \in mailed
    OBVIOUS
  <2>1. PICK sent \in mailed : sent[1] = guess
    BY <1>1 DEF Entered
  <2>2. sent = <<sent[1], sent[2]>>
    BY DEF CheckInv, CheckTypeOK
  <2>3. sent[2] = challenge.pending
    BY <2>1 DEF CheckInv, CodesBelong
  <2>4. QED
    BY <2>1, <2>2, <2>3
<1> HIDE DEF over, missed, right
<1>8. clerks' \in [Clerks -> Clerk] /\ ClerksKnow' /\ CodesBelong'
  BY <1>1, <1>3, <1>4, <1>5, <1>6, <1>7, Served
<1>9. QED
  BY <1>1, <1>8 DEF CheckInv, CheckTypeOK, AddressWasProved

(* A wrong guess, or time, changes neither the code nor the address.          *)
LEMMA SameCode ==
  ASSUME CheckInv, challenge' \in Challenge, challenge'.code = challenge.code,
         challenge'.pending = challenge.pending, UNCHANGED <<lastCode, mailed>>
  PROVE  CodesBelong'
  BY DEF CheckInv, CodesBelong

(* A wrong guess, counted over whatever was counted since, keeps it.          *)
LEMMA MissStep ==
  ASSUME CheckInv, NEW c \in Clerks, Miss(c)
  PROVE  CheckInv'
<1>1. /\ challenge \in Challenge /\ clerks[c].guesses \in Nat
      /\ challenge' = [challenge EXCEPT !.guesses = clerks[c].guesses]
      /\ clerks' = [clerks EXCEPT ![c] = AtRest]
      /\ UNCHANGED <<channel, address, others, lastCode, mailed, provedBy>>
  BY DEF CheckInv, CheckTypeOK, Miss, Dismiss, Serve, Clerk
<1>2. /\ challenge' \in Challenge
      /\ challenge'.code = challenge.code /\ challenge'.pending = challenge.pending
  BY <1>1 DEF Challenge
<1>3. AtRest \in Clerk /\ AtRest.step = "idle"
  BY CodesAreNumbers DEF AtRest, Clerk
<1>4. CodesBelong'
  BY <1>1, <1>2, SameCode
<1>5. ClerksKnow' /\ clerks' \in [Clerks -> Clerk]
  BY <1>1, <1>2, <1>3 DEF CheckInv, CheckTypeOK, ClerksKnow
<1>6. QED
  BY <1>1, <1>2, <1>4, <1>5 DEF CheckInv, CheckTypeOK, AddressWasProved

(* The age of a code says nothing of where it went.                           *)
LEMMA CodeAgesStep ==
  ASSUME CheckInv, CodeAges
  PROVE  CheckInv'
<1>1. /\ challenge \in Challenge
      /\ challenge' = [challenge EXCEPT !.age =
           IF challenge.age = "new" THEN "old" ELSE "expired"]
      /\ UNCHANGED <<channel, address, others, clerks, lastCode, mailed, provedBy>>
  BY DEF CheckInv, CheckTypeOK, CodeAges
<1>2. /\ challenge' \in Challenge
      /\ challenge'.code = challenge.code /\ challenge'.pending = challenge.pending
  BY <1>1 DEF Challenge, Ages
<1>3. CodesBelong'
  BY <1>1, <1>2, SameCode
<1>4. QED
  BY <1>1, <1>2, <1>3 DEF CheckInv, CheckTypeOK, ClerksKnow, AddressWasProved

(* The address is still nobody else's, or the request ends.                   *)
LEMMA AssertFreeStep ==
  ASSUME CheckInv, NEW c \in Clerks, AssertFree(c)
  PROVE  CheckInv'
<1> DEFINE record == [clerks[c] EXCEPT !.step = "accept"]
<1>1. /\ UNCHANGED <<channel, challenge, address, others, lastCode, mailed, provedBy>>
      /\ Dismiss(c) \/ Serve(c, record)
  BY DEF AssertFree
<1>2. /\ record \in Clerk /\ record.step = "accept"
      /\ record.code = clerks[c].code /\ record.to = clerks[c].to
  BY DEF CheckInv, CheckTypeOK, Clerk
<1>3. <<clerks[c].code, clerks[c].to>> \in mailed
  BY DEF CheckInv, ClerksKnow, AssertFree
<1> HIDE DEF record
<1>4. clerks' \in [Clerks -> Clerk] /\ ClerksKnow' /\ CodesBelong'
  BY <1>1, <1>2, <1>3, Served, Dismissed
<1>5. QED
  BY <1>1, <1>4 DEF CheckInv, CheckTypeOK, AddressWasProved

(* The address that is accepted is the one the code it was asked with went    *)
(* to.                                                                        *)
LEMMA AcceptStep ==
  ASSUME CheckInv, NEW c \in Clerks, Accept(c)
  PROVE  CheckInv'
<1>1. /\ address' = clerks[c].to /\ provedBy' = clerks[c].code /\ challenge' = NoChallenge
      /\ clerks' = [clerks EXCEPT ![c] = AtRest]
      /\ UNCHANGED <<channel, others, lastCode, mailed>>
      /\ <<clerks[c].code, clerks[c].to>> \in mailed
  BY DEF CheckInv, ClerksKnow, Accept, Accepted, Dismiss, Serve
<1>2. clerks[c].code \in Codes /\ clerks[c].to \in Addresses
  BY <1>1 DEF CheckInv, CheckTypeOK
<1>3. /\ NoChallenge \in Challenge /\ NoChallenge.code = 0
      /\ AtRest \in Clerk /\ AtRest.step = "idle"
  BY CodesAreNumbers DEF NoChallenge, Challenge, AtRest, Clerk
<1>4. CheckTypeOK'
  BY <1>1, <1>2, <1>3 DEF CheckInv, CheckTypeOK
<1>5. lastCode \in Nat /\ \A sent \in mailed : sent[1] \in 1..lastCode
  BY CodesAreNumbers DEF CheckInv, CheckTypeOK, CodesBelong
<1>6. CodesBelong'
  BY <1>1, <1>3, <1>5 DEF CodesBelong
<1>7. ASSUME NEW d \in Clerks, clerks[d].step = "mail"
      PROVE  clerks[d].code # 0
  <2>1. clerks[d].code \in 1..lastCode
    BY <1>7 DEF CheckInv, ClerksKnow
  <2>2. QED
    BY <1>5, <2>1
<1>8. ClerksKnow'
  BY <1>1, <1>3, <1>7 DEF CheckInv, CheckTypeOK, ClerksKnow
<1>9. QED
  BY <1>1, <1>4, <1>6, <1>8 DEF CheckInv, AddressWasProved

(* A form that is saved holds no code.                                        *)
LEMMA SaveFormStep ==
  ASSUME CheckInv, NEW c \in Clerks, NEW a \in Addresses \cup {NoAddress}, SaveForm(c, a)
  PROVE  CheckInv'
<1> DEFINE record == [AtRest EXCEPT !.step = "form", !.to = a]
<1>1. record \in Clerk /\ record.step = "form"
  BY CodesAreNumbers DEF AtRest, Clerk
<1>2. /\ Serve(c, record)
      /\ UNCHANGED <<channel, challenge, address, others, lastCode, mailed, provedBy>>
  BY DEF SaveForm
<1> HIDE DEF record
<1>3. clerks' \in [Clerks -> Clerk] /\ ClerksKnow' /\ CodesBelong'
  BY <1>1, <1>2, Served
<1>4. QED
  BY <1>2, <1>3 DEF CheckInv, CheckTypeOK, AddressWasProved

(* What the form wrote is proved by no code, unless it is what there was.     *)
LEMMA UpdateUserStep ==
  ASSUME CheckInv, NEW c \in Clerks, UpdateUser(c)
  PROVE  CheckInv'
<1>1. /\ address' = clerks[c].to
      /\ provedBy' = IF address' = address THEN provedBy ELSE NoCode
      /\ Dismiss(c)
      /\ UNCHANGED <<channel, challenge, others, lastCode, mailed>>
  BY DEF UpdateUser
<1>2. clerks' \in [Clerks -> Clerk] /\ ClerksKnow' /\ CodesBelong'
  BY <1>1, Dismissed
<1>3. address' \in Addresses \cup {NoAddress} /\ provedBy' \in Codes \cup {NoCode}
  BY <1>1 DEF CheckInv, CheckTypeOK, Clerk
<1>4. QED
  BY <1>1, <1>2, <1>3 DEF CheckInv, CheckTypeOK, AddressWasProved

(* Every step of a request keeps the inductive invariant.                     *)
LEMMA CheckStep == CheckInv /\ [CheckNext]_checkVars => CheckInv'
<1> SUFFICES ASSUME CheckInv, [CheckNext]_checkVars PROVE CheckInv'
  OBVIOUS
<1>1. CASE UNCHANGED checkVars
  BY <1>1 DEF checkVars, CheckInv, CheckTypeOK, CodesBelong, ClerksKnow, AddressWasProved
<1>2. ASSUME NEW c \in Clerks, NEW a \in Addresses, SendCode(c, a) PROVE CheckInv'
  BY <1>2, SendCodeStep
<1>3. ASSUME NEW c \in Clerks, NEW guess \in Entered, VerifyCode(c, guess) PROVE CheckInv'
  BY <1>3, VerifyCodeStep
<1>4. ASSUME NEW c \in Clerks, WriteChallenge(c) PROVE CheckInv'
  BY <1>4, WriteChallengeStep
<1>5. ASSUME NEW c \in Clerks, Mail(c) PROVE CheckInv'
  BY <1>5, MailStep
<1>6. ASSUME NEW c \in Clerks, ClearChallenge(c) PROVE CheckInv'
  BY <1>6, ClearChallengeStep
<1>7. ASSUME NEW c \in Clerks, Miss(c) PROVE CheckInv'
  BY <1>7, MissStep
<1>8. ASSUME NEW c \in Clerks, AssertFree(c) PROVE CheckInv'
  BY <1>8, AssertFreeStep
<1>9. ASSUME NEW c \in Clerks, Accept(c) PROVE CheckInv'
  BY <1>9, AcceptStep
<1>10. ASSUME NEW c \in Clerks, GiveUp(c) PROVE CheckInv'
  <2>1. clerks' \in [Clerks -> Clerk] /\ ClerksKnow' /\ CodesBelong'
    BY <1>10, Dismissed DEF GiveUp
  <2>2. QED
    BY <1>10, <2>1 DEF GiveUp, CheckInv, CheckTypeOK, AddressWasProved
<1>11. ASSUME NEW a \in Addresses, OtherTakes(a) PROVE CheckInv'
  BY <1>11 DEF OtherTakes, CheckInv, CheckTypeOK, CodesBelong, ClerksKnow, AddressWasProved
<1>12. CASE CodeAges
  BY <1>12, CodeAgesStep
<1>13. ASSUME NEW c \in Clerks, NEW a \in Addresses \cup {NoAddress}, SaveForm(c, a)
       PROVE  CheckInv'
  BY <1>13, SaveFormStep
<1>14. ASSUME NEW c \in Clerks, UpdateUser(c) PROVE CheckInv'
  BY <1>14, UpdateUserStep
<1>15. QED
  BY <1>1, <1>2, <1>3, <1>4, <1>5, <1>6, <1>7, <1>8, <1>9, <1>10, <1>11, <1>12, <1>13, <1>14
     DEF CheckNext

(* An address that a code made the account's is the one this code was sent    *)
(* to, for any number of addresses, codes, guesses and requests at once,      *)
(* whatever mail fails, whatever request stops and whatever the account's     *)
(* form writes meanwhile.                                                     *)
THEOREM AddressProved == CheckSpec => [](CheckTypeOK /\ AddressWasProved)
<1>1. CheckSpec => []CheckInv
  BY CheckBegins, CheckStep, PTL DEF CheckSpec
<1>2. CheckInv => CheckTypeOK /\ AddressWasProved
  BY DEF CheckInv
<1>3. QED
  BY <1>1, <1>2, PTL

--------------------------------------------------------------------------------
(* Who sees a listing's details                                               *)

(* Whoever is about to be let in counts as let in already.                    *)
LetInFirst == LetInBySomeone /\ \A d \in Desks : LettingIn(d) \subseteq letIn

(* The last notice n says how a buyer's row stands.                           *)
Says(row, n, free) ==
  /\ row = "PENDING" => n = "REQUESTED"
  /\ row = "DECLINED" => n = "DECLINED"
  /\ row = "APPROVED" /\ ~free => n = "APPROVED"

(* What a request at work on a buyer has left to say.                         *)
Knows(desk, row, n, free) ==
  /\ desk.step \in {"room", "request", "open", "before", "approve"} => Says(row, n, free)
  /\ desk.step = "request" => desk.silent = (row = "PENDING") /\ row \in {"none", "PENDING"}
  /\ desk.step = "approve" => desk.silent = (row = "APPROVED")
  /\ desk.step = "tell" => Says(row, desk.told, FALSE)

(* For a buyer whom the request is not serving yet, or no longer, all is      *)
(* said.                                                                      *)
Fits(desk, b, row, n, free) ==
  IF b \in desk.buyer THEN Knows(desk, row, n, free) ELSE Says(row, n, free)

AboutBuyers(desk) == desk.buyer \cup desk.todo

(* A request serves one buyer at a time, and none while it waits or writes.   *)
OneServed(desk) ==
  /\ desk.step \in {"idle", "sweep", "write", "list"} => desk.buyer = {}
  /\ desk.step \in {"idle", "sweep", "write"} => desk.todo = {}
  /\ desk.buyer \cap desk.todo = {}
  /\ \A b, c \in desk.buyer : b = c

NobodyElse(d, b) == \A e \in Desks \ {d} : b \notin AboutBuyers(desks[e])

SaysAll(b) == Says(access[b], notice[b], b \in unvetted)

AllFit ==
  /\ \A d \in Desks : OneServed(desks[d])
  /\ \A b \in Buyers \ crossed :
       /\ \A d \in Desks : b \in AboutBuyers(desks[d]) =>
            NobodyElse(d, b) /\ Fits(desks[d], b, access[b], notice[b], b \in unvetted)
       /\ (\A d \in Desks : b \notin AboutBuyers(desks[d])) => SaysAll(b)

AccessInv == AccessTypeOK /\ LetInFirst /\ AllFit

(* The initial states satisfy the inductive invariant.                        *)
LEMMA AccessBegins == AccessInit => AccessInv
<1> SUFFICES ASSUME AccessInit PROVE AccessInv
  OBVIOUS
<1>1. Free \in Desk /\ OneServed(Free) /\ AboutBuyers(Free) = {} /\ Free.step = "idle"
      /\ Free.todo = {}
  BY DEF Free, Desk, Kinds, OneServed, AboutBuyers
<1>2. \A d \in Desks : desks[d] = Free
  BY DEF AccessInit
<1>3. AccessTypeOK
  BY <1>1 DEF AccessInit, AccessTypeOK, Status, Kinds
<1>4. LetInFirst
  BY <1>1, <1>2 DEF AccessInit, LetInFirst, LetInBySomeone, LettingIn
<1>5. AllFit
  BY <1>1, <1>2 DEF AccessInit, AllFit, NobodyElse, SaysAll, Says
<1>6. QED
  BY <1>3, <1>4, <1>5 DEF AccessInv

(* One request goes a step on, with the buyers it is at work on, who are      *)
(* nobody else's, and perhaps their rows: then everything still fits.         *)
LEMMA DeskMoved ==
  ASSUME AccessInv, NEW d \in Desks, NEW desk, OneServed(desk),
         desks' = [desks EXCEPT ![d] = desk],
         crossed \subseteq crossed',
         \A b \in Buyers \ crossed' :
           IF b \in AboutBuyers(desks[d]) \cup AboutBuyers(desk)
             THEN /\ NobodyElse(d, b)
                  /\ Fits(desk, b, access'[b], notice'[b], b \in unvetted')
             ELSE /\ access'[b] = access[b] /\ notice'[b] = notice[b]
                  /\ b \in unvetted' <=> b \in unvetted
  PROVE  AllFit'
<1>1. \A e \in Desks : desks'[e] = IF e = d THEN desk ELSE desks[e]
  BY DEF AccessInv, AccessTypeOK
<1>2. \A e \in Desks : OneServed(desks'[e])
  BY <1>1 DEF AccessInv, AllFit
<1>3. ASSUME NEW b \in Buyers \ crossed'
      PROVE  /\ \A e \in Desks : b \in AboutBuyers(desks'[e]) =>
                  /\ NobodyElse(e, b)'
                  /\ Fits(desks'[e], b, access'[b], notice'[b], b \in unvetted')
             /\ (\A e \in Desks : b \notin AboutBuyers(desks'[e])) => SaysAll(b)'
  <2>1. /\ b \in Buyers \ crossed
        /\ \A e \in Desks : b \in AboutBuyers(desks[e]) =>
             NobodyElse(e, b) /\ Fits(desks[e], b, access[b], notice[b], b \in unvetted)
        /\ (\A e \in Desks : b \notin AboutBuyers(desks[e])) => SaysAll(b)
    BY DEF AccessInv, AllFit
  <2>2. CASE b \in AboutBuyers(desks[d]) \cup AboutBuyers(desk)
    <3>1. /\ \A e \in Desks \ {d} : b \notin AboutBuyers(desks[e])
          /\ Fits(desk, b, access'[b], notice'[b], b \in unvetted')
      BY <2>2 DEF NobodyElse
    <3>2. \A e \in Desks \ {d} : b \notin AboutBuyers(desks'[e])
      BY <1>1, <3>1
    <3>3. \A e \in Desks : b \in AboutBuyers(desks'[e]) => e = d
      BY <3>2
    <3>4. b \notin AboutBuyers(desk) => Says(access'[b], notice'[b], b \in unvetted')
      BY <3>1 DEF Fits, AboutBuyers
    <3>5. QED
      BY <1>1, <3>1, <3>2, <3>3, <3>4 DEF NobodyElse, SaysAll
  <2>3. CASE b \notin AboutBuyers(desks[d]) \cup AboutBuyers(desk)
    <3>1. /\ access'[b] = access[b] /\ notice'[b] = notice[b]
          /\ b \in unvetted' <=> b \in unvetted
      BY <2>3
    <3>2. \A e \in Desks : b \in AboutBuyers(desks'[e]) <=> b \in AboutBuyers(desks[e])
      BY <1>1, <2>3
    <3>3. \A e \in Desks : b \in AboutBuyers(desks'[e]) => desks'[e] = desks[e]
      BY <1>1, <2>3
    <3>4. QED
      BY <2>1, <3>1, <3>2, <3>3 DEF NobodyElse, SaysAll, Fits, Knows, Says
  <2>4. QED
    BY <2>2, <2>3
<1>4. QED
  BY <1>2, <1>3 DEF AllFit

(* A buyer a request is at work on is nobody else's, and what it has to say   *)
(* fits, unless two requests about that buyer overlapped.                     *)
LEMMA AtWork ==
  ASSUME AccessInv, NEW d \in Desks, NEW b \in Buyers \ crossed,
         b \in AboutBuyers(desks[d])
  PROVE  /\ NobodyElse(d, b)
         /\ Fits(desks[d], b, access[b], notice[b], b \in unvetted)
  BY DEF AccessInv, AllFit

(* Of a buyer no other request is about, all is said when this one begins.    *)
LEMMA NotYet ==
  ASSUME AccessInv, NEW d \in Desks, NEW b \in Buyers \ crossed,
         b \notin AboutBuyers(desks[d]), NobodyElse(d, b)
  PROVE  SaysAll(b)
<1>1. \A e \in Desks : b \notin AboutBuyers(desks[e])
  BY DEF NobodyElse
<1>2. QED
  BY <1>1 DEF AccessInv, AllFit

(* Whoever a request lets in, or is about to, is let in.                      *)
LEMMA LetInKept ==
  ASSUME AccessInv, NEW d \in Desks, NEW desk, desks' = [desks EXCEPT ![d] = desk],
         letIn \subseteq letIn', desk.todo \subseteq letIn',
         desk.step \in {"open", "before", "approve"} => desk.buyer \subseteq letIn',
         \A b \in Buyers : access'[b] = "APPROVED" => access[b] = "APPROVED" \/ b \in letIn'
  PROVE  LetInFirst'
<1>1. \A e \in Desks : desks'[e] = IF e = d THEN desk ELSE desks[e]
  BY DEF AccessInv, AccessTypeOK
<1>2. ASSUME NEW e \in Desks PROVE LettingIn(e)' \subseteq letIn'
  <2>1. CASE e = d
    <3>1. desks'[e] = desk
      BY <1>1, <2>1
    <3>2. QED
      BY <3>1 DEF LettingIn
  <2>2. CASE e # d
    <3>1. desks'[e] = desks[e]
      BY <1>1, <2>2
    <3>2. LettingIn(e) \subseteq letIn
      BY DEF AccessInv, LetInFirst
    <3>3. QED
      BY <3>1, <3>2 DEF LettingIn
  <2>3. QED
    BY <2>1, <2>2
<1>3. LetInBySomeone'
  BY DEF AccessInv, LetInFirst, LetInBySomeone
<1>4. QED
  BY <1>2, <1>3 DEF LetInFirst

(* A request about one buyer begins.                                          *)
LEMMA Begun ==
  ASSUME AccessInv, NEW d \in Desks, NEW b \in Buyers,
         NEW step \in {"room", "open", "before", "decline"},
         Begin(d, {b}, [Free EXCEPT !.step = step, !.buyer = {b}]),
         UNCHANGED <<access, notice, unvetted>>
  PROVE  /\ AllFit'
         /\ desks' \in [Desks -> Desk] /\ crossed' \subseteq Buyers
         /\ desks[d] = Free
<1> DEFINE desk == [Free EXCEPT !.step = step, !.buyer = {b}]
<1>1. /\ desk \in Desk /\ desk.step = step /\ desk.buyer = {b} /\ desk.todo = {}
      /\ AboutBuyers(desk) = {b} /\ AboutBuyers(Free) = {}
  BY DEF Free, Desk, AboutBuyers, Kinds
<1>2. /\ desks[d] = Free /\ desks' = [desks EXCEPT ![d] = desk]
      /\ crossed' = crossed \cup ({b} \cap UNION {Concerned(e) : e \in Desks \ {d}})
  BY DEF Begin
<1> HIDE DEF desk
<1>3. OneServed(desk)
  BY <1>1 DEF OneServed
<1>4. ASSUME b \notin crossed' PROVE NobodyElse(d, b) /\ SaysAll(b)
  <2>1. NobodyElse(d, b)
    BY <1>2, <1>4 DEF NobodyElse, Concerned, AboutBuyers
  <2>2. QED
    BY <1>1, <1>2, <1>4, <2>1, NotYet
<1>5. ASSUME b \notin crossed'
      PROVE  Fits(desk, b, access'[b], notice'[b], b \in unvetted')
  BY <1>1, <1>4, <1>5 DEF Fits, Knows, SaysAll
<1>6. AllFit'
  BY <1>1, <1>2, <1>3, <1>4, <1>5, DeskMoved, ZenonT(60)
<1>7. QED
  BY <1>1, <1>2, <1>6 DEF AccessInv, AccessTypeOK

(* A buyer accepts the agreement.                                             *)
LEMMA AcceptAgreementStep ==
  ASSUME AccessInv, NEW d \in Desks, NEW b \in Buyers, NEW package \in Packages,
         AcceptAgreement(d, b, package)
  PROVE  AccessInv'
<1> DEFINE step == IF ManualApprovalApplies(package) THEN "room" ELSE "open"
           desk == [Free EXCEPT !.step = step, !.buyer = {b}]
<1>1. /\ step \in {"room", "open", "before", "decline"}
      /\ Begin(d, {b}, desk)
      /\ step = "open" => b \in letIn'
      /\ letIn \subseteq letIn' /\ letIn' \subseteq Buyers
      /\ UNCHANGED <<switch, access, notice, unvetted>>
  BY DEF AcceptAgreement, ManualApprovalApplies, AccessInv, AccessTypeOK
<1>2. /\ desk.step = step /\ desk.buyer = {b} /\ desk.todo = {}
      /\ desks' = [desks EXCEPT ![d] = desk]
  BY <1>1 DEF Free, Begin
<1>3. step \notin {"before", "approve"}
  OBVIOUS
<1> HIDE DEF step
<1>4. AllFit' /\ desks' \in [Desks -> Desk] /\ crossed' \subseteq Buyers
  BY <1>1, Begun
<1> HIDE DEF desk
<1>5. LetInFirst'
  BY <1>1, <1>2, <1>3, LetInKept
<1>6. QED
  BY <1>1, <1>4, <1>5 DEF AccessInv, AccessTypeOK

(* A seller approves.                                                         *)
LEMMA GrantStep ==
  ASSUME AccessInv, NEW d \in Desks, NEW b \in Buyers, NEW package \in Packages,
         Grant(d, b, package)
  PROVE  AccessInv'
<1> DEFINE desk == [Free EXCEPT !.step = "before", !.buyer = {b}]
<1>1. /\ Begin(d, {b}, desk) /\ letIn' = letIn \cup {b}
      /\ UNCHANGED <<switch, access, notice, unvetted>>
  BY DEF Grant
<1>2. /\ desk.buyer = {b} /\ desk.todo = {}
      /\ desks' = [desks EXCEPT ![d] = desk]
  BY <1>1 DEF Free, Begin
<1>3. AllFit' /\ desks' \in [Desks -> Desk] /\ crossed' \subseteq Buyers
  BY <1>1, Begun
<1> HIDE DEF desk
<1>4. LetInFirst'
  BY <1>1, <1>2, LetInKept
<1>5. QED
  BY <1>1, <1>3, <1>4 DEF AccessInv, AccessTypeOK

(* A seller declines.                                                         *)
LEMMA DeclineStep ==
  ASSUME AccessInv, NEW d \in Desks, NEW b \in Buyers, NEW package \in Packages,
         Decline(d, b, package)
  PROVE  AccessInv'
<1> DEFINE desk == [Free EXCEPT !.step = "decline", !.buyer = {b}]
<1>1. /\ Begin(d, {b}, desk)
      /\ UNCHANGED <<switch, access, notice, letIn, unvetted>>
  BY DEF Decline
<1>2. /\ desk.step = "decline" /\ desk.buyer = {b} /\ desk.todo = {}
      /\ desks' = [desks EXCEPT ![d] = desk]
  BY <1>1 DEF Free, Begin
<1>3. AllFit' /\ desks' \in [Desks -> Desk] /\ crossed' \subseteq Buyers
  BY <1>1, Begun
<1> HIDE DEF desk
<1>4. LetInFirst'
  BY <1>1, <1>2, LetInKept
<1>5. QED
  BY <1>1, <1>3, <1>4 DEF AccessInv, AccessTypeOK

(* A request goes on with the buyer it serves, and leaves everybody else as   *)
(* they were.                                                                 *)
LEMMA Moved ==
  ASSUME AccessInv, NEW d \in Desks, NEW b \in Buyers, desks[d].buyer = {b},
         NEW desk \in Desk, OneServed(desk), desks' = [desks EXCEPT ![d] = desk],
         desk.todo \subseteq desks[d].todo, desk.buyer \in {{}, {b}},
         crossed' = crossed, letIn' = letIn,
         access' \in [Buyers -> Status], notice' \in [Buyers -> Kinds],
         unvetted' \subseteq Buyers, switch' \in BOOLEAN,
         \A c \in Buyers : c # b =>
           /\ access'[c] = access[c] /\ notice'[c] = notice[c]
           /\ c \in unvetted' <=> c \in unvetted,
         Knows(desks[d], access[b], notice[b], b \in unvetted) =>
           IF desk.buyer = {b} THEN Knows(desk, access'[b], notice'[b], b \in unvetted')
                               ELSE Says(access'[b], notice'[b], b \in unvetted'),
         desk.step \in {"open", "before", "approve"} => b \in letIn,
         access'[b] = "APPROVED" => access[b] = "APPROVED" \/ b \in letIn
  PROVE  AccessInv'
<1>1. AccessTypeOK'
  BY DEF AccessInv, AccessTypeOK
<1>2. /\ desks[d] \in Desk /\ LettingIn(d) \subseteq letIn
      /\ desks[d].buyer \cap desks[d].todo = {}
  BY DEF AccessInv, AccessTypeOK, LetInFirst, AllFit, OneServed
<1>3. LetInFirst'
  <2>1. desk.todo \subseteq letIn' /\ letIn \subseteq letIn'
    BY <1>2 DEF LettingIn
  <2>2. desk.step \in {"open", "before", "approve"} => desk.buyer \subseteq letIn'
    OBVIOUS
  <2>3. \A c \in Buyers : access'[c] = "APPROVED" => access[c] = "APPROVED" \/ c \in letIn'
    OBVIOUS
  <2>4. QED
    BY <2>1, <2>2, <2>3, LetInKept
<1>4. ASSUME NEW c \in Buyers \ crossed',
             c \in AboutBuyers(desks[d]) \cup AboutBuyers(desk)
      PROVE  NobodyElse(d, c) /\ Fits(desk, c, access'[c], notice'[c], c \in unvetted')
  <2>1. c \in AboutBuyers(desks[d]) /\ c \in Buyers \ crossed
    BY <1>4 DEF AboutBuyers
  <2>2. /\ NobodyElse(d, c)
        /\ Fits(desks[d], c, access[c], notice[c], c \in unvetted)
    BY <2>1, AtWork
  <2>3. CASE c = b
    <3>1. Knows(desks[d], access[b], notice[b], b \in unvetted)
      BY <2>2, <2>3 DEF Fits
    <3>2. b \in desk.buyer <=> desk.buyer = {b}
      OBVIOUS
    <3>3. Fits(desk, b, access'[b], notice'[b], b \in unvetted')
      BY <3>1, <3>2 DEF Fits
    <3>4. QED
      BY <2>2, <2>3, <3>3
  <2>4. CASE c # b
    <3>1. c \notin desk.buyer /\ c \notin desks[d].buyer
      BY <2>4
    <3>2. Says(access[c], notice[c], c \in unvetted)
      BY <2>2, <3>1 DEF Fits
    <3>3. /\ access'[c] = access[c] /\ notice'[c] = notice[c]
          /\ c \in unvetted' <=> c \in unvetted
      BY <2>4
    <3>4. Says(access'[c], notice'[c], c \in unvetted')
      BY <3>2, <3>3 DEF Says
    <3>5. QED
      BY <2>2, <3>1, <3>4 DEF Fits
  <2>5. QED
    BY <2>3, <2>4
<1>5. ASSUME NEW c \in Buyers \ crossed',
             c \notin AboutBuyers(desks[d]) \cup AboutBuyers(desk)
      PROVE  /\ access'[c] = access[c] /\ notice'[c] = notice[c]
             /\ c \in unvetted' <=> c \in unvetted
  BY <1>5 DEF AboutBuyers
<1>6. AllFit'
  <2>1. crossed \subseteq crossed'
    OBVIOUS
  <2>2. QED
    BY <1>4, <1>5, <2>1, DeskMoved
<1>7. QED
  BY <1>1, <1>3, <1>6 DEF AccessInv

(* The desk a request leaves when it ends, or goes on to the next who waits.  *)
LEMMA Ends ==
  /\ Free \in Desk /\ Free.step = "idle" /\ Free.buyer = {} /\ Free.todo = {}
  /\ OneServed(Free) /\ AboutBuyers(Free) = {}
BY DEF Free, Desk, Kinds, OneServed, AboutBuyers

(* A request that goes on to its next buyer serves nobody meanwhile.          *)
LEMMA NextInLine ==
  ASSUME AccessTypeOK, NEW d \in Desks, NextOrEnd(d)
  PROVE  \E desk \in Desk :
           /\ desks' = [desks EXCEPT ![d] = desk] /\ OneServed(desk)
           /\ desk.buyer = {} /\ desk.todo = desks[d].todo
           /\ desk.step \in {"idle", "list"}
<1> DEFINE listed == [Free EXCEPT !.step = "list", !.todo = desks[d].todo]
<1>1. /\ listed \in Desk /\ listed.step = "list" /\ listed.buyer = {}
      /\ listed.todo = desks[d].todo
  BY DEF AccessTypeOK, Free, Desk, Kinds
<1>2. \/ desks[d].todo = {} /\ desks' = [desks EXCEPT ![d] = Free]
      \/ desks' = [desks EXCEPT ![d] = listed]
  BY DEF NextOrEnd
<1> HIDE DEF listed
<1>3. OneServed(listed)
  BY <1>1 DEF OneServed
<1>4. QED
  BY <1>1, <1>2, <1>3, Ends

(* A decision stands; otherwise the request goes on to be written.            *)
LEMMA ReadRequestStep ==
  ASSUME AccessInv, NEW d \in Desks, NEW b \in Buyers, ReadRequest(d, b)
  PROVE  AccessInv'
<1> DEFINE request == [desks[d] EXCEPT !.step = "request", !.silent = access[b] = "PENDING"]
<1>1. /\ desks[d] \in Desk /\ desks[d].step = "room" /\ desks[d].buyer = {b}
      /\ access[b] \in Status
      /\ UNCHANGED <<switch, access, notice, letIn, crossed, unvetted>>
      /\ OneServed(desks[d])
  BY DEF ReadRequest, Of, AccessInv, AccessTypeOK, AllFit
<1>2. AccessTypeOK
  BY DEF AccessInv
<1>3. CASE access[b] \in {"APPROVED", "DECLINED"}
  <2>1. desks' = [desks EXCEPT ![d] = Free]
    BY <1>3 DEF ReadRequest
  <2>2. Knows(desks[d], access[b], notice[b], b \in unvetted) =>
          Says(access'[b], notice'[b], b \in unvetted')
    BY <1>1 DEF Knows
  <2>3. QED
    BY <1>1, <1>2, <2>1, <2>2, Ends, Moved DEF AccessTypeOK
<1>4. CASE access[b] \notin {"APPROVED", "DECLINED"}
  <2>1. desks' = [desks EXCEPT ![d] = request]
    BY <1>4 DEF ReadRequest
  <2>2. /\ request \in Desk /\ request.step = "request" /\ request.buyer = {b}
        /\ request.todo = desks[d].todo /\ request.silent = (access[b] = "PENDING")
    BY <1>1 DEF Desk
  <2> HIDE DEF request
  <2>3. OneServed(request)
    BY <1>1, <2>2 DEF OneServed
  <2>4. Knows(desks[d], access[b], notice[b], b \in unvetted) =>
          Knows(request, access'[b], notice'[b], b \in unvetted')
    BY <1>1, <1>4, <2>2 DEF Knows, Status, Says
  <2>5. QED
    BY <1>1, <1>2, <2>1, <2>2, <2>3, <2>4, Moved DEF AccessTypeOK
<1>5. QED
  BY <1>3, <1>4

(* Writing a request that was read as it is keeps the invariant.              *)
LEMMA WriteRequestStep ==
  ASSUME AccessInv, NEW d \in Desks, NEW b \in Buyers, WriteRequest(d, b)
  PROVE  AccessInv'
<1> DEFINE telling == [desks[d] EXCEPT !.step = "tell", !.told = "REQUESTED"]
<1>1. /\ desks[d] \in Desk /\ desks[d].step = "request" /\ desks[d].buyer = {b}
      /\ access' = [access EXCEPT ![b] = "PENDING"] /\ access \in [Buyers -> Status]
      /\ UNCHANGED <<switch, notice, letIn, crossed, unvetted>>
      /\ OneServed(desks[d]) /\ desks[d].silent \in BOOLEAN
  BY DEF WriteRequest, Of, AccessInv, AccessTypeOK, AllFit, Desk
<1>2. AccessTypeOK
  BY DEF AccessInv
<1>3. /\ access' \in [Buyers -> Status] /\ access'[b] = "PENDING"
      /\ \A c \in Buyers : c # b => access'[c] = access[c]
  BY <1>1 DEF Status
<1>4. CASE desks[d].silent
  <2>1. desks' = [desks EXCEPT ![d] = Free]
    BY <1>4 DEF WriteRequest
  <2>2. Knows(desks[d], access[b], notice[b], b \in unvetted) =>
          Says(access'[b], notice'[b], b \in unvetted')
    BY <1>1, <1>3, <1>4 DEF Knows, Says
  <2>3. QED
    BY <1>1, <1>2, <1>3, <2>1, <2>2, Ends, Moved DEF AccessTypeOK
<1>5. CASE ~desks[d].silent
  <2>1. desks' = [desks EXCEPT ![d] = telling]
    BY <1>5 DEF WriteRequest
  <2>2. /\ telling \in Desk /\ telling.step = "tell" /\ telling.buyer = {b}
        /\ telling.todo = desks[d].todo /\ telling.told = "REQUESTED"
    BY <1>1 DEF Desk, Kinds
  <2> HIDE DEF telling
  <2>3. OneServed(telling)
    BY <1>1, <2>2 DEF OneServed
  <2>4. Knows(telling, access'[b], notice'[b], b \in unvetted')
    BY <1>1, <1>3, <2>2 DEF Knows, Says
  <2>5. QED
    BY <1>1, <1>2, <1>3, <2>1, <2>2, <2>3, <2>4, Moved DEF AccessTypeOK
<1>6. QED
  BY <1>1, <1>4, <1>5

(* Letting a buyer in where none is vetted keeps the invariant.               *)
LEMMA LetInUnvettedStep ==
  ASSUME AccessInv, NEW d \in Desks, NEW b \in Buyers, LetInUnvetted(d, b)
  PROVE  AccessInv'
<1>1. /\ desks[d] \in Desk /\ desks[d].step = "open" /\ desks[d].buyer = {b}
      /\ access' = [access EXCEPT ![b] = "APPROVED"] /\ access \in [Buyers -> Status]
      /\ desks' = [desks EXCEPT ![d] = Free]
      /\ unvetted' = unvetted \cup {b}
      /\ UNCHANGED <<switch, notice, letIn, crossed>>
      /\ AccessTypeOK
  BY DEF LetInUnvetted, Of, AccessInv, AccessTypeOK
<1>2. /\ access' \in [Buyers -> Status] /\ access'[b] = "APPROVED"
      /\ \A c \in Buyers : c # b => access'[c] = access[c]
      /\ unvetted' \subseteq Buyers
      /\ \A c \in Buyers : c # b => (c \in unvetted' <=> c \in unvetted)
  BY <1>1 DEF Status, AccessTypeOK
<1>3. Says(access'[b], notice'[b], b \in unvetted')
  BY <1>1, <1>2 DEF Says
<1>4. b \in letIn
  BY <1>1 DEF AccessInv, LetInFirst, LettingIn
<1>5. QED
  BY <1>1, <1>2, <1>3, <1>4, Ends, Moved DEF AccessTypeOK

(* A notice posted by the only request at work on the buyer is true.          *)
LEMMA TellStep ==
  ASSUME AccessInv, NEW d \in Desks, NEW b \in Buyers, Tell(d, b)
  PROVE  AccessInv'
<1>1. /\ desks[d] \in Desk /\ desks[d].step = "tell" /\ desks[d].buyer = {b}
      /\ notice' = [notice EXCEPT ![b] = desks[d].told] /\ notice \in [Buyers -> Kinds]
      /\ NextOrEnd(d)
      /\ UNCHANGED <<switch, access, letIn, crossed, unvetted>>
      /\ AccessTypeOK
  BY DEF Tell, Of, AccessInv, AccessTypeOK
<1>2. PICK desk \in Desk :
        /\ desks' = [desks EXCEPT ![d] = desk] /\ OneServed(desk)
        /\ desk.buyer = {} /\ desk.todo = desks[d].todo
        /\ desk.step \in {"idle", "list"}
  BY <1>1, NextInLine
<1>3. /\ notice' \in [Buyers -> Kinds] /\ notice'[b] = desks[d].told
      /\ \A c \in Buyers : c # b => notice'[c] = notice[c]
  BY <1>1 DEF Desk
<1>4. Knows(desks[d], access[b], notice[b], b \in unvetted) =>
        Says(access'[b], notice'[b], b \in unvetted')
  BY <1>1, <1>3 DEF Knows, Says
<1>5. QED
  BY <1>1, <1>2, <1>3, <1>4, Moved DEF AccessTypeOK

(* Reading a row before it is approved keeps the invariant.                   *)
LEMMA ReadBeforeStep ==
  ASSUME AccessInv, NEW d \in Desks, NEW b \in Buyers, ReadBefore(d, b)
  PROVE  AccessInv'
<1> DEFINE desk == [desks[d] EXCEPT !.step = "approve", !.silent = HadAccess(b)]
<1>1. /\ desks[d] \in Desk /\ desks[d].step = "before" /\ desks[d].buyer = {b}
      /\ UNCHANGED <<switch, access, notice, letIn, crossed, unvetted>>
      /\ AccessTypeOK /\ OneServed(desks[d])
  BY DEF ReadBefore, Of, AccessInv, AccessTypeOK, AllFit
<1>2. desks' = [desks EXCEPT ![d] = desk]
  BY DEF ReadBefore, AccessInv, AccessTypeOK
<1>3. /\ desk \in Desk /\ desk.step = "approve" /\ desk.buyer = {b}
      /\ desk.todo = desks[d].todo /\ desk.silent = (access[b] = "APPROVED")
  BY <1>1 DEF Desk, HadAccess
<1> HIDE DEF desk
<1>4. OneServed(desk)
  BY <1>1, <1>3 DEF OneServed
<1>5. Knows(desks[d], access[b], notice[b], b \in unvetted) =>
        Knows(desk, access'[b], notice'[b], b \in unvetted')
  BY <1>1, <1>3 DEF Knows
<1>6. b \in letIn
  BY <1>1 DEF AccessInv, LetInFirst, LettingIn
<1>7. QED
  BY <1>1, <1>2, <1>3, <1>4, <1>5, <1>6, Moved DEF AccessTypeOK

(* An approval is of somebody who was let in.                                 *)
LEMMA ApproveStep ==
  ASSUME AccessInv, NEW d \in Desks, NEW b \in Buyers, Approve(d, b)
  PROVE  AccessInv'
<1> DEFINE telling == [desks[d] EXCEPT !.step = "tell", !.told = "APPROVED"]
<1>1. /\ desks[d] \in Desk /\ desks[d].step = "approve" /\ desks[d].buyer = {b}
      /\ access' = [access EXCEPT ![b] = "APPROVED"] /\ access \in [Buyers -> Status]
      /\ unvetted' = IF desks[d].silent THEN unvetted ELSE unvetted \ {b}
      /\ UNCHANGED <<switch, notice, letIn, crossed>>
      /\ AccessTypeOK /\ OneServed(desks[d]) /\ desks[d].silent \in BOOLEAN
  BY DEF Approve, Of, AccessInv, AccessTypeOK, AllFit, Desk
<1>2. /\ access' \in [Buyers -> Status] /\ access'[b] = "APPROVED"
      /\ \A c \in Buyers : c # b => access'[c] = access[c]
      /\ unvetted' \subseteq Buyers
      /\ \A c \in Buyers : c # b => (c \in unvetted' <=> c \in unvetted)
  BY <1>1 DEF Status, AccessTypeOK
<1>3. b \in letIn
  BY <1>1 DEF AccessInv, LetInFirst, LettingIn
<1>4. CASE desks[d].silent
  <2>1. NextOrEnd(d)
    BY <1>4 DEF Approve
  <2>2. PICK desk \in Desk :
          /\ desks' = [desks EXCEPT ![d] = desk] /\ OneServed(desk)
          /\ desk.buyer = {} /\ desk.todo = desks[d].todo
          /\ desk.step \in {"idle", "list"}
    BY <1>1, <2>1, NextInLine
  <2>3. Knows(desks[d], access[b], notice[b], b \in unvetted) =>
          Says(access'[b], notice'[b], b \in unvetted')
    BY <1>1, <1>2, <1>4 DEF Knows, Says
  <2>4. QED
    BY <1>1, <1>2, <1>3, <2>2, <2>3, Moved DEF AccessTypeOK
<1>5. CASE ~desks[d].silent
  <2>1. desks' = [desks EXCEPT ![d] = telling]
    BY <1>5 DEF Approve, AccessInv, AccessTypeOK
  <2>2. /\ telling \in Desk /\ telling.step = "tell" /\ telling.buyer = {b}
        /\ telling.todo = desks[d].todo /\ telling.told = "APPROVED"
    BY <1>1 DEF Desk, Kinds
  <2> HIDE DEF telling
  <2>3. OneServed(telling)
    BY <1>1, <2>2 DEF OneServed
  <2>4. Knows(telling, access'[b], notice'[b], b \in unvetted')
    BY <1>2, <2>2 DEF Knows, Says
  <2>5. QED
    BY <1>1, <1>2, <1>3, <2>1, <2>2, <2>3, <2>4, Moved DEF AccessTypeOK
<1>6. QED
  BY <1>1, <1>4, <1>5

(* A refusal, or its error, keeps the invariant.                              *)
LEMMA WriteDeclineStep ==
  ASSUME AccessInv, NEW d \in Desks, NEW b \in Buyers, WriteDecline(d, b)
  PROVE  AccessInv'
<1> DEFINE telling == [desks[d] EXCEPT !.step = "tell", !.told = "DECLINED"]
<1>1. /\ desks[d] \in Desk /\ desks[d].step = "decline" /\ desks[d].buyer = {b}
      /\ access \in [Buyers -> Status]
      /\ UNCHANGED <<switch, notice, letIn, crossed, unvetted>>
      /\ AccessTypeOK /\ OneServed(desks[d])
  BY DEF WriteDecline, Of, AccessInv, AccessTypeOK, AllFit
<1>2. CASE access[b] = "none"
  <2>1. desks' = [desks EXCEPT ![d] = Free] /\ UNCHANGED access
    BY <1>2 DEF WriteDecline
  <2>2. Says(access'[b], notice'[b], b \in unvetted')
    BY <1>2, <2>1 DEF Says
  <2>3. QED
    BY <1>1, <2>1, <2>2, Ends, Moved DEF AccessTypeOK
<1>3. CASE access[b] # "none"
  <2>1. /\ access' = [access EXCEPT ![b] = "DECLINED"]
        /\ desks' = [desks EXCEPT ![d] = telling]
    BY <1>3 DEF WriteDecline, AccessInv, AccessTypeOK
  <2>2. /\ access' \in [Buyers -> Status] /\ access'[b] = "DECLINED"
        /\ \A c \in Buyers : c # b => access'[c] = access[c]
    BY <1>1, <2>1 DEF Status
  <2>3. /\ telling \in Desk /\ telling.step = "tell" /\ telling.buyer = {b}
        /\ telling.todo = desks[d].todo /\ telling.told = "DECLINED"
    BY <1>1 DEF Desk, Kinds
  <2> HIDE DEF telling
  <2>4. OneServed(telling)
    BY <1>1, <2>3 DEF OneServed
  <2>5. Knows(telling, access'[b], notice'[b], b \in unvetted')
    BY <2>2, <2>3 DEF Knows, Says
  <2>6. QED
    BY <1>1, <2>1, <2>2, <2>3, <2>4, <2>5, Moved DEF AccessTypeOK
<1>4. QED
  BY <1>2, <1>3

(* The next of those who wait is let in.                                      *)
LEMMA LetNextInStep ==
  ASSUME AccessInv, NEW d \in Desks, NEW b \in Buyers, LetNextIn(d, b)
  PROVE  AccessInv'
<1> DEFINE desk == [desks[d] EXCEPT !.step = "before", !.buyer = {b}, !.todo = @ \ {b}]
<1>1. /\ desks[d] \in Desk /\ desks[d].step = "list" /\ b \in desks[d].todo
      /\ UNCHANGED <<switch, access, notice, letIn, crossed, unvetted>>
      /\ desks[d].buyer = {} /\ LettingIn(d) \subseteq letIn
  BY DEF LetNextIn, AccessInv, AccessTypeOK, LetInFirst, AllFit, OneServed
<1>2. desks' = [desks EXCEPT ![d] = desk]
  BY DEF LetNextIn, AccessInv, AccessTypeOK
<1>3. /\ desk \in Desk /\ desk.step = "before" /\ desk.buyer = {b}
      /\ desk.todo = desks[d].todo \ {b}
  BY <1>1 DEF Desk
<1> HIDE DEF desk
<1>4. OneServed(desk)
  BY <1>3 DEF OneServed
<1>5. AboutBuyers(desk) = AboutBuyers(desks[d])
  BY <1>1, <1>3 DEF AboutBuyers
<1>6. ASSUME NEW c \in Buyers \ crossed', c \in AboutBuyers(desks[d]) \cup AboutBuyers(desk)
      PROVE  NobodyElse(d, c) /\ Fits(desk, c, access'[c], notice'[c], c \in unvetted')
  <2>1. /\ NobodyElse(d, c)
        /\ Fits(desks[d], c, access[c], notice[c], c \in unvetted)
    BY <1>1, <1>5, <1>6, AtWork
  <2>2. Says(access'[c], notice'[c], c \in unvetted')
    BY <1>1, <2>1 DEF Fits
  <2>3. QED
    BY <1>3, <2>1, <2>2 DEF Fits, Knows
<1>7. AllFit'
  BY <1>1, <1>2, <1>4, <1>6, DeskMoved
<1>8. LetInFirst'
  BY <1>1, <1>2, <1>3, LetInKept DEF LettingIn
<1>9. QED
  BY <1>1, <1>2, <1>3, <1>7, <1>8 DEF AccessInv, AccessTypeOK

(* A request that is about no buyer begins, goes on or ends.                  *)
LEMMA Aside ==
  ASSUME AccessInv, NEW d \in Desks, NEW desk \in Desk, desks' = [desks EXCEPT ![d] = desk],
         desks[d].step \in {"idle", "sweep", "write"},
         desk.step \in {"idle", "sweep", "write"}, desk.buyer = {}, desk.todo = {},
         switch' \in BOOLEAN, UNCHANGED <<access, notice, letIn, crossed, unvetted>>
  PROVE  AccessInv'
<1>1. OneServed(desk) /\ AboutBuyers(desk) = {} /\ AboutBuyers(desks[d]) = {}
  BY DEF OneServed, AboutBuyers, AccessInv, AllFit
<1>2. AllFit'
  BY <1>1, DeskMoved
<1>3. LetInFirst'
  BY LetInKept
<1>4. QED
  BY <1>2, <1>3 DEF AccessInv, AccessTypeOK

(* The switch lets nobody in by itself.                                       *)
LEMMA DisableManualApprovalStep ==
  ASSUME AccessInv, NEW d \in Desks, DisableManualApproval(d)
  PROVE  AccessInv'
<1> DEFINE desk == [Free EXCEPT !.step = "sweep"]
<1>1. desk \in Desk /\ desk.step = "sweep" /\ desk.buyer = {} /\ desk.todo = {}
  BY DEF Free, Desk, Kinds
<1>2. /\ desks' = [desks EXCEPT ![d] = desk] /\ desks[d].step = "idle" /\ switch' \in BOOLEAN
      /\ UNCHANGED <<access, notice, letIn, crossed, unvetted>>
  BY Ends DEF DisableManualApproval
<1> HIDE DEF desk
<1>3. QED
  BY <1>1, <1>2, Aside

(* Saving a listing is about no buyer.                                        *)
LEMMA SaveListingStep ==
  ASSUME AccessInv, NEW d \in Desks, NEW wanted \in BOOLEAN, NEW package \in Packages,
         SaveListing(d, wanted, package)
  PROVE  AccessInv'
<1> DEFINE to == IF CanApproveBuyersManually(package) THEN wanted ELSE switch
           desk == [Free EXCEPT !.step = "write", !.to = to]
<1>1. to \in BOOLEAN
  BY DEF AccessInv, AccessTypeOK
<1>2. /\ desks' = [desks EXCEPT ![d] = desk] /\ desks[d].step = "idle"
      /\ UNCHANGED <<switch, access, notice, letIn, crossed, unvetted>>
  BY Ends DEF SaveListing
<1> HIDE DEF to
<1>3. desk \in Desk /\ desk.step = "write" /\ desk.buyer = {} /\ desk.todo = {}
  BY <1>1 DEF Free, Desk, Kinds
<1> HIDE DEF desk
<1>4. switch' \in BOOLEAN
  BY <1>2 DEF AccessInv, AccessTypeOK
<1>5. QED
  BY <1>2, <1>3, <1>4, Aside

(* Writing the switch back is about no buyer.                                 *)
LEMMA WriteListingStep ==
  ASSUME AccessInv, NEW d \in Desks, WriteListing(d)
  PROVE  AccessInv'
<1>1. /\ desks' = [desks EXCEPT ![d] = Free] /\ desks[d].step = "write"
      /\ switch' \in BOOLEAN
      /\ UNCHANGED <<access, notice, letIn, crossed, unvetted>>
  BY DEF WriteListing, AccessInv, AccessTypeOK, Desk
<1>2. QED
  BY <1>1, Ends, Aside

(* All who wait are read, to be let in one after another.                     *)
LEMMA ReadWaitingStep ==
  ASSUME AccessInv, NEW d \in Desks, ReadWaiting(d)
  PROVE  AccessInv'
<1> DEFINE waiting == {b \in Buyers : access[b] = "PENDING"}
           listed == [Free EXCEPT !.step = "list", !.todo = waiting]
<1>1. /\ desks[d].step = "sweep" /\ AboutBuyers(desks[d]) = {}
      /\ desks' = [desks EXCEPT ![d] = IF waiting = {} THEN Free ELSE listed]
      /\ crossed' = crossed \cup (waiting \cap UNION {Concerned(e) : e \in Desks \ {d}})
      /\ letIn' = letIn \cup waiting
      /\ UNCHANGED <<switch, access, notice, unvetted>>
  BY DEF ReadWaiting, AccessInv, AllFit, OneServed, AboutBuyers
<1>2. /\ listed \in Desk /\ listed.step = "list" /\ listed.buyer = {}
      /\ listed.todo = waiting
  BY DEF Free, Desk, Kinds
<1>3. waiting \subseteq Buyers
  OBVIOUS
<1> HIDE DEF waiting, listed
<1>4. PICK desk \in Desk :
        /\ desks' = [desks EXCEPT ![d] = desk] /\ desk.step \in {"idle", "list"}
        /\ desk.buyer = {} /\ desk.todo = waiting /\ (desk.step = "idle" => waiting = {})
  BY <1>1, <1>2, Ends
<1>5. OneServed(desk) /\ AboutBuyers(desk) = waiting
  BY <1>2, <1>4, Ends DEF OneServed, AboutBuyers
<1>6. ASSUME NEW b \in Buyers \ crossed', b \in AboutBuyers(desks[d]) \cup AboutBuyers(desk)
      PROVE  NobodyElse(d, b) /\ Fits(desk, b, access'[b], notice'[b], b \in unvetted')
  <2>1. b \in waiting /\ b \notin crossed
    BY <1>1, <1>5, <1>6
  <2>2. NobodyElse(d, b)
    BY <1>1, <1>6, <2>1 DEF NobodyElse, Concerned, AboutBuyers
  <2>3. SaysAll(b)
    BY <1>1, <2>1, <2>2, NotYet
  <2>4. QED
    BY <1>1, <1>4, <2>2, <2>3 DEF Fits, SaysAll
<1>7. AllFit'
  BY <1>1, <1>4, <1>5, <1>6, DeskMoved
<1>8. LetInFirst'
  BY <1>1, <1>4, LetInKept
<1>9. QED
  BY <1>1, <1>3, <1>4, <1>7, <1>8 DEF AccessInv, AccessTypeOK

(* A request that fails leaves its buyers to be told of by nobody.            *)
LEMMA BreakStep ==
  ASSUME AccessInv, NEW d \in Desks, Break(d)
  PROVE  AccessInv'
<1>1. /\ crossed' = crossed \cup AboutBuyers(desks[d])
      /\ UNCHANGED <<switch, access, notice, letIn, unvetted>>
      /\ AccessTypeOK /\ LettingIn(d) \subseteq letIn
  BY DEF Break, Concerned, AboutBuyers, AccessInv, LetInFirst
<1>2. PICK desk \in Desk :
        /\ desks' = [desks EXCEPT ![d] = desk] /\ OneServed(desk)
        /\ desk.buyer = {} /\ desk.todo \subseteq desks[d].todo
        /\ desk.step \in {"idle", "list"}
  <2>1. CASE NextOrEnd(d)
    BY <1>1, <2>1, NextInLine
  <2>2. CASE desks' = [desks EXCEPT ![d] = Free]
    BY <2>2, Ends
  <2>3. QED
    BY <2>1, <2>2 DEF Break
<1>3. AboutBuyers(desk) \subseteq AboutBuyers(desks[d])
  BY <1>2 DEF AboutBuyers
<1>4. AllFit'
  BY <1>1, <1>2, <1>3, DeskMoved
<1>5. LetInFirst'
  BY <1>1, <1>2, LetInKept DEF LettingIn
<1>6. crossed' \subseteq Buyers
  <2>1. AboutBuyers(desks[d]) \subseteq Buyers
    BY <1>1 DEF AccessTypeOK, Desk, AboutBuyers
  <2>2. QED
    BY <1>1, <2>1 DEF AccessTypeOK
<1>7. QED
  BY <1>1, <1>2, <1>4, <1>5, <1>6 DEF AccessInv, AccessTypeOK

(* Access is taken away: the buyer stays let in only where somebody is about  *)
(* to let that buyer in again.                                                *)
LEMMA RevokeStep ==
  ASSUME AccessInv, NEW b \in Buyers, Revoke(b)
  PROVE  AccessInv'
<1>1. /\ access' = [access EXCEPT ![b] = "none"] /\ access \in [Buyers -> Status]
      /\ UNCHANGED <<switch, notice, desks, unvetted>>
      /\ crossed \subseteq crossed' /\ crossed' \subseteq Buyers
      /\ (\E d \in Desks : b \in AboutBuyers(desks[d])) => b \in crossed'
      /\ letIn' = IF \E d \in Desks : b \in LettingIn(d) THEN letIn ELSE letIn \ {b}
  BY DEF Revoke, Concerned, AboutBuyers, AccessInv, AccessTypeOK
<1>2. /\ access' \in [Buyers -> Status] /\ access'[b] = "none"
      /\ \A c \in Buyers : c # b => access'[c] = access[c]
  BY <1>1 DEF Status
<1>3. LetInFirst'
  <2>1. \A d \in Desks : LettingIn(d)' = LettingIn(d)
    BY <1>1 DEF LettingIn
  <2>2. /\ \A d \in Desks : LettingIn(d) \subseteq letIn
        /\ \A c \in Buyers : access[c] = "APPROVED" => c \in letIn
    BY DEF AccessInv, LetInFirst, LetInBySomeone
  <2>3. \A d \in Desks : LettingIn(d) \subseteq letIn'
    BY <1>1, <2>2
  <2>4. \A c \in Buyers : access'[c] = "APPROVED" => c \in letIn'
    BY <1>1, <1>2, <2>2
  <2>5. QED
    BY <2>1, <2>3, <2>4 DEF LetInFirst, LetInBySomeone
<1>4. ASSUME NEW c \in Buyers \ crossed'
      PROVE  /\ \A d \in Desks : c \in AboutBuyers(desks'[d]) =>
                  /\ NobodyElse(d, c)'
                  /\ Fits(desks'[d], c, access'[c], notice'[c], c \in unvetted')
             /\ (\A d \in Desks : c \notin AboutBuyers(desks'[d])) => SaysAll(c)'
  <2>1. /\ \A d \in Desks : c \in AboutBuyers(desks[d]) =>
             NobodyElse(d, c) /\ Fits(desks[d], c, access[c], notice[c], c \in unvetted)
        /\ (\A d \in Desks : c \notin AboutBuyers(desks[d])) => SaysAll(c)
    BY <1>1 DEF AccessInv, AllFit
  <2>2. CASE c = b
    <3>1. \A d \in Desks : c \notin AboutBuyers(desks[d])
      BY <1>1, <2>2
    <3>2. Says(access'[c], notice'[c], c \in unvetted')
      BY <1>2, <2>2 DEF Says
    <3>3. QED
      BY <1>1, <3>1, <3>2 DEF SaysAll
  <2>3. CASE c # b
    <3>1. access'[c] = access[c]
      BY <1>2, <2>3
    <3>2. QED
      BY <1>1, <2>1, <3>1 DEF NobodyElse, SaysAll
  <2>4. QED
    BY <2>2, <2>3
<1>5. AllFit'
  BY <1>1, <1>4 DEF AccessInv, AllFit
<1>6. AccessTypeOK'
  BY <1>1, <1>2 DEF AccessInv, AccessTypeOK
<1>7. QED
  BY <1>3, <1>5, <1>6 DEF AccessInv

(* Every step of a request keeps the inductive invariant.                     *)
LEMMA AccessStep == AccessInv /\ [AccessNext]_accessVars => AccessInv'
<1> SUFFICES ASSUME AccessInv, [AccessNext]_accessVars PROVE AccessInv'
  OBVIOUS
<1>1. CASE UNCHANGED accessVars
  <2>1. \A d \in Desks : LettingIn(d)' = LettingIn(d)
    BY <1>1 DEF accessVars, LettingIn
  <2>2. QED
    BY <1>1, <2>1 DEF accessVars, AccessInv, AccessTypeOK, LetInFirst, LetInBySomeone, AllFit,
                      NobodyElse, SaysAll
<1>2. ASSUME NEW d \in Desks, NEW b \in Buyers, NEW package \in Packages,
             AcceptAgreement(d, b, package) \/ Grant(d, b, package) \/ Decline(d, b, package)
      PROVE  AccessInv'
  BY <1>2, AcceptAgreementStep, GrantStep, DeclineStep
<1>3. ASSUME NEW d \in Desks, NEW b \in Buyers,
             \/ ReadRequest(d, b) \/ WriteRequest(d, b) \/ LetInUnvetted(d, b)
             \/ Tell(d, b) \/ ReadBefore(d, b) \/ Approve(d, b)
             \/ WriteDecline(d, b) \/ LetNextIn(d, b)
      PROVE  AccessInv'
  BY <1>3, ReadRequestStep, WriteRequestStep, LetInUnvettedStep, TellStep, ReadBeforeStep,
     ApproveStep, WriteDeclineStep, LetNextInStep
<1>4. ASSUME NEW b \in Buyers, Revoke(b) PROVE AccessInv'
  BY <1>4, RevokeStep
<1>5. ASSUME NEW d \in Desks,
             DisableManualApproval(d) \/ ReadWaiting(d) \/ WriteListing(d) \/ Break(d)
      PROVE  AccessInv'
  BY <1>5, DisableManualApprovalStep, ReadWaitingStep, WriteListingStep, BreakStep
<1>6. ASSUME NEW d \in Desks, NEW wanted \in BOOLEAN, NEW package \in Packages,
             SaveListing(d, wanted, package)
      PROVE  AccessInv'
  BY <1>6, SaveListingStep
<1>7. QED
  BY <1>1, <1>2, <1>3, <1>4, <1>5, <1>6 DEF AccessNext

(* What the conversations say follows from everything fitting.                *)
LEMMA FitMeansTold == AllFit => NoticesTellTheRow
  BY DEF AllFit, NoticesTellTheRow, SaysAll, Says, Concerned, AboutBuyers

(* Every reachable state satisfies the inductive invariant.                   *)
LEMMA AccessAlways == AccessSpec => []AccessInv
  BY AccessBegins, AccessStep, PTL DEF AccessSpec

(* Whoever sees a listing's details was let in by the seller, or by a listing *)
(* that vets nobody, for any number of buyers and of requests at once.        *)
THEOREM SeersWereLetIn == AccessSpec => [](AccessTypeOK /\ LetInBySomeone)
<1>1. AccessInv => AccessTypeOK /\ LetInBySomeone
  BY DEF AccessInv, LetInFirst
<1>2. QED
  BY <1>1, AccessAlways, PTL

(* The last notice in a conversation says how the request stands, wherever no *)
(* two requests about a buyer overlapped and none failed.                     *)
THEOREM NoticesTrue == AccessSpec => []NoticesTellTheRow
<1>1. AccessInv => NoticesTellTheRow
  BY FitMeansTold DEF AccessInv
<1>2. QED
  BY <1>1, AccessAlways, PTL

--------------------------------------------------------------------------------
(* A buyer's funds                                                            *)

(* What a request holds: documents sent in are nobody else's, and have no     *)
(* verdict until they are stored.                                             *)
Unsent ==
  /\ uploads \in [Documents -> Upload]
  /\ DOMAIN reviews = Reviewers /\ stale \in BOOLEAN
  /\ \A r \in Reviewers :
       /\ \A d \in reviews[r].docs : d \in Documents /\ uploads[d].status = "none"
       /\ \A s \in Reviewers \ {r} : reviews[r].docs \cap reviews[s].docs = {}

(* Unless the figure is stale, whoever has read it has read what is proven,   *)
(* and it is right or somebody is at work on it.                              *)
FiguresRead ==
  ~stale =>
    /\ \A r \in Reviewers : reviews[r].step = "total" => reviews[r].figure = Proven
    /\ \/ \E r \in Reviewers : reviews[r].step \in {"sum", "total"}
       \/ funds = Proven

CapacityInv == Unsent /\ FiguresRead

(* The initial states satisfy the inductive invariant.                        *)
LEMMA CapacityBegins == CapacityInit => CapacityInv
<1> SUFFICES ASSUME CapacityInit PROVE CapacityInv
  OBVIOUS
<1>1. NotReviewing.docs = {} /\ NotReviewing.step = "idle"
  BY DEF NotReviewing
<1>2. Unsent
  BY <1>1 DEF CapacityInit, Unsent, Upload
<1>3. Verified = {}
  BY DEF CapacityInit, Verified
<1>4. FiguresRead
  BY <1>1, <1>3 DEF CapacityInit, FiguresRead, Proven
<1>5. QED
  BY <1>2, <1>4 DEF CapacityInv

(* What is proven changes with the verified documents only.                   *)
LEMMA ProvenKept ==
  ASSUME uploads \in [Documents -> Upload], uploads' \in [Documents -> Upload],
         \A d \in Documents :
           \/ uploads'[d] = uploads[d]
           \/ uploads[d].status # "VERIFIED" /\ uploads'[d].status # "VERIFIED"
  PROVE  Proven' = Proven
<1>1. Verified' = Verified
  BY DEF Verified
<1>2. [d \in Verified |-> uploads[d].amount]' = [d \in Verified |-> uploads[d].amount]
  <2>1. \A d \in Verified : uploads'[d] = uploads[d]
    BY DEF Verified
  <2>2. QED
    BY <1>1, <2>1
<1>3. QED
  BY <1>1, <1>2 DEF Proven

(* A request that has nothing to do with the figure begins, goes on or ends.  *)
LEMMA OtherWork ==
  ASSUME CapacityInv, NEW r \in Reviewers, NEW record,
         reviews' = [reviews EXCEPT ![r] = record],
         reviews[r].step \notin {"sum", "total"}, record.step \notin {"sum", "total"},
         record.docs \subseteq reviews[r].docs,
         UNCHANGED <<uploads, funds, stale>>
  PROVE  CapacityInv'
<1>1. \A s \in Reviewers : reviews'[s] = IF s = r THEN record ELSE reviews[s]
  BY DEF CapacityInv, Unsent
<1>2. Unsent'
  BY <1>1 DEF CapacityInv, Unsent
<1>3. Proven' = Proven
  BY ProvenKept DEF CapacityInv, Unsent
<1>4. \A s \in Reviewers :
        reviews'[s].step \in {"sum", "total"} \/ reviews[s].step \in {"sum", "total"} =>
          reviews'[s] = reviews[s]
  BY <1>1
<1>5. FiguresRead'
  BY <1>3, <1>4 DEF CapacityInv, FiguresRead
<1>6. QED
  BY <1>2, <1>5 DEF CapacityInv

(* New documents are on their way in.                                         *)
LEMMA SubmitDocumentsStep ==
  ASSUME CapacityInv, NEW r \in Reviewers, NEW docs \in SUBSET Documents,
         SubmitDocuments(r, docs)
  PROVE  CapacityInv'
<1> DEFINE record == [NotReviewing EXCEPT !.step = "upload", !.docs = docs]
<1>1. /\ reviews[r] = NotReviewing /\ reviews' = [reviews EXCEPT ![r] = record]
      /\ Fresh(docs) /\ UNCHANGED <<uploads, funds, stale>>
  BY DEF SubmitDocuments, OpenReview
<1>2. record.step = "upload" /\ record.docs = docs /\ NotReviewing.step = "idle"
  BY DEF NotReviewing
<1> HIDE DEF record
<1>3. \A s \in Reviewers : reviews'[s] = IF s = r THEN record ELSE reviews[s]
  BY <1>1 DEF CapacityInv, Unsent
<1>4. Unsent'
  BY <1>1, <1>2, <1>3 DEF CapacityInv, Unsent, Fresh
<1>5. Proven' = Proven
  BY <1>1, ProvenKept DEF CapacityInv, Unsent
<1>6. \A s \in Reviewers :
        reviews'[s].step \in {"sum", "total"} \/ reviews[s].step \in {"sum", "total"} =>
          reviews'[s] = reviews[s]
  BY <1>1, <1>2, <1>3
<1>7. FiguresRead'
  BY <1>1, <1>5, <1>6 DEF CapacityInv, FiguresRead
<1>8. QED
  BY <1>4, <1>7 DEF CapacityInv

(* They are stored, each waiting for its verdict.                             *)
LEMMA StoreDocumentsStep ==
  ASSUME CapacityInv, NEW r \in Reviewers, StoreDocuments(r)
  PROVE  CapacityInv'
<1> DEFINE new == [status |-> "IN_REVIEW", amount |-> 0]
<1>1. /\ reviews[r].step = "upload" /\ reviews' = [reviews EXCEPT ![r] = NotReviewing]
      /\ uploads' = [d \in Documents |-> IF d \in reviews[r].docs THEN new ELSE uploads[d]]
      /\ UNCHANGED <<funds, stale>>
  BY DEF StoreDocuments, CloseReview
<1>2. /\ NotReviewing.step = "idle" /\ NotReviewing.docs = {}
      /\ new \in Upload /\ new.status = "IN_REVIEW"
  BY DEF NotReviewing, Upload, Verdicts
<1> HIDE DEF new
<1>3. \A s \in Reviewers : reviews'[s] = IF s = r THEN NotReviewing ELSE reviews[s]
  BY <1>1 DEF CapacityInv, Unsent
<1>4. \A d \in Documents : uploads'[d] = IF d \in reviews[r].docs THEN new ELSE uploads[d]
  BY <1>1
<1>5. uploads' \in [Documents -> Upload]
  BY <1>1, <1>2, <1>4 DEF CapacityInv, Unsent
<1>6. Unsent'
  <2>1. ASSUME NEW s \in Reviewers, NEW d \in reviews'[s].docs
        PROVE  d \in Documents /\ uploads'[d].status = "none"
    <3>1. s # r /\ d \in reviews[s].docs
      BY <1>2, <1>3, <2>1
    <3>2. d \notin reviews[r].docs /\ d \in Documents /\ uploads[d].status = "none"
      BY <3>1 DEF CapacityInv, Unsent
    <3>3. QED
      BY <1>4, <3>2
  <2>2. ASSUME NEW s \in Reviewers, NEW q \in Reviewers \ {s}
        PROVE  reviews'[s].docs \cap reviews'[q].docs = {}
    <3>1. reviews[s].docs \cap reviews[q].docs = {}
      BY DEF CapacityInv, Unsent
    <3>2. reviews'[s].docs \subseteq reviews[s].docs /\ reviews'[q].docs \subseteq reviews[q].docs
      BY <1>2, <1>3
    <3>3. QED
      BY <3>1, <3>2
  <2>3. DOMAIN reviews' = Reviewers /\ stale' \in BOOLEAN
    BY <1>1 DEF CapacityInv, Unsent
  <2>4. QED
    BY <1>5, <2>1, <2>2, <2>3 DEF Unsent
<1>7. Proven' = Proven
  <2>1. \A d \in Documents :
          \/ uploads'[d] = uploads[d]
          \/ uploads[d].status # "VERIFIED" /\ uploads'[d].status # "VERIFIED"
    BY <1>2, <1>4 DEF CapacityInv, Unsent
  <2>2. QED
    BY <1>5, <2>1, ProvenKept DEF CapacityInv, Unsent
<1>8. \A s \in Reviewers :
        reviews'[s].step \in {"sum", "total"} \/ reviews[s].step \in {"sum", "total"} =>
          reviews'[s] = reviews[s]
  BY <1>1, <1>2, <1>3
<1>9. FiguresRead'
  BY <1>1, <1>7, <1>8 DEF CapacityInv, FiguresRead
<1>10. QED
  BY <1>6, <1>9 DEF CapacityInv

(* A verdict is stored: its request is going to add the figure up again, and  *)
(* whoever has read it already has read it too early.                         *)
LEMMA ReviewDocumentStep ==
  ASSUME CapacityInv, NEW r \in Reviewers, NEW d \in Documents, NEW verdict \in Verdicts,
         NEW amount \in Amounts \cup {0}, ReviewDocument(r, d, verdict, amount)
  PROVE  CapacityInv'
<1> DEFINE record == [NotReviewing EXCEPT !.step = "sum"]
           stored == [status |-> verdict, amount |-> amount]
<1>1. /\ uploads[d].status # "none" /\ uploads' = [uploads EXCEPT ![d] = stored]
      /\ reviews[r] = NotReviewing /\ reviews' = [reviews EXCEPT ![r] = record]
      /\ stale' = (stale \/ FigureOut(r)) /\ UNCHANGED funds
  BY DEF ReviewDocument, OpenReview
<1>2. /\ record.step = "sum" /\ record.docs = {} /\ stored \in Upload
      /\ NotReviewing.docs = {}
  BY DEF NotReviewing, Upload
<1> HIDE DEF record, stored
<1>3. \A s \in Reviewers : reviews'[s] = IF s = r THEN record ELSE reviews[s]
  BY <1>1 DEF CapacityInv, Unsent
<1>4. Unsent'
  <2>1. ASSUME NEW s \in Reviewers, NEW c \in reviews'[s].docs
        PROVE  c \in Documents /\ uploads'[c].status = "none"
    <3>1. c \in reviews[s].docs
      BY <1>2, <1>3
    <3>2. c \in Documents /\ uploads[c].status = "none" /\ c # d
      BY <1>1, <3>1 DEF CapacityInv, Unsent
    <3>3. QED
      BY <1>1, <3>2 DEF CapacityInv, Unsent
  <2>2. ASSUME NEW s \in Reviewers, NEW q \in Reviewers \ {s}
        PROVE  reviews'[s].docs \cap reviews'[q].docs = {}
    <3>1. reviews[s].docs \cap reviews[q].docs = {}
      BY DEF CapacityInv, Unsent
    <3>2. reviews'[s].docs \subseteq reviews[s].docs /\ reviews'[q].docs \subseteq reviews[q].docs
      BY <1>2, <1>3
    <3>3. QED
      BY <3>1, <3>2
  <2>3. uploads' \in [Documents -> Upload] /\ DOMAIN reviews' = Reviewers /\ stale' \in BOOLEAN
    BY <1>1, <1>2 DEF CapacityInv, Unsent
  <2>4. QED
    BY <2>1, <2>2, <2>3 DEF Unsent
<1>5. FiguresRead'
  <2>1. reviews'[r].step = "sum"
    BY <1>2, <1>3
  <2>2. ASSUME ~stale' PROVE \A s \in Reviewers : reviews'[s].step # "total"
    BY <1>1, <1>2, <1>3, <2>2 DEF FigureOut
  <2>3. QED
    BY <2>1, <2>2 DEF FiguresRead
<1>6. QED
  BY <1>4, <1>5 DEF CapacityInv

(* The verified documents are added up.                                       *)
LEMMA ReadVerifiedStep ==
  ASSUME CapacityInv, NEW r \in Reviewers, ReadVerified(r)
  PROVE  CapacityInv'
<1> DEFINE record == [NotReviewing EXCEPT !.step = "total", !.figure = Proven]
<1>1. /\ reviews' = [reviews EXCEPT ![r] = record]
      /\ stale' = (stale /\ FigureOut(r)) /\ UNCHANGED <<uploads, funds>>
  BY DEF ReadVerified
<1>2. /\ record.step = "total" /\ record.docs = {} /\ record.figure = Proven
  BY DEF NotReviewing
<1> HIDE DEF record
<1>3. \A s \in Reviewers : reviews'[s] = IF s = r THEN record ELSE reviews[s]
  BY <1>1 DEF CapacityInv, Unsent
<1>4. Proven' = Proven
  BY <1>1, ProvenKept DEF CapacityInv, Unsent
<1>5. stale' \in BOOLEAN
  <2>1. stale = TRUE \/ stale = FALSE
    BY DEF CapacityInv, Unsent
  <2>2. QED
    BY <1>1, <2>1
<1>6. Unsent'
  BY <1>1, <1>2, <1>3, <1>5 DEF CapacityInv, Unsent
<1>7. FiguresRead'
  <2>1. reviews'[r].step = "total"
    BY <1>2, <1>3
  <2>2. ASSUME ~stale', NEW s \in Reviewers, reviews'[s].step = "total"
        PROVE  reviews'[s].figure = Proven'
    <3>1. CASE s = r
      BY <1>2, <1>3, <1>4, <3>1
    <3>2. CASE s # r
      <4>1. reviews'[s] = reviews[s] /\ FigureOut(r)
        BY <1>3, <2>2, <3>2 DEF FigureOut
      <4>2. ~stale
        BY <1>1, <2>2, <4>1
      <4>3. QED
        BY <1>4, <2>2, <4>1, <4>2 DEF CapacityInv, FiguresRead
    <3>3. QED
      BY <3>1, <3>2
  <2>3. QED
    BY <2>1, <2>2 DEF FiguresRead
<1>8. QED
  BY <1>6, <1>7 DEF CapacityInv

(* A request that leaves the figure alone from here on.                       *)
LEMMA FigureLeft ==
  ASSUME CapacityInv, NEW r \in Reviewers, CloseReview(r), UNCHANGED uploads,
         stale' \in BOOLEAN, stale => stale',
         ~stale' => funds' = Proven \/ (reviews[r].step \notin {"sum", "total"} /\ funds' = funds)
  PROVE  CapacityInv'
<1>1. /\ reviews' = [reviews EXCEPT ![r] = NotReviewing]
      /\ NotReviewing.step = "idle" /\ NotReviewing.docs = {}
  BY DEF CloseReview, NotReviewing
<1>2. \A s \in Reviewers : reviews'[s] = IF s = r THEN NotReviewing ELSE reviews[s]
  BY <1>1 DEF CapacityInv, Unsent
<1>3. Proven' = Proven
  BY ProvenKept DEF CapacityInv, Unsent
<1>4. Unsent'
  BY <1>1, <1>2 DEF CapacityInv, Unsent
<1>5. FiguresRead'
  <2>1. SUFFICES ASSUME ~stale'
                 PROVE  /\ \A s \in Reviewers :
                             reviews'[s].step = "total" => reviews'[s].figure = Proven'
                        /\ \/ \E s \in Reviewers : reviews'[s].step \in {"sum", "total"}
                           \/ funds' = Proven'
    BY DEF FiguresRead
  <2>2. /\ \A s \in Reviewers : reviews[s].step = "total" => reviews[s].figure = Proven
        /\ \/ \E s \in Reviewers : reviews[s].step \in {"sum", "total"}
           \/ funds = Proven
    BY <2>1 DEF CapacityInv, FiguresRead
  <2>3. \A s \in Reviewers : reviews'[s].step = "total" => reviews'[s].figure = Proven'
    BY <1>1, <1>2, <1>3, <2>2
  <2>4. CASE funds' = Proven
    BY <1>3, <2>3, <2>4
  <2>5. CASE reviews[r].step \notin {"sum", "total"} /\ funds' = funds
    <3>1. \A s \in Reviewers : reviews[s].step \in {"sum", "total"} => reviews'[s] = reviews[s]
      BY <1>2, <2>5
    <3>2. QED
      BY <1>3, <2>2, <2>3, <2>5, <3>1
  <2>6. QED
    BY <2>1, <2>4, <2>5
<1>6. QED
  BY <1>4, <1>5 DEF CapacityInv

(* The figure is written: it is the one just read.                            *)
LEMMA WriteFundsStep ==
  ASSUME CapacityInv, NEW r \in Reviewers, WriteFunds(r)
  PROVE  CapacityInv'
<1>1. /\ reviews[r].step = "total" /\ funds' = reviews[r].figure
      /\ CloseReview(r) /\ UNCHANGED <<uploads, stale>>
  BY DEF WriteFunds
<1>2. ~stale => funds' = Proven
  BY <1>1 DEF CapacityInv, FiguresRead
<1>3. stale' \in BOOLEAN
  BY <1>1 DEF CapacityInv, Unsent
<1>4. QED
  BY <1>1, <1>2, <1>3, FigureLeft

(* A request that stops may leave the figure stale, and says so.              *)
LEMMA ReviewStopsStep ==
  ASSUME CapacityInv, NEW r \in Reviewers, ReviewStops(r)
  PROVE  CapacityInv'
<1>1. /\ CloseReview(r) /\ UNCHANGED <<uploads, funds>>
      /\ stale' = (stale \/ reviews[r].step \in {"sum", "total"})
  BY DEF ReviewStops
<1>2. stale' \in BOOLEAN
  <2>1. stale = TRUE \/ stale = FALSE
    BY DEF CapacityInv, Unsent
  <2>2. QED
    BY <1>1, <2>1
<1>3. ~stale' => reviews[r].step \notin {"sum", "total"} /\ funds' = funds
  BY <1>1
<1>4. QED
  BY <1>1, <1>2, <1>3, FigureLeft

(* A request about the case's own status goes a step on, or ends.             *)
LEMMA CaseWork ==
  ASSUME CapacityInv, NEW r \in Reviewers, NEW status, NEW step \in {"assign", "count", "close"},
         reviews[r].step \notin {"sum", "total"},
         reviews' = [reviews EXCEPT ![r] =
           [NotReviewing EXCEPT !.step = step, !.status = status]],
         UNCHANGED <<uploads, funds, stale>>
  PROVE  CapacityInv'
<1> DEFINE record == [NotReviewing EXCEPT !.step = step, !.status = status]
<1>1. record.step = step /\ record.docs = {}
  BY DEF NotReviewing
<1>2. reviews' = [reviews EXCEPT ![r] = record]
  OBVIOUS
<1> HIDE DEF record
<1>3. QED
  BY <1>1, <1>2, OtherWork

(* A request that ends without a figure leaves the documents alone.           *)
LEMMA CaseLeft ==
  ASSUME CapacityInv, NEW r \in Reviewers, CloseReview(r),
         reviews[r].step \notin {"sum", "total"}, UNCHANGED <<uploads, funds, stale>>
  PROVE  CapacityInv'
<1>1. stale' \in BOOLEAN
  BY DEF CapacityInv, Unsent
<1>2. QED
  BY <1>1, FigureLeft

(* The steps of the case itself leave documents and figure alone.             *)
LEMMA CaseSteps ==
  ASSUME CapacityInv, NEW r \in Reviewers,
         \/ \E somebody \in BOOLEAN : AssignReviewer(r, somebody)
         \/ \E status \in CaseStatus : ReviewCase(r, status)
         \/ CountUndecided(r) \/ WriteCase(r)
  PROVE  CapacityInv'
<1>1. NotReviewing.step = "idle"
  BY DEF NotReviewing
<1>2. ASSUME NEW somebody \in BOOLEAN, AssignReviewer(r, somebody) PROVE CapacityInv'
  BY <1>1, <1>2, CaseWork DEF AssignReviewer, OpenReview
<1>3. ASSUME NEW status \in CaseStatus, ReviewCase(r, status) PROVE CapacityInv'
  <2> DEFINE step == IF status = "COMPLETED" THEN "count" ELSE "close"
             record == [NotReviewing EXCEPT !.step = step, !.status = status]
  <2>1. step \in {"assign", "count", "close"}
    OBVIOUS
  <2>2. [NotReviewing EXCEPT !.status = status, !.step = step] = record
    BY DEF NotReviewing
  <2>3. /\ reviews' = [reviews EXCEPT ![r] = record] /\ reviews[r] = NotReviewing
        /\ UNCHANGED <<uploads, funds, stale>>
    BY <1>3, <2>2 DEF ReviewCase, OpenReview
  <2> HIDE DEF step
  <2>4. QED
    BY <1>1, <2>1, <2>3, CaseWork
<1>4. CASE CountUndecided(r)
  <2>1. reviews[r].step = "count" /\ UNCHANGED <<uploads, funds, stale>>
    BY <1>4 DEF CountUndecided
  <2>2. \/ CloseReview(r)
        \/ reviews' = [reviews EXCEPT ![r] =
             [NotReviewing EXCEPT !.step = "close", !.status = "COMPLETED"]]
    BY <1>4 DEF CountUndecided
  <2>3. QED
    BY <2>1, <2>2, CaseWork, CaseLeft
<1>5. CASE WriteCase(r)
  BY <1>5, CaseLeft DEF WriteCase
<1>6. QED
  BY <1>2, <1>3, <1>4, <1>5

(* Every step of a request keeps the inductive invariant.                     *)
LEMMA CapacityStep == CapacityInv /\ [CapacityNext]_capacityVars => CapacityInv'
<1> SUFFICES ASSUME CapacityInv, [CapacityNext]_capacityVars PROVE CapacityInv'
  OBVIOUS
<1>1. CASE UNCHANGED capacityVars
  <2>1. Proven' = Proven
    BY <1>1, ProvenKept DEF capacityVars, CapacityInv, Unsent
  <2>2. QED
    BY <1>1, <2>1 DEF capacityVars, CapacityInv, Unsent, FiguresRead
<1>2. ASSUME NEW r \in Reviewers, NEW docs \in SUBSET Documents, SubmitDocuments(r, docs)
      PROVE  CapacityInv'
  BY <1>2, SubmitDocumentsStep
<1>3. ASSUME NEW r \in Reviewers, NEW d \in Documents, NEW verdict \in Verdicts,
             NEW amount \in Amounts \cup {0}, ReviewDocument(r, d, verdict, amount)
      PROVE  CapacityInv'
  BY <1>3, ReviewDocumentStep
<1>4. ASSUME NEW r \in Reviewers,
             \/ \E somebody \in BOOLEAN : AssignReviewer(r, somebody)
             \/ \E status \in CaseStatus : ReviewCase(r, status)
             \/ CountUndecided(r) \/ WriteCase(r)
      PROVE  CapacityInv'
  BY <1>4, CaseSteps
<1>5. ASSUME NEW r \in Reviewers,
             StoreDocuments(r) \/ ReadVerified(r) \/ WriteFunds(r) \/ ReviewStops(r)
      PROVE  CapacityInv'
  BY <1>5, StoreDocumentsStep, ReadVerifiedStep, WriteFundsStep, ReviewStopsStep
<1>6. QED
  BY <1>1, <1>2, <1>3, <1>4, <1>5 DEF CapacityNext

(* The figure of a buyer's funds is what the verified documents add up to,    *)
(* unless one verdict came between another's reading and writing or a request *)
(* stopped in between, for any number of documents, amounts and requests.     *)
THEOREM FundsAddUp == CapacitySpec => []VerifiedFundsAddUp
<1>1. CapacitySpec => []CapacityInv
  BY CapacityBegins, CapacityStep, PTL DEF CapacitySpec
<1>2. CapacityInv => VerifiedFundsAddUp
  BY DEF CapacityInv, FiguresRead, VerifiedFundsAddUp
<1>3. QED
  BY <1>1, <1>2, PTL

--------------------------------------------------------------------------------
(* Every state of the four services has its type.  That what the documents    *)
(* show between them is a number takes an induction over the set they are     *)
(* added up from: were the sum of some set no number, that of a smallest such *)
(* set would be one member more than a number.                                *)

(* The member that is added next.                                             *)
AnyOf(s) == CHOOSE x \in s : TRUE

(* The sets of up to n members of S, and the sum of f over each of them: one  *)
(* member added to the sum of the others.                                     *)
UpTo(S, n) == {s \in SUBSET S : Cardinality(s) <= n}

OneMore(f, g, s) == IF s = {} THEN 0 ELSE f[AnyOf(s)] + g[s \ {AnyOf(s)}]

SumsUpTo(f, S, n, g) ==
  /\ g \in [UpTo(S, n) -> Int]
  /\ \A s \in UpTo(S, n) : g[s] = OneMore(f, g, s)

(* Without one member a finite set is smaller.                                *)
LEMMA OneMember ==
  ASSUME NEW s, IsFiniteSet(s), s # {}
  PROVE  AnyOf(s) \in s /\ Cardinality(s \ {AnyOf(s)}) = Cardinality(s) - 1
         /\ Cardinality(s) \in Nat \ {0}
<1>1. AnyOf(s) \in s
  BY DEF AnyOf
<1>2. QED
  BY <1>1, FS_RemoveElement, FS_CardinalityType, FS_EmptySet

(* Sets of any size have sums, by induction over the size.                    *)
LEMMA SumsOfUpTo ==
  ASSUME NEW S, IsFiniteSet(S), NEW f \in [S -> Int], NEW n \in Nat
  PROVE  \E g : SumsUpTo(f, S, n, g)
<1> DEFINE Without == {k \in Nat : ~ \E g : SumsUpTo(f, S, k, g)}
<1>1. ASSUME NEW m \in Without, \A k \in Without : ~(<<k, m>> \in OpToRel(<, Nat))
      PROVE  FALSE
  <2> DEFINE Less(s) == s \ {AnyOf(s)}
  <2>1. \A s \in UpTo(S, m) : s # {} => AnyOf(s) \in S /\ m # 0 /\ Less(s) \in UpTo(S, m - 1)
    <3> SUFFICES ASSUME NEW s \in UpTo(S, m), s # {}
                 PROVE  AnyOf(s) \in S /\ m # 0 /\ Less(s) \in UpTo(S, m - 1)
      OBVIOUS
    <3>1. IsFiniteSet(s)
      BY FS_Subset DEF UpTo
    <3>2. QED
      BY <3>1, OneMember DEF UpTo
  <2>2. PICK h : m # 0 => SumsUpTo(f, S, m - 1, h)
    <3>1. CASE m = 0
      BY <3>1
    <3>2. CASE m # 0
      <4>1. m - 1 \in Nat /\ <<m - 1, m>> \in OpToRel(<, Nat)
        BY <3>2 DEF OpToRel
      <4>2. QED
        BY <1>1, <4>1
    <3>3. QED
      BY <3>1, <3>2
  <2> DEFINE g == [s \in UpTo(S, m) |-> OneMore(f, h, s)]
  <2>3. \A s \in UpTo(S, m) : OneMore(f, h, s) \in Int
    <3> SUFFICES ASSUME NEW s \in UpTo(S, m), s # {}
                 PROVE  f[AnyOf(s)] + h[Less(s)] \in Int
      BY DEF OneMore
    <3>1. AnyOf(s) \in S /\ m # 0 /\ Less(s) \in UpTo(S, m - 1)
      BY <2>1
    <3>2. h \in [UpTo(S, m - 1) -> Int]
      BY <3>1, <2>2 DEF SumsUpTo
    <3>3. QED
      BY <3>1, <3>2
  <2>4. ASSUME NEW s \in UpTo(S, m) PROVE OneMore(f, g, s) = OneMore(f, h, s)
    <3> SUFFICES ASSUME s # {} PROVE g[Less(s)] = h[Less(s)]
      BY DEF OneMore
    <3>1. Less(s) \in UpTo(S, m - 1) /\ m # 0
      BY <2>1
    <3>2. Less(s) \in UpTo(S, m)
      BY <3>1, FS_Subset, FS_CardinalityType DEF UpTo
    <3>3. h[Less(s)] = OneMore(f, h, Less(s))
      BY <3>1, <2>2 DEF SumsUpTo
    <3>4. QED
      BY <3>2, <3>3
  <2>5. SumsUpTo(f, S, m, g)
    BY <2>3, <2>4 DEF SumsUpTo
  <2>6. QED
    BY <2>5
<1>2. Without = {}
  <2> SUFFICES ASSUME Without # {} PROVE FALSE OBVIOUS
  <2>1. \E m \in Without : \A k \in Without : ~(<<k, m>> \in OpToRel(<, Nat))
    <3> HIDE DEF Without
    <3>1. Without \subseteq Nat
      BY DEF Without
    <3>2. QED
      BY <3>1, NatLessThanWellFounded, WFMin
  <2>2. QED
    BY <2>1, <1>1
<1>3. QED
  BY <1>2

(* A sum of numbers over a finite set is a number.                            *)
LEMMA SumIsNumber ==
  ASSUME NEW S, IsFiniteSet(S), NEW f \in [S -> Int]
  PROVE SumFunction(f) \in Int
<1> DEFINE Sum(h) == [s \in SUBSET S |-> IF s = {} THEN 0
               ELSE LET x == CHOOSE x \in s : TRUE IN f[x] + h[s \ {x}]]
           iter == CHOOSE h : h = Sum(h)
<1>1. SumFunction(f) = iter[S]
  BY DEF SumFunction, SumFunctionOnSet, FoldFunctionOnSet, MapThenFoldSet
<1>2. \E h : h = Sum(h)
  <2>1. PICK g : SumsUpTo(f, S, Cardinality(S), g)
    BY SumsOfUpTo, FS_CardinalityType
  <2>2. UpTo(S, Cardinality(S)) = SUBSET S
    BY FS_Subset DEF UpTo
  <2>3. g \in [SUBSET S -> Int] /\ \A s \in SUBSET S : g[s] = OneMore(f, g, s)
    BY <2>1, <2>2 DEF SumsUpTo
  <2>4. QED
    BY <2>3 DEF OneMore, AnyOf
<1>3. iter = Sum(iter)
  <2> HIDE DEF Sum
  <2>1. QED
    BY <1>2
<1> HIDE DEF iter
<1>4. \A s \in SUBSET S : iter[s] = OneMore(f, iter, s)
  BY <1>3, Zenon DEF OneMore, AnyOf
<1>5. \A s \in SUBSET S : iter[s] \in Int
  <2> DEFINE Wrong == {Cardinality(s) : s \in {t \in SUBSET S : iter[t] \notin Int}}
  <2>1. Wrong \subseteq Nat
    BY FS_Subset, FS_CardinalityType
  <2>2. ASSUME NEW m \in Wrong, \A k \in Wrong : ~(<<k, m>> \in OpToRel(<, Nat)) PROVE FALSE
    <3>1. PICK s \in SUBSET S : iter[s] \notin Int /\ m = Cardinality(s)
      OBVIOUS
    <3>2. s # {}
      <4>1. OneMore(f, iter, {}) = 0
        BY DEF OneMore
      <4>2. iter[{}] = 0
        BY <1>4, <4>1, Zenon
      <4>3. QED
        BY <3>1, <4>2
    <3> DEFINE less == s \ {AnyOf(s)}
    <3>3. AnyOf(s) \in S /\ less \in SUBSET S /\ Cardinality(less) = m - 1 /\ m \in Nat \ {0}
      BY <3>1, <3>2, OneMember, FS_Subset
    <3>4. <<m - 1, m>> \in OpToRel(<, Nat)
      BY <3>3 DEF OpToRel
    <3>5. iter[less] \in Int
      BY <2>2, <3>3, <3>4
    <3>6. iter[s] = f[AnyOf(s)] + iter[less]
      <4>1. iter[s] = OneMore(f, iter, s)
        BY <1>4
      <4>2. OneMore(f, iter, s) = f[AnyOf(s)] + iter[less]
        BY <3>2 DEF OneMore
      <4>3. QED
        BY <4>1, <4>2
    <3> HIDE DEF less
    <3>7. f[AnyOf(s)] \in Int
      BY <3>3
    <3>8. iter[s] \in Int
      BY <3>5, <3>6, <3>7
    <3>9. QED
      BY <3>1, <3>8
  <2>3. Wrong = {}
    <3> HIDE DEF Wrong
    <3>1. CASE Wrong # {}
      <4>1. PICK m \in Wrong : \A k \in Wrong : ~(<<k, m>> \in OpToRel(<, Nat))
        BY <2>1, <3>1, NatLessThanWellFounded, WFMin
      <4>2. QED
        BY <4>1, <2>2
    <3>2. QED
      BY <3>1
  <2>4. QED
    BY <2>3
<1>6. QED
  BY <1>1, <1>5

(* What is proven is a number, or that there is none.                         *)
LEMMA ProvenIsNumber == uploads \in [Documents -> Upload] => Proven \in Int
<1> SUFFICES ASSUME uploads \in [Documents -> Upload] PROVE Proven \in Int
  OBVIOUS
<1>1. IsFiniteSet(Verified)
  BY AcquisitionCapacityAssumption, FS_Subset DEF Verified
<1>2. ASSUME NEW d \in Verified PROVE uploads[d].amount \in Int
  <2>1. uploads[d].amount \in Amounts \cup {0}
    BY DEF Verified, Upload
  <2>2. \A x \in Amounts \cup {0} : x \in Int
    BY AcquisitionCapacityAssumption
  <2>3. QED
    BY <2>1, <2>2
<1>3. [d \in Verified |-> uploads[d].amount] \in [Verified -> Int]
  BY <1>2
<1>4. SumFunction([d \in Verified |-> uploads[d].amount]) \in Int
  BY <1>1, <1>3, SumIsNumber
<1>5. NoFigure \in Int
  BY DEF NoFigure
<1>6. QED
  BY <1>4, <1>5, Zenon DEF Proven

(* A request is handed a record of its type, or hands its own back.           *)
LEMMA ReviewsTyped ==
  ASSUME CapacityTypeOK, NEW r \in Reviewers
  PROVE  /\ NotReviewing \in Review
         /\ CloseReview(r) => reviews' \in [Reviewers -> Review]
         /\ \A record \in Review : OpenReview(r, record) => reviews' \in [Reviewers -> Review]
<1>1. NotReviewing \in Review
  BY DEF NotReviewing, Review, NoFigure, CaseStatus
<1>2. QED
  BY <1>1 DEF CloseReview, OpenReview, CapacityTypeOK

(* Every step of a request keeps the type.                                    *)
LEMMA CapacityTyped == CapacityTypeOK /\ [CapacityNext]_capacityVars => CapacityTypeOK'
<1> SUFFICES ASSUME CapacityTypeOK, [CapacityNext]_capacityVars PROVE CapacityTypeOK'
  OBVIOUS
<1>1. CASE UNCHANGED capacityVars
  BY <1>1 DEF capacityVars, CapacityTypeOK
<1>2. ASSUME NEW r \in Reviewers, NEW docs \in SUBSET Documents, SubmitDocuments(r, docs)
      PROVE  CapacityTypeOK'
  <2>1. [NotReviewing EXCEPT !.step = "upload", !.docs = docs] \in Review
    BY ReviewsTyped DEF NotReviewing, Review
  <2>2. QED
    BY <1>2, <2>1, ReviewsTyped DEF SubmitDocuments, CapacityTypeOK, CaseStatus
<1>3. ASSUME NEW r \in Reviewers, NEW d \in Documents, NEW verdict \in Verdicts,
             NEW amount \in Amounts \cup {0}, ReviewDocument(r, d, verdict, amount)
      PROVE  CapacityTypeOK'
  <2>1. [NotReviewing EXCEPT !.step = "sum"] \in Review
    BY ReviewsTyped DEF NotReviewing, Review
  <2>2. [status |-> verdict, amount |-> amount] \in Upload
    BY DEF Upload
  <2>3. QED
    BY <1>3, <2>1, <2>2, ReviewsTyped DEF ReviewDocument, CapacityTypeOK
<1>4. ASSUME NEW r \in Reviewers, NEW somebody \in BOOLEAN, AssignReviewer(r, somebody)
      PROVE  CapacityTypeOK'
  <2> DEFINE status == IF somebody /\ case = "UNASSIGNED" THEN "IN_REVIEW" ELSE case
  <2>1. status \in CaseStatus
    BY <1>4 DEF AssignReviewer, CapacityTypeOK, CaseStatus
  <2> HIDE DEF status
  <2>2. [NotReviewing EXCEPT !.step = "assign", !.status = status] \in Review
    BY <2>1, ReviewsTyped DEF NotReviewing, Review
  <2>3. QED
    BY <1>4, <2>2, ReviewsTyped DEF AssignReviewer, CapacityTypeOK, status
<1>5. ASSUME NEW r \in Reviewers, NEW status \in CaseStatus, ReviewCase(r, status)
      PROVE  CapacityTypeOK'
  <2> DEFINE step == IF status = "COMPLETED" THEN "count" ELSE "close"
  <2>1. [NotReviewing EXCEPT !.status = status, !.step = step] \in Review
    BY ReviewsTyped DEF NotReviewing, Review
  <2>2. QED
    BY <1>5, <2>1, ReviewsTyped DEF ReviewCase, CapacityTypeOK
<1>6. ASSUME NEW r \in Reviewers, StoreDocuments(r) PROVE CapacityTypeOK'
  <2>1. [status |-> "IN_REVIEW", amount |-> 0] \in Upload
    BY DEF Upload, Verdicts
  <2>2. QED
    BY <1>6, <2>1, ReviewsTyped DEF StoreDocuments, CapacityTypeOK
<1>7. ASSUME NEW r \in Reviewers, ReadVerified(r) PROVE CapacityTypeOK'
  <2>1. [NotReviewing EXCEPT !.step = "total", !.figure = Proven] \in Review
    BY ReviewsTyped, ProvenIsNumber DEF NotReviewing, Review, CapacityTypeOK
  <2>2. stale' \in BOOLEAN
    BY <1>7 DEF ReadVerified, FigureOut, CapacityTypeOK
  <2>3. QED
    BY <1>7, <2>1, <2>2 DEF ReadVerified, CapacityTypeOK
<1>8. ASSUME NEW r \in Reviewers, WriteFunds(r) PROVE CapacityTypeOK'
  BY <1>8, ReviewsTyped DEF WriteFunds, CapacityTypeOK, Review
<1>9. ASSUME NEW r \in Reviewers, CountUndecided(r) PROVE CapacityTypeOK'
  <2>1. [NotReviewing EXCEPT !.step = "close", !.status = "COMPLETED"] \in Review
    BY ReviewsTyped DEF NotReviewing, Review, CaseStatus
  <2>2. reviews' \in [Reviewers -> Review]
    BY <1>9, <2>1, ReviewsTyped DEF CountUndecided, CapacityTypeOK
  <2>3. QED
    BY <1>9, <2>2 DEF CountUndecided, CapacityTypeOK
<1>10. ASSUME NEW r \in Reviewers, WriteCase(r) PROVE CapacityTypeOK'
  BY <1>10, ReviewsTyped DEF WriteCase, CapacityTypeOK, Review
<1>11. ASSUME NEW r \in Reviewers, ReviewStops(r) PROVE CapacityTypeOK'
  BY <1>11, ReviewsTyped DEF ReviewStops, CapacityTypeOK
<1>12. QED
  BY <1>1, <1>2, <1>3, <1>4, <1>5, <1>6, <1>7, <1>8, <1>9, <1>10, <1>11 DEF CapacityNext

(* What holds of the state of all four services at every step of one of them. *)
ServicesInv == ThreadInv /\ CheckInv /\ AccessInv /\ CapacityTypeOK

(* The state of each of the four services has its type, for any number of     *)
(* people, texts, addresses, buyers, documents and requests.                  *)
THEOREM ServicesTyped == ServicesSpec => []ServicesTypeOK
<1>1. ServicesInit => ServicesInv
  <2>1. CapacityInit => CapacityTypeOK
    <3>1. [status |-> "none", amount |-> 0] \in Upload /\ NotReviewing \in Review
      BY DEF Upload, Review, NotReviewing, NoFigure, CaseStatus
    <3>2. NoFigure \in Int
      BY DEF NoFigure
    <3>3. QED
      BY <3>1, <3>2 DEF CapacityInit, CapacityTypeOK
  <2>2. QED
    BY <2>1, ThreadBegins, CheckBegins, AccessBegins DEF ServicesInit, ServicesInv
<1>2. ServicesInv /\ [ServicesNext]_servicesVars => ServicesInv'
  <2>1. [ServicesNext]_servicesVars =>
          [ThreadNext]_threadVars /\ [CheckNext]_checkVars
            /\ [AccessNext]_accessVars /\ [CapacityNext]_capacityVars
    BY DEF ServicesNext, servicesVars
  <2>2. QED
    BY <2>1, ThreadStep, CheckStep, AccessStep, CapacityTyped DEF ServicesInv
<1>3. ServicesInv => ServicesTypeOK
  BY DEF ServicesInv, ServicesTypeOK, CheckInv, AccessInv, ThreadInv, RowsFit, CallsFit, FlagsFit,
         ThreadTypeOK
<1>4. QED
  BY <1>1, <1>2, <1>3, PTL DEF ServicesSpec
================================================================================
