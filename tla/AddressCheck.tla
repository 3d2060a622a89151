----------------------------- MODULE AddressCheck ------------------------------
(* Changing the email address, or the telephone number, of an account by a code *)
(* sent to the new one: EmailChangeService and PhoneVerificationService, which  *)
(* differ in one thing, that an email address must be no other account's.  The  *)
(* column has a writer that asks for no code, the account's form (updateUser):  *)
(* a member's own number, and either address when an admin saves the form.      *)
(* Requests overlap: each database call or mail of one is a step of its own.    *)
EXTENDS Integers

CONSTANTS
  Addresses,    \* the addresses there are
  NoAddress,    \* pending_email, pending_phone: null
  Clerks,       \* requests being served at once
  MaxCodes,     \* bound: codes ever issued
  MaxGuesses    \* MAX_ATTEMPTS

ASSUME AddressCheckAssumption ==
  /\ MaxCodes \in Nat /\ MaxGuesses \in Nat \ {0}
  /\ NoAddress \notin Addresses

VARIABLES
  channel,      \* which of the two services this is
  challenge,    \* the account's pending address, code, age of the code, wrong guesses
  address,      \* the account's address, NoAddress while a number was never given
  others,       \* the addresses of other accounts
  clerks,       \* what each request being served is about to do
  lastCode,     \* codes issued so far
  \* history
  mailed,       \* which code went to which address
  provedBy      \* the code that was entered for the address the account has; none
                \* for one it began with, or one that the account's form wrote

checkVars == <<channel, challenge, address, others, clerks, lastCode, mailed, provedBy>>

Codes == 1..MaxCodes
NoCode == 0
Ages == {"new", "old", "expired"}
Challenge == [pending : Addresses \cup {NoAddress}, code : Codes \cup {NoCode},
              age : Ages \cup {"none"}, guesses : Nat]
Clerk == [step : {"idle", "write", "mail", "clear", "miss", "free", "accept", "form"},
          to : Addresses \cup {NoAddress}, code : Codes \cup {NoCode}, guesses : Nat]

AtRest == [step |-> "idle", to |-> NoAddress, code |-> NoCode, guesses |-> 0]
NoChallenge == [pending |-> NoAddress, code |-> NoCode, age |-> "none", guesses |-> 0]

CheckInit ==
  /\ channel \in {"email", "phone"}
  /\ challenge = NoChallenge
  /\ \E a \in Addresses : address = IF channel = "email" THEN a ELSE NoAddress
  /\ others = {}
  /\ clerks = [c \in Clerks |-> AtRest]
  /\ lastCode = 0
  /\ mailed = {}
  /\ provedBy = NoCode

--------------------------------------------------------------------------------

Serve(c, record) == clerks' = [clerks EXCEPT ![c] = record]
Dismiss(c) == Serve(c, AtRest)

\* A new code only once the last one has had its minute
MaySend == challenge.age # "new"

\* The row is read, and the address may not be another account's
SendCode(c, a) ==
  /\ clerks[c] = AtRest
  /\ channel = "email" => a # address /\ a \notin others
  /\ MaySend
  /\ lastCode < MaxCodes
  /\ Serve(c, [AtRest EXCEPT !.step = "write", !.to = a])
  /\ UNCHANGED <<channel, challenge, address, others, lastCode, mailed, provedBy>>

\* A challenge in the row; a code is one in a million, and never issued twice here
WriteChallenge(c) ==
  /\ clerks[c].step = "write"
  /\ lastCode < MaxCodes
  /\ lastCode' = lastCode + 1
  /\ challenge' = [pending |-> clerks[c].to, code |-> lastCode', age |-> "new", guesses |-> 0]
  /\ Serve(c, [clerks[c] EXCEPT !.step = "mail", !.code = lastCode'])
  /\ UNCHANGED <<channel, address, others, mailed, provedBy>>

\* The code goes out, or the message fails and the code is withdrawn
Mail(c) ==
  /\ clerks[c].step = "mail"
  /\ \/ mailed' = mailed \cup {<<clerks[c].code, clerks[c].to>>} /\ Dismiss(c)
     \/ Serve(c, [AtRest EXCEPT !.step = "clear"]) /\ UNCHANGED mailed
  /\ UNCHANGED <<channel, challenge, address, others, lastCode, provedBy>>

\* Whatever code the row holds by now; the pending address is left
ClearChallenge(c) ==
  /\ clerks[c].step = "clear"
  /\ challenge' = [NoChallenge EXCEPT !.pending = challenge.pending]
  /\ Dismiss(c)
  /\ UNCHANGED <<channel, address, others, lastCode, mailed, provedBy>>

\* The row is read once, its pending address and its code together
VerifyCode(c, guess) ==
  /\ clerks[c] = AtRest
  /\ challenge.code # NoCode /\ challenge.pending # NoAddress
  /\ Serve(c,
       CASE challenge.age = "expired" \/ challenge.guesses >= MaxGuesses ->
              [AtRest EXCEPT !.step = "clear"]
         [] challenge.age # "expired" /\ challenge.guesses < MaxGuesses
              /\ guess # challenge.code ->
              [AtRest EXCEPT !.step = "miss", !.guesses = challenge.guesses + 1]
         [] OTHER ->
              [AtRest EXCEPT !.step = IF channel = "email" THEN "free" ELSE "accept",
                             !.to = challenge.pending, !.code = challenge.code])
  /\ UNCHANGED <<channel, challenge, address, others, lastCode, mailed, provedBy>>

Miss(c) ==
  /\ clerks[c].step = "miss"
  /\ challenge' = [challenge EXCEPT !.guesses = clerks[c].guesses]
  /\ Dismiss(c)
  /\ UNCHANGED <<channel, address, others, lastCode, mailed, provedBy>>

\* Someone may have claimed the address meanwhile
AssertFree(c) ==
  /\ clerks[c].step = "free"
  /\ IF clerks[c].to \in others THEN Dismiss(c) ELSE Serve(c, [clerks[c] EXCEPT !.step = "accept"])
  /\ UNCHANGED <<channel, challenge, address, others, lastCode, mailed, provedBy>>

\* A mistake: the address the row holds by now, whichever code was asked about
AcceptedNow(c) == challenge.pending

\* The address that was read is the account's, and the challenge is spent
Accepted(c) == clerks[c].to

Accept(c) ==
  /\ clerks[c].step = "accept"
  /\ address' = Accepted(c)
  /\ challenge' = NoChallenge
  /\ provedBy' = clerks[c].code
  /\ Dismiss(c)
  /\ UNCHANGED <<channel, others, lastCode, mailed>>

\* The form is saved: an email address may not be another account's, a number may
\* be anything, or be taken out
SaveForm(c, a) ==
  /\ clerks[c] = AtRest
  /\ channel = "email" => a \in Addresses \ others
  /\ Serve(c, [AtRest EXCEPT !.step = "form", !.to = a])
  /\ UNCHANGED <<channel, challenge, address, others, lastCode, mailed, provedBy>>

\* What was typed is the address; a challenge under way is left as it is
UpdateUser(c) ==
  /\ clerks[c].step = "form"
  /\ address' = clerks[c].to
  /\ provedBy' = IF address' = address THEN provedBy ELSE NoCode
  /\ Dismiss(c)
  /\ UNCHANGED <<channel, challenge, others, lastCode, mailed>>

\* Another account takes an address nobody has
OtherTakes(a) ==
  /\ a \notin others /\ a # address
  /\ others' = others \cup {a}
  /\ UNCHANGED <<channel, challenge, address, clerks, lastCode, mailed, provedBy>>

\* The minute between codes, then the ten minutes of a code, go by
CodeAges ==
  /\ challenge.age \in {"new", "old"}
  /\ challenge' = [challenge EXCEPT !.age = IF challenge.age = "new" THEN "old" ELSE "expired"]
  /\ UNCHANGED <<channel, address, others, clerks, lastCode, mailed, provedBy>>

\* A database call fails, or the process stops: the request ends where it is
GiveUp(c) ==
  /\ clerks[c] # AtRest
  /\ Dismiss(c)
  /\ UNCHANGED <<channel, challenge, address, others, lastCode, mailed, provedBy>>

\* A code that is entered is one that came, or a wrong one
Entered == {m[1] : m \in mailed} \cup {NoCode}

CheckNext ==
  \/ \E c \in Clerks :
       \/ \E a \in Addresses : SendCode(c, a)
       \/ \E guess \in Entered : VerifyCode(c, guess)
       \/ \E a \in Addresses \cup {NoAddress} : SaveForm(c, a)
       \/ UpdateUser(c)
       \/ WriteChallenge(c) \/ Mail(c) \/ ClearChallenge(c) \/ Miss(c)
       \/ AssertFree(c) \/ Accept(c) \/ GiveUp(c)
  \/ \E a \in Addresses : OtherTakes(a)
  \/ CodeAges

CheckSpec == CheckInit /\ [][CheckNext]_checkVars

--------------------------------------------------------------------------------

\* The check's state has its type.
CheckTypeOK ==
  /\ channel \in {"email", "phone"}
  /\ challenge \in Challenge
  /\ address \in Addresses \cup {NoAddress}
  /\ others \subseteq Addresses
  /\ clerks \in [Clerks -> Clerk]
  /\ lastCode \in 0..MaxCodes
  /\ mailed \subseteq Codes \X Addresses
  /\ provedBy \in Codes \cup {NoCode}

\* What verifyCode makes the account's address is the address that very code was
\* sent to: no order of codes, guesses, failing mails, saved forms and overlapping
\* requests makes an address the account's by a code that was sent to another. Of
\* an address that the form wrote nothing is claimed.
AddressWasProved == provedBy # NoCode => <<provedBy, address>> \in mailed

\* phone-verification.service.ts:9-12: the number somebody types only becomes
\* their real number once a code sent to it comes back.
NumbersComeByCode == channel = "phone" /\ address # NoAddress => provedBy # NoCode

================================================================================
