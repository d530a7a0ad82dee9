------------------------ MODULE RuleForwardingProofs ------------------------
(***************************************************************************)
(* Proofs about the rules, for any messages and any list of rules.         *)
(*                                                                         *)
(* TypeOK is not inductive: that what is sent is a message needs MailOf,   *)
(* what the clone says at each step.  The other properties also need that  *)
(* a rule not reached yet has done nothing, and how the subscriptions made *)
(* and those left add up.  Each of these accounts is of one dispatch, and  *)
(* a step touches only one; what they share is the parsed message.         *)
(***************************************************************************)
EXTENDS RuleForwarding, SequenceTheorems, TLAPS

(* A rule the loop has not reached is not dispatched.                      *)
NotReached ==
  \A m \in Message, r \in Rule : r >= next[m] => step[<<m, r>>] = "none"

(* No dispatch changes the message the others clone.                       *)
ParsedIsOriginal == \A m \in Message : parsed[m] \in {NULL, Original}

(* The clone is the original until it is populated.                        *)
Before(f) == IF SettingOf(f).retry THEN {"populate"} ELSE {"connect", "populate"}
After(f) ==
  {"send", "disconnect"} \union (IF SettingOf(f).retry THEN {"connect"} ELSE {})

MailOf(f) ==
  /\ step[f] \in Before(f) => mail[f] = Original
  /\ step[f] \in After(f) => mail[f] = AddressesOf(f[2])
  /\ step[f] \in Before(f) \union After(f) => SettingOf(f).matches[f[1]] = "yes"

(* Subscriptions made and left are those configured, less the one a        *)
(* dispatch is about to make.                                              *)
Trying == {"populate", "connect", "send", "disconnect", "sent", "unmatched"}

SubscriptionsOf(f) ==
  /\ step[f] \in {"none", "refused"} => attempts[f] = 0
  /\ IF SettingOf(f).retry
     THEN /\ step[f] \in {"load", "wait"} => attempts[f] + left[f] = Budget(SettingOf(f)) - 1
          /\ step[f] \in Trying => attempts[f] + left[f] = Budget(SettingOf(f))
          /\ step[f] = "logged" => attempts[f] = Budget(SettingOf(f))
          /\ step[f] = "dropped" =>
               /\ SettingOf(f).attempts = 0
               /\ attempts[f] > 0 => attempts[f] <= Budget(SettingOf(f))
     ELSE /\ step[f] # "wait" /\ attempts[f] <= 1
          /\ step[f] = "load" => attempts[f] = 0

(* The copy of the attempt under way is not among those handed over, until *)
(* it was sent.  Those that were are the rule's own.                       *)
CopiesOf(f) ==
  /\ Len(accepted[f]) <= attempts[f]
  /\ step[f] \in {"populate", "connect", "send"} => Len(accepted[f]) < attempts[f]
  /\ step[f] \in {"disconnect", "sent"} => Len(accepted[f]) > 0
  /\ \A i \in DOMAIN accepted[f] :
       accepted[f][i] = AddressesOf(f[2]) /\ SettingOf(f).matches[f[1]] = "yes"

IInv ==
  /\ TypeOK /\ NotReached /\ ParsedIsOriginal
  /\ \A f \in Forward : MailOf(f) /\ SubscriptionsOf(f) /\ CopiesOf(f)

-----------------------------------------------------------------------------
(* Rules and failures                                                      *)

LEMMA SettingTyped ==
  ASSUME NEW f \in Forward
  PROVE  /\ f = <<f[1], f[2]>> /\ f[1] \in Message /\ f[2] \in Rule
         /\ f[2] \in 1..Len(Rules) /\ Len(Rules) \in Nat
         /\ SettingOf(f).retry \in BOOLEAN
         /\ SettingOf(f).attempts \in Int /\ SettingOf(f).delay \in Int
         /\ SettingOf(f).matches[f[1]] \in {"yes", "no", "throws"}
<1>1. Rules[f[2]] \in Setting /\ f[2] \in 1..Len(Rules) /\ Len(Rules) \in Nat
  BY RulesAssumption DEF Forward, Rule
<1> QED BY <1>1 DEF Forward, Rule, SettingOf, Setting

(* What a failure does to its dispatch, and that it touches no other.      *)
FailureOf(f) ==
  /\ \/ /\ SettingOf(f).retry /\ left[f] > 0
        /\ left' = [left EXCEPT ![f] = left[f] - 1]
        /\ \E s \in {"load", "wait"} : step' = [step EXCEPT ![f] = s]
     \/ /\ SettingOf(f).retry /\ ~(left[f] > 0) /\ left' = left
        /\ \/ step' = [step EXCEPT ![f] = "dropped"] /\ SettingOf(f).attempts = 0
           \/ step' = [step EXCEPT ![f] = "logged"] /\ SettingOf(f).attempts # 0
     \/ /\ ~SettingOf(f).retry /\ left' = left
        /\ \E s \in {"dropped", "logged"} : step' = [step EXCEPT ![f] = s]

LEMMA SendFailure ==
  ASSUME NEW f \in Forward, HandleSendFailure(f) PROVE FailureOf(f)
BY SettingTyped DEF HandleSendFailure, OnError, Go, FailureOf

LEMMA LoadFailure ==
  ASSUME NEW f \in Forward, LoadFailed(f) PROVE FailureOf(f) /\ mail' = mail
BY SettingTyped DEF LoadFailed, OnError, Go, FailureOf

(* How a dispatch begins.                                                  *)
BeginOf(f) ==
  \/ /\ SettingOf(f).retry /\ left' = left
     /\ \/ step' = [step EXCEPT ![f] = "refused"]
        \/ step' = [step EXCEPT ![f] = "dropped"] /\ SettingOf(f).attempts = 0
  \/ /\ SettingOf(f).retry
     /\ \E l \in Nat : l = Budget(SettingOf(f)) - 1 /\ left' = [left EXCEPT ![f] = l]
     /\ step' = [step EXCEPT ![f] = "load"]
  \/ /\ ~SettingOf(f).retry /\ left' = left
     /\ step' = [step EXCEPT ![f] = "load"]

LEMMA Begins ==
  ASSUME NEW f \in Forward, DispatchRule(f) PROVE BeginOf(f)
<1>1. SettingOf(f).attempts \in Int /\ SettingOf(f).delay \in Int
  BY SettingTyped
<1>2. CASE SettingOf(f).retry /\ (SettingOf(f).attempts < 0 \/ SettingOf(f).delay < 0)
  BY <1>2 DEF DispatchRule, RetryWithDelay, Go, BeginOf
<1>3. CASE /\ SettingOf(f).retry /\ ~(SettingOf(f).attempts < 0 \/ SettingOf(f).delay < 0)
           /\ SettingOf(f).delay = 0 /\ SettingOf(f).attempts = 0
  BY <1>3 DEF DispatchRule, RetryWithDelay, Go, BeginOf
<1>4. CASE /\ SettingOf(f).retry /\ ~(SettingOf(f).attempts < 0 \/ SettingOf(f).delay < 0)
           /\ ~(SettingOf(f).delay = 0 /\ SettingOf(f).attempts = 0)
  <2> DEFINE l == IF SettingOf(f).delay = 0 THEN SettingOf(f).attempts - 1 ELSE SettingOf(f).attempts
  <2>1. left' = [left EXCEPT ![f] = l] /\ step' = [step EXCEPT ![f] = "load"]
    BY <1>4 DEF DispatchRule, RetryWithDelay, Go
  <2>2. l \in Nat /\ l = Budget(SettingOf(f)) - 1
    BY <1>1, <1>4 DEF Budget
  <2> QED BY <1>4, <2>1, <2>2 DEF BeginOf
<1>5. CASE ~SettingOf(f).retry
  BY <1>5 DEF DispatchRule, Go, BeginOf
<1> QED BY <1>2, <1>3, <1>4, <1>5

LEMMA NextForward ==
  ASSUME TypeOK, NEW m \in Message, Run(m)
  PROVE  /\ <<m, next[m]>> \in Forward
         /\ next' = [next EXCEPT ![m] = next[m] + 1]
         /\ next[m] + 1 \in 0..(Len(Rules) + 1)
         /\ BeginOf(<<m, next[m]>>) \/ (step' = step /\ left' = left)
         /\ UNCHANGED <<up, arrived, files, parsed, mail, attempts, accepted>>
<1>1. next[m] \in Rule /\ Rule = 1..Len(Rules) /\ Len(Rules) \in Nat
  BY RulesAssumption DEF Run, Rule
<1>2. <<m, next[m]>> \in Forward
  BY <1>1 DEF Forward
<1> QED BY <1>1, <1>2, Begins DEF Run

-----------------------------------------------------------------------------
(* Type correctness                                                        *)

LEMMA FailureTyped ==
  ASSUME TypeOK, NEW f \in Forward, FailureOf(f)
  PROVE  step' \in [Forward -> Steps] /\ left' \in [Forward -> Nat]
<1>1. \E s \in Steps : step' = [step EXCEPT ![f] = s]
  BY DEF FailureOf, Steps, Ended
<1>2. left' = left \/ (left[f] > 0 /\ left' = [left EXCEPT ![f] = left[f] - 1])
  BY DEF FailureOf
<1>3. CASE left' = left BY <1>1, <1>3 DEF TypeOK
<1>4. CASE left[f] > 0 /\ left' = [left EXCEPT ![f] = left[f] - 1]
  <2>1. left[f] \in Nat /\ left[f] - 1 \in Nat
    BY <1>4 DEF TypeOK
  <2> QED BY <1>1, <1>4, <2>1 DEF TypeOK
<1> QED BY <1>2, <1>3, <1>4

LEMMA BeginTyped ==
  ASSUME TypeOK, NEW f \in Forward, BeginOf(f)
  PROVE  step' \in [Forward -> Steps] /\ left' \in [Forward -> Nat]
<1>1. \E s \in Steps : step' = [step EXCEPT ![f] = s]
  BY DEF BeginOf, Steps, Ended
<1>2. left' = left \/ \E l \in Nat : left' = [left EXCEPT ![f] = l]
  BY DEF BeginOf
<1> QED BY <1>1, <1>2 DEF TypeOK

(* A dispatch past its load has its clone.                                 *)
LEMMA MailIsThere ==
  ASSUME TypeOK, NEW f \in Forward,
         MailOf(f), step[f] \in {"populate", "send"}
  PROVE  mail[f] \in Addresses
<1>1. step[f] \in Before(f) \union After(f)
  BY DEF Before, After
<1>2. f[2] \in Rule
  BY SettingTyped
<1>3. Original \in Addresses /\ AddressesOf(f[2]) \in Addresses
  BY <1>2 DEF Original, AddressesOf, Addresses
<1> QED BY <1>1, <1>3 DEF MailOf

LEMMA TypesKept ==
  ASSUME TypeOK, \A f \in Forward : MailOf(f), [Next]_vars PROVE TypeOK'
<1> USE DEF TypeOK
<1>1. ASSUME NEW m \in Message, NewMessage(m) PROVE TypeOK'
  BY <1>1 DEF NewMessage
<1>2. ASSUME NEW m \in Message, Wake(m) PROVE TypeOK'
  BY <1>2, RulesAssumption DEF Wake
<1>3. ASSUME NEW m \in Message, Run(m) PROVE TypeOK'
  <2>1. step' \in [Forward -> Steps] /\ left' \in [Forward -> Nat]
    BY <1>3, NextForward, BeginTyped
  <2> QED BY <1>3, <2>1, NextForward
<1>4. ASSUME NEW m \in Message, Expire(m) PROVE TypeOK'
  BY <1>4 DEF Expire
<1>5. ASSUME NEW m \in Message, DeleteMessage(m) PROVE TypeOK'
  BY <1>5 DEF DeleteMessage
<1>6. ASSUME NEW f \in Forward, Load(f) PROVE TypeOK'
  <2>1. step' \in [Forward -> Steps] /\ left' \in [Forward -> Nat]
    <3>1. CASE LoadFailed(f) BY <3>1, LoadFailure, FailureTyped
    <3>2. CASE ~LoadFailed(f) BY <1>6, <3>2 DEF Load, Go, Steps, Ended
    <3> QED BY <3>1, <3>2
  <2>2. f[1] \in Message /\ Original \in Addresses
    BY SettingTyped DEF Original, Addresses
  <2>3. parsed' \in [Message -> Addresses \union {NULL}]
    BY <1>6, <2>2 DEF Load
  <2>4. mail' \in [Forward -> Addresses \union {NULL}]
    BY <1>6, <2>2, <2>3, LoadFailure DEF Load
  <2>5. attempts' \in [Forward -> Nat]
    BY <1>6 DEF Load
  <2> QED BY <1>6, <2>1, <2>3, <2>4, <2>5 DEF Load
<1>7. ASSUME NEW f \in Forward, PopulateMessageFromRule(f) PROVE TypeOK'
  <2>1. CASE mail[f] \in Addresses /\ SettingOf(f).valid
    <3>1. Populated(f) \in Addresses
      BY <2>1, SettingTyped DEF Populated, Addresses
    <3> QED BY <1>7, <2>1, <3>1 DEF PopulateMessageFromRule, Go, Steps
  <2>2. CASE HandleSendFailure(f) /\ UNCHANGED mail
    BY <1>7, <2>2, SendFailure, FailureTyped DEF PopulateMessageFromRule
  <2> QED BY <1>7, <2>1, <2>2, MailIsThere DEF PopulateMessageFromRule
<1>8. ASSUME NEW f \in Forward, CreateConnectedSmtpClient(f) PROVE TypeOK'
  BY <1>8, SendFailure, FailureTyped DEF CreateConnectedSmtpClient, Go, Steps
<1>9. ASSUME NEW f \in Forward, Send(f) PROVE TypeOK'
  <2>1. step' \in [Forward -> Steps] /\ left' \in [Forward -> Nat]
    BY <1>9, SendFailure, FailureTyped DEF Send, Go, Steps
  <2>2. Append(accepted[f], mail[f]) \in Seq(Addresses)
    BY <1>9, MailIsThere, AppendProperties DEF Send
  <2>3. accepted' \in [Forward -> Seq(Addresses)]
    BY <1>9, <2>2 DEF Send
  <2> QED BY <1>9, <2>1, <2>3 DEF Send
<1>10. ASSUME NEW f \in Forward, Disconnect(f) PROVE TypeOK'
  BY <1>10, SendFailure, FailureTyped DEF Disconnect, Go, Steps, Ended
<1>11. ASSUME NEW f \in Forward, Timer(f) PROVE TypeOK'
  BY <1>11 DEF Timer, Go, Steps
<1>12. CASE Stop
  BY <1>12 DEF Stop
<1>13. CASE UNCHANGED vars
  BY <1>13 DEF vars
<1> QED BY <1>1, <1>2, <1>3, <1>4, <1>5, <1>6, <1>7, <1>8, <1>9, <1>10, <1>11, <1>12, <1>13 DEF Next, Dispatch

-----------------------------------------------------------------------------
(* One dispatch                                                            *)

Moves(f) ==
  /\ step[f] # "none" /\ next' = next
  /\ \E s \in Steps \ {"none"} : step' = [step EXCEPT ![f] = s]
  /\ left' = left \/ \E l \in Nat : left' = [left EXCEPT ![f] = l]
  /\ mail' = mail \/ \E x : mail' = [mail EXCEPT ![f] = x]
  /\ attempts' = attempts \/ \E n : attempts' = [attempts EXCEPT ![f] = n]
  /\ accepted' = accepted \/ \E c : accepted' = [accepted EXCEPT ![f] = c]

LEMMA FailureMoves ==
  ASSUME TypeOK, NEW f \in Forward, FailureOf(f)
  PROVE  /\ \E s \in Steps \ {"none"} : step' = [step EXCEPT ![f] = s]
         /\ left' = left \/ \E l \in Nat : left' = [left EXCEPT ![f] = l]
<1>1. \E s \in Steps \ {"none"} : step' = [step EXCEPT ![f] = s]
  BY DEF FailureOf, Steps, Ended
<1>2. CASE left' = left
  BY <1>1, <1>2
<1>3. CASE left[f] > 0 /\ left' = [left EXCEPT ![f] = left[f] - 1]
  <2>1. left[f] - 1 \in Nat
    BY <1>3 DEF TypeOK
  <2> QED BY <1>1, <1>3, <2>1
<1> QED BY <1>2, <1>3 DEF FailureOf

LEMMA OthersStay ==
  ASSUME TypeOK, NEW f \in Forward, Moves(f), NEW g \in Forward, g # f
  PROVE  /\ step'[g] = step[g] /\ left'[g] = left[g] /\ mail'[g] = mail[g]
         /\ attempts'[g] = attempts[g] /\ accepted'[g] = accepted[g]
<1>1. step'[g] = step[g]
  BY DEF Moves, TypeOK
<1>2. left'[g] = left[g]
  BY DEF Moves, TypeOK
<1>3. mail'[g] = mail[g]
  BY DEF Moves, TypeOK
<1>4. attempts'[g] = attempts[g]
  BY DEF Moves, TypeOK
<1>5. accepted'[g] = accepted[g]
  BY DEF Moves, TypeOK
<1> QED BY <1>1, <1>2, <1>3, <1>4, <1>5

LEMMA DispatchMoves ==
  ASSUME TypeOK, NEW f \in Forward, Dispatch(f) PROVE Moves(f)
<1>1. CASE Load(f)
  <2>1. step[f] = "load" /\ next' = next /\ accepted' = accepted
    BY <1>1 DEF Load
  <2>2. attempts' = [attempts EXCEPT ![f] = attempts[f] + 1]
    BY <1>1 DEF Load
  <2>3. CASE LoadFailed(f)
    BY <2>1, <2>2, <2>3, LoadFailure, FailureMoves DEF Moves
  <2>4. CASE ~LoadFailed(f)
    <3>1. \E s \in Steps \ {"none"} : step' = [step EXCEPT ![f] = s]
      BY <1>1, <2>4 DEF Load, Go, Steps, Ended
    <3>2. left' = left /\ (mail' = mail \/ \E x : mail' = [mail EXCEPT ![f] = x])
      BY <1>1, <2>4 DEF Load
    <3> QED BY <2>1, <2>2, <3>1, <3>2 DEF Moves
  <2> QED BY <2>3, <2>4
<1>2. CASE PopulateMessageFromRule(f)
  <2>1. CASE HandleSendFailure(f) /\ UNCHANGED mail
    BY <1>2, <2>1, SendFailure, FailureMoves DEF PopulateMessageFromRule, Moves
  <2> QED BY <1>2, <2>1 DEF PopulateMessageFromRule, Go, Moves, Steps
<1>3. CASE CreateConnectedSmtpClient(f)
  <2>1. CASE HandleSendFailure(f)
    BY <1>3, <2>1, SendFailure, FailureMoves DEF CreateConnectedSmtpClient, Moves
  <2> QED BY <1>3, <2>1 DEF CreateConnectedSmtpClient, Go, Moves, Steps
<1>4. CASE Send(f)
  <2>1. step[f] = "send" /\ UNCHANGED <<next, mail, attempts>>
    BY <1>4 DEF Send
  <2>2. accepted' = accepted \/ \E c : accepted' = [accepted EXCEPT ![f] = c]
    BY <1>4 DEF Send
  <2>3. CASE HandleSendFailure(f)
    BY <2>1, <2>2, <2>3, SendFailure, FailureMoves DEF Moves
  <2>4. CASE Go(f, "disconnect") /\ UNCHANGED left
    BY <2>1, <2>2, <2>4 DEF Moves, Go, Steps
  <2> QED BY <1>4, <2>3, <2>4 DEF Send
<1>5. CASE Disconnect(f)
  <2>1. CASE HandleSendFailure(f)
    BY <1>5, <2>1, SendFailure, FailureMoves DEF Disconnect, Moves
  <2> QED BY <1>5, <2>1 DEF Disconnect, Go, Moves, Steps, Ended
<1>6. CASE Timer(f)
  BY <1>6 DEF Timer, Go, Moves, Steps
<1> QED BY <1>1, <1>2, <1>3, <1>4, <1>5, <1>6 DEF Dispatch

-----------------------------------------------------------------------------
(* A dispatch keeps its own account                                        *)

LEMMA AfterFailure ==
  ASSUME TypeOK, NEW f \in Forward, FailureOf(f), attempts'[f] \in Nat,
         SettingOf(f).retry => attempts'[f] + left[f] = Budget(SettingOf(f)),
         ~SettingOf(f).retry => attempts'[f] <= 1
  PROVE  /\ MailOf(f)' /\ SubscriptionsOf(f)'
         /\ step'[f] \in {"load", "wait", "dropped", "logged"}
<1>1. step'[f] \in {"load", "wait", "dropped", "logged"}
  BY DEF FailureOf, TypeOK
<1>2. MailOf(f)'
  BY <1>1 DEF MailOf, Before, After
<1>3. left[f] \in Nat /\ Budget(SettingOf(f)) \in Int
  BY SettingTyped DEF TypeOK, Budget
<1>4. CASE ~SettingOf(f).retry
  <2>1. step'[f] \in {"dropped", "logged"}
    BY <1>4 DEF FailureOf, TypeOK
  <2> QED BY <1>1, <1>2, <1>4, <2>1 DEF SubscriptionsOf
<1>5. CASE SettingOf(f).retry /\ left[f] > 0
  <2>1. step'[f] \in {"load", "wait"} /\ left'[f] = left[f] - 1
    BY <1>5 DEF FailureOf, TypeOK
  <2>2. attempts'[f] + left'[f] = Budget(SettingOf(f)) - 1
    BY <1>3, <1>5, <2>1
  <2> QED BY <1>1, <1>2, <1>5, <2>1, <2>2 DEF SubscriptionsOf, Trying
<1>6. CASE SettingOf(f).retry /\ ~(left[f] > 0)
  <2>1. \/ step'[f] = "dropped" /\ SettingOf(f).attempts = 0
        \/ step'[f] = "logged"
    BY <1>6 DEF FailureOf, TypeOK
  <2>2. attempts'[f] = Budget(SettingOf(f))
    BY <1>3, <1>6
  <2>3. attempts'[f] <= Budget(SettingOf(f))
    BY <2>2
  <2> QED BY <1>1, <1>2, <1>6, <2>1, <2>2, <2>3 DEF SubscriptionsOf, Trying
<1> QED BY <1>4, <1>5, <1>6

(* What is known of a dispatch in the middle of an attempt.                *)
LEMMA Spending ==
  ASSUME TypeOK, NEW f \in Forward, SubscriptionsOf(f),
         step[f] \in {"populate", "connect", "send", "disconnect"}
  PROVE  /\ attempts[f] \in Nat
         /\ SettingOf(f).retry => attempts[f] + left[f] = Budget(SettingOf(f))
         /\ ~SettingOf(f).retry => attempts[f] <= 1
BY DEF SubscriptionsOf, Trying, TypeOK

(* An attempt goes on to its next step.                                    *)
LEMMA GoesOn ==
  ASSUME TypeOK, NEW f \in Forward, SubscriptionsOf(f),
         step[f] \in {"populate", "connect", "send", "disconnect"},
         step'[f] \in {"populate", "connect", "send", "disconnect", "sent"},
         left' = left, attempts' = attempts
  PROVE  SubscriptionsOf(f)'
BY Spending DEF SubscriptionsOf, Trying

LEMMA LoadKept ==
  ASSUME TypeOK, ParsedIsOriginal, NEW f \in Forward,
         MailOf(f), SubscriptionsOf(f), CopiesOf(f), Load(f)
  PROVE  MailOf(f)' /\ SubscriptionsOf(f)' /\ CopiesOf(f)'
<1>1. step[f] = "load" /\ accepted' = accepted /\ attempts'[f] = attempts[f] + 1
  BY DEF Load, TypeOK
<1>2. attempts[f] \in Nat /\ attempts'[f] \in Nat /\ left[f] \in Nat
      /\ Len(accepted[f]) \in Nat /\ Budget(SettingOf(f)) \in Int
  BY <1>1, LenProperties, SettingTyped DEF TypeOK, Budget
<1>3. /\ SettingOf(f).retry => attempts'[f] + left[f] = Budget(SettingOf(f))
      /\ ~SettingOf(f).retry => attempts'[f] <= 1
  <2>1. CASE SettingOf(f).retry
    <3>1. attempts[f] + left[f] = Budget(SettingOf(f)) - 1
      BY <1>1, <2>1 DEF SubscriptionsOf
    <3> QED BY <1>1, <1>2, <2>1, <3>1
  <2>2. CASE ~SettingOf(f).retry
    <3>1. attempts[f] = 0
      BY <1>1, <2>2 DEF SubscriptionsOf
    <3> QED BY <1>1, <2>2, <3>1
  <2> QED BY <2>1, <2>2
<1>4. /\ Len(accepted'[f]) <= attempts'[f] /\ Len(accepted'[f]) < attempts'[f]
      /\ \A i \in DOMAIN accepted'[f] :
           accepted'[f][i] = AddressesOf(f[2]) /\ SettingOf(f).matches[f[1]] = "yes"
  <2>1. Len(accepted[f]) <= attempts[f]
    BY DEF CopiesOf
  <2>2. \A i \in DOMAIN accepted[f] :
          accepted[f][i] = AddressesOf(f[2]) /\ SettingOf(f).matches[f[1]] = "yes"
    BY DEF CopiesOf
  <2> QED BY <1>1, <1>2, <2>1, <2>2
<1>5. CASE LoadFailed(f)
  <2>1. FailureOf(f)
    BY <1>5, LoadFailure
  <2>2. /\ MailOf(f)' /\ SubscriptionsOf(f)'
        /\ step'[f] \in {"load", "wait", "dropped", "logged"}
    BY <1>2, <1>3, <2>1, AfterFailure
  <2> QED BY <1>4, <2>2 DEF CopiesOf
<1>6. CASE Go(f, "unmatched") /\ UNCHANGED <<left, mail>>
  <2>1. step'[f] = "unmatched" /\ left' = left
    BY <1>6 DEF Go, TypeOK
  <2>2. MailOf(f)'
    BY <2>1 DEF MailOf, Before, After
  <2>3. SubscriptionsOf(f)'
    BY <1>2, <1>3, <2>1 DEF SubscriptionsOf, Trying
  <2> QED BY <1>4, <2>1, <2>2, <2>3 DEF CopiesOf
<1>7. CASE /\ SettingOf(f).matches[f[1]] = "yes"
           /\ parsed' = [parsed EXCEPT ![f[1]] = IF @ = NULL THEN Original ELSE @]
           /\ mail' = [mail EXCEPT ![f] = parsed'[f[1]]]
           /\ Go(f, IF SettingOf(f).retry THEN "populate" ELSE "connect")
           /\ UNCHANGED left
  <2>1. f[1] \in Message
    BY SettingTyped
  <2>2. parsed'[f[1]] = Original
    BY <1>7, <2>1 DEF ParsedIsOriginal, TypeOK
  <2>3. mail'[f] = Original
    BY <1>7, <2>2 DEF TypeOK
  <2>4. step'[f] = (IF SettingOf(f).retry THEN "populate" ELSE "connect")
    BY <1>7 DEF Go, TypeOK
  <2>5. MailOf(f)'
    BY <1>7, <2>3, <2>4 DEF MailOf, Before, After
  <2>6. SubscriptionsOf(f)'
    BY <1>2, <1>3, <1>7, <2>4 DEF SubscriptionsOf, Trying
  <2> QED BY <1>4, <2>4, <2>5, <2>6 DEF CopiesOf
<1> QED BY <1>5, <1>6, <1>7 DEF Load

LEMMA PopulateKept ==
  ASSUME TypeOK, NEW f \in Forward,
         MailOf(f), SubscriptionsOf(f), CopiesOf(f), PopulateMessageFromRule(f)
  PROVE  MailOf(f)' /\ SubscriptionsOf(f)' /\ CopiesOf(f)'
<1>1. step[f] = "populate" /\ UNCHANGED <<attempts, accepted>>
  BY DEF PopulateMessageFromRule
<1>2. CASE SettingOf(f).valid
  <2>1. /\ left' = left /\ mail'[f] = Populated(f)
        /\ step'[f] = (IF SettingOf(f).retry THEN "connect" ELSE "send")
    BY <1>2 DEF PopulateMessageFromRule, Go, TypeOK
  <2>2. mail[f] = Original /\ SettingOf(f).matches[f[1]] = "yes"
    BY <1>1 DEF MailOf, Before
  <2>3. Populated(f) = AddressesOf(f[2])
    BY <2>2 DEF Populated, AddressesOf, Original, SettingOf
  <2>4. MailOf(f)'
    BY <2>1, <2>2, <2>3 DEF MailOf, Before, After
  <2>5. SubscriptionsOf(f)'
    BY <1>1, <2>1, GoesOn
  <2>6. CopiesOf(f)'
    BY <1>1, <2>1 DEF CopiesOf
  <2> QED BY <2>4, <2>5, <2>6
<1>3. CASE ~SettingOf(f).valid
  <2>1. HandleSendFailure(f)
    BY <1>3 DEF PopulateMessageFromRule
  <2>2. /\ MailOf(f)' /\ SubscriptionsOf(f)'
        /\ step'[f] \in {"load", "wait", "dropped", "logged"}
    BY <1>1, <2>1, SendFailure, Spending, AfterFailure
  <2> QED BY <1>1, <2>2 DEF CopiesOf
<1> QED BY <1>2, <1>3

LEMMA ConnectKept ==
  ASSUME TypeOK, NEW f \in Forward,
         MailOf(f), SubscriptionsOf(f), CopiesOf(f), CreateConnectedSmtpClient(f)
  PROVE  MailOf(f)' /\ SubscriptionsOf(f)' /\ CopiesOf(f)'
<1>1. step[f] = "connect" /\ UNCHANGED <<mail, attempts, accepted>>
  BY DEF CreateConnectedSmtpClient
<1>2. CASE HandleSendFailure(f)
  <2>1. /\ MailOf(f)' /\ SubscriptionsOf(f)'
        /\ step'[f] \in {"load", "wait", "dropped", "logged"}
    BY <1>1, <1>2, SendFailure, Spending, AfterFailure
  <2> QED BY <1>1, <2>1 DEF CopiesOf
<1>3. CASE Go(f, IF SettingOf(f).retry THEN "send" ELSE "populate") /\ UNCHANGED left
  <2>1. step'[f] = (IF SettingOf(f).retry THEN "send" ELSE "populate") /\ left' = left
    BY <1>3 DEF Go, TypeOK
  <2>2. MailOf(f)'
    BY <1>1, <2>1 DEF MailOf, Before, After
  <2>3. SubscriptionsOf(f)'
    BY <1>1, <2>1, GoesOn
  <2> QED BY <1>1, <2>1, <2>2, <2>3 DEF CopiesOf
<1> QED BY <1>2, <1>3 DEF CreateConnectedSmtpClient

LEMMA SendKept ==
  ASSUME TypeOK, NEW f \in Forward,
         MailOf(f), SubscriptionsOf(f), CopiesOf(f), Send(f)
  PROVE  MailOf(f)' /\ SubscriptionsOf(f)' /\ CopiesOf(f)'
<1>1. step[f] = "send" /\ UNCHANGED <<mail, attempts>>
  BY DEF Send
<1>2. mail[f] = AddressesOf(f[2]) /\ SettingOf(f).matches[f[1]] = "yes"
  BY <1>1 DEF MailOf, After
<1>3. accepted[f] \in Seq(Addresses) /\ mail[f] \in Addresses /\ attempts[f] \in Nat
  BY <1>1, MailIsThere DEF TypeOK
<1>4. /\ Len(accepted[f]) \in Nat /\ Len(accepted[f]) < attempts[f]
      /\ \A i \in DOMAIN accepted[f] :
           accepted[f][i] = AddressesOf(f[2]) /\ SettingOf(f).matches[f[1]] = "yes"
  BY <1>1, <1>3, LenProperties DEF CopiesOf
<1>5. /\ Len(accepted'[f]) <= attempts'[f]
      /\ \A i \in DOMAIN accepted'[f] :
           accepted'[f][i] = AddressesOf(f[2]) /\ SettingOf(f).matches[f[1]] = "yes"
  <2>1. CASE accepted' = accepted
    BY <1>1, <1>3, <1>4, <2>1
  <2>2. CASE accepted' = [accepted EXCEPT ![f] = Append(@, mail[f])]
    <3>1. accepted'[f] = Append(accepted[f], mail[f])
      BY <2>2 DEF TypeOK
    <3>2. Len(Append(accepted[f], mail[f])) = Len(accepted[f]) + 1
      BY <1>3, AppendProperties
    <3>3. \A i \in DOMAIN Append(accepted[f], mail[f]) :
            Append(accepted[f], mail[f])[i] = AddressesOf(f[2])
      BY <1>2, <1>3, <1>4, AppendProperties
    <3> QED BY <1>1, <1>2, <1>3, <1>4, <3>1, <3>2, <3>3
  <2> QED BY <2>1, <2>2 DEF Send
<1>6. CASE HandleSendFailure(f)
  <2>1. /\ MailOf(f)' /\ SubscriptionsOf(f)'
        /\ step'[f] \in {"load", "wait", "dropped", "logged"}
    BY <1>1, <1>6, SendFailure, Spending, AfterFailure
  <2> QED BY <1>5, <2>1 DEF CopiesOf
<1>7. CASE /\ accepted' = [accepted EXCEPT ![f] = Append(@, mail[f])]
           /\ Go(f, "disconnect") /\ UNCHANGED left
  <2>1. step'[f] = "disconnect" /\ left' = left
    BY <1>7 DEF Go, TypeOK
  <2>2. MailOf(f)'
    BY <1>1, <1>2, <2>1 DEF MailOf, Before, After
  <2>3. SubscriptionsOf(f)'
    BY <1>1, <2>1, GoesOn
  <2>4. Len(accepted'[f]) > 0
    <3>1. accepted'[f] = Append(accepted[f], mail[f])
      BY <1>7 DEF TypeOK
    <3>2. Len(Append(accepted[f], mail[f])) = Len(accepted[f]) + 1
      BY <1>3, AppendProperties
    <3> QED BY <1>4, <3>1, <3>2
  <2> QED BY <1>5, <2>1, <2>2, <2>3, <2>4 DEF CopiesOf
<1> QED BY <1>6, <1>7 DEF Send

LEMMA DisconnectKept ==
  ASSUME TypeOK, NEW f \in Forward,
         MailOf(f), SubscriptionsOf(f), CopiesOf(f), Disconnect(f)
  PROVE  MailOf(f)' /\ SubscriptionsOf(f)' /\ CopiesOf(f)'
<1>1. step[f] = "disconnect" /\ UNCHANGED <<mail, attempts, accepted>>
  BY DEF Disconnect
<1>2. CASE HandleSendFailure(f)
  <2>1. /\ MailOf(f)' /\ SubscriptionsOf(f)'
        /\ step'[f] \in {"load", "wait", "dropped", "logged"}
    BY <1>1, <1>2, SendFailure, Spending, AfterFailure
  <2> QED BY <1>1, <2>1 DEF CopiesOf
<1>3. CASE Go(f, "sent") /\ UNCHANGED left
  <2>1. step'[f] = "sent" /\ left' = left
    BY <1>3 DEF Go, TypeOK
  <2>2. MailOf(f)'
    BY <2>1 DEF MailOf, Before, After
  <2>3. SubscriptionsOf(f)'
    BY <1>1, <2>1, GoesOn
  <2> QED BY <1>1, <2>1, <2>2, <2>3 DEF CopiesOf
<1> QED BY <1>2, <1>3 DEF Disconnect

LEMMA TimerKept ==
  ASSUME TypeOK, NEW f \in Forward,
         MailOf(f), SubscriptionsOf(f), CopiesOf(f), Timer(f)
  PROVE  MailOf(f)' /\ SubscriptionsOf(f)' /\ CopiesOf(f)'
<1>1. step[f] = "wait" /\ step'[f] = "load" /\ UNCHANGED <<left, mail, attempts, accepted>>
  BY DEF Timer, Go, TypeOK
<1>2. MailOf(f)' /\ CopiesOf(f)'
  BY <1>1 DEF MailOf, Before, After, CopiesOf
<1>3. SettingOf(f).retry /\ attempts[f] + left[f] = Budget(SettingOf(f)) - 1
  BY <1>1 DEF SubscriptionsOf
<1> QED BY <1>1, <1>2, <1>3 DEF SubscriptionsOf, Trying

-----------------------------------------------------------------------------
(* All dispatches                                                          *)

Accounts == \A f \in Forward : MailOf(f) /\ SubscriptionsOf(f) /\ CopiesOf(f)

LEMMA BeginKept ==
  ASSUME IInv, NEW m \in Message, Run(m) PROVE Accounts'
<1>0. PICK f \in Forward : f = <<m, next[m]>>
  BY NextForward DEF IInv
<1>1. /\ f \in Forward
      /\ BeginOf(f) \/ (step' = step /\ left' = left)
      /\ UNCHANGED <<mail, attempts, accepted>>
  BY <1>0, NextForward DEF IInv
<1>2. step[f] = "none"
  <2>1. next[m] \in Rule /\ next[m] >= next[m]
    BY RulesAssumption DEF Run, Rule
  <2> QED BY <1>0, <2>1 DEF IInv, NotReached
<1>3. CASE step' = step /\ left' = left
  BY <1>1, <1>3 DEF IInv, Accounts, MailOf, SubscriptionsOf, CopiesOf
<1>4. CASE BeginOf(f)
  <2>1. SUFFICES ASSUME NEW g \in Forward
                 PROVE  MailOf(g)' /\ SubscriptionsOf(g)' /\ CopiesOf(g)'
    BY DEF Accounts
  <2>2. MailOf(g) /\ SubscriptionsOf(g) /\ CopiesOf(g)
    BY DEF IInv
  <2>3. CASE g # f
    <3>1. step'[g] = step[g]
      BY <1>1, <1>4, <2>3 DEF BeginOf, IInv, TypeOK
    <3>2. left'[g] = left[g]
      BY <1>1, <1>4, <2>3 DEF BeginOf, IInv, TypeOK
    <3> QED BY <1>1, <2>2, <3>1, <3>2 DEF MailOf, SubscriptionsOf, CopiesOf
  <2>4. CASE g = f
    <3>1. step'[f] \in {"refused", "dropped", "load"}
      BY <1>1, <1>4 DEF BeginOf, IInv, TypeOK
    <3>2. attempts'[f] = 0 /\ accepted'[f] = accepted[f]
      BY <1>1, <1>2, <2>2, <2>4 DEF SubscriptionsOf
    <3>3. MailOf(f)'
      BY <3>1 DEF MailOf, Before, After
    <3>4. CopiesOf(f)'
      BY <1>1, <1>2, <2>2, <2>4, <3>1, <3>2 DEF CopiesOf
    <3>5. SubscriptionsOf(f)'
      <4>1. CASE SettingOf(f).retry
        <5>1. \/ step'[f] = "refused"
              \/ step'[f] = "dropped" /\ SettingOf(f).attempts = 0
              \/ step'[f] = "load" /\ left'[f] = Budget(SettingOf(f)) - 1 /\ left'[f] \in Nat
          BY <1>1, <1>4, <4>1 DEF BeginOf, IInv, TypeOK
        <5>2. step'[f] = "load" => attempts'[f] + left'[f] = Budget(SettingOf(f)) - 1
          BY <3>2, <5>1
        <5> QED BY <3>1, <3>2, <4>1, <5>1, <5>2 DEF SubscriptionsOf, Trying
      <4>2. CASE ~SettingOf(f).retry
        <5>1. step'[f] = "load"
          BY <1>1, <1>4, <4>2 DEF BeginOf, IInv, TypeOK
        <5> QED BY <3>2, <4>2, <5>1 DEF SubscriptionsOf
      <4> QED BY <4>1, <4>2
    <3> QED BY <2>4, <3>3, <3>4, <3>5
  <2> QED BY <2>3, <2>4
<1> QED BY <1>1, <1>3, <1>4

LEMMA AccountsKept ==
  ASSUME IInv, [Next]_vars PROVE Accounts'
<1>1. ASSUME NEW f \in Forward, Dispatch(f) PROVE Accounts'
  <2>1. SUFFICES ASSUME NEW g \in Forward
                 PROVE  MailOf(g)' /\ SubscriptionsOf(g)' /\ CopiesOf(g)'
    BY DEF Accounts
  <2>2. MailOf(g) /\ SubscriptionsOf(g) /\ CopiesOf(g) /\ TypeOK /\ ParsedIsOriginal
    BY DEF IInv
  <2>3. CASE g # f
    <3>1. Moves(f)
      BY <1>1, <2>2, DispatchMoves
    <3>2. /\ step'[g] = step[g] /\ left'[g] = left[g] /\ mail'[g] = mail[g]
          /\ attempts'[g] = attempts[g] /\ accepted'[g] = accepted[g]
      BY <2>2, <2>3, <3>1, OthersStay
    <3> QED BY <2>2, <3>2 DEF MailOf, SubscriptionsOf, CopiesOf
  <2>4. CASE g = f
    BY <1>1, <2>2, <2>4, LoadKept, PopulateKept, ConnectKept, SendKept, DisconnectKept, TimerKept
       DEF Dispatch
  <2> QED BY <2>3, <2>4
<1>2. ASSUME UNCHANGED <<step, left, mail, attempts, accepted>> PROVE Accounts'
  BY <1>2 DEF IInv, Accounts, MailOf, SubscriptionsOf, CopiesOf
<1>3. ASSUME NEW m \in Message, Run(m) PROVE Accounts'
  BY <1>3, BeginKept
<1>4. ASSUME NEW m \in Message, NewMessage(m) \/ Wake(m) \/ Expire(m) \/ DeleteMessage(m)
      PROVE  UNCHANGED <<step, left, mail, attempts, accepted>>
  BY <1>4 DEF NewMessage, Wake, Expire, DeleteMessage
<1> QED BY <1>1, <1>2, <1>3, <1>4 DEF Next, Stop, vars

LEMMA NotReachedKept ==
  ASSUME IInv, [Next]_vars PROVE NotReached'
<1> USE DEF NotReached
<1>1. ASSUME NEW f \in Forward, Dispatch(f) PROVE NotReached'
  <2>1. Moves(f) /\ TypeOK
    BY <1>1, DispatchMoves DEF IInv
  <2>2. SUFFICES ASSUME NEW m \in Message, NEW r \in Rule, r >= next[m]
                 PROVE  step'[<<m, r>>] = "none"
    BY <2>1 DEF Moves
  <2>3. <<m, r>> \in Forward /\ step[<<m, r>>] = "none"
    BY <2>2 DEF IInv, Forward
  <2>4. <<m, r>> # f
    BY <2>1, <2>3 DEF Moves
  <2> QED BY <2>1, <2>3, <2>4, OthersStay
<1>2. ASSUME NEW m \in Message, Run(m) PROVE NotReached'
  <2>1. /\ <<m, next[m]>> \in Forward
        /\ next' = [next EXCEPT ![m] = next[m] + 1]
        /\ BeginOf(<<m, next[m]>>) \/ step' = step
    BY <1>2, NextForward DEF IInv
  <2>2. \A g \in Forward : g # <<m, next[m]>> => step'[g] = step[g]
    BY <2>1 DEF BeginOf, IInv, TypeOK
  <2>3. SUFFICES ASSUME NEW n \in Message, NEW r \in Rule, r >= next'[n]
                 PROVE  step'[<<n, r>>] = "none"
    OBVIOUS
  <2>4. r \in Nat /\ next[n] \in Nat /\ next[m] \in Nat
    BY RulesAssumption DEF Rule, IInv, TypeOK
  <2>5. next'[n] = IF n = m THEN next[m] + 1 ELSE next[n]
    BY <2>1 DEF IInv, TypeOK
  <2>6. r >= next[n] /\ <<n, r>> # <<m, next[m]>>
    BY <2>3, <2>4, <2>5
  <2>7. <<n, r>> \in Forward
    BY DEF Forward
  <2> QED BY <2>2, <2>6, <2>7 DEF IInv
<1>3. ASSUME NEW m \in Message, Wake(m) PROVE NotReached'
  <2>1. SUFFICES ASSUME NEW n \in Message, NEW r \in Rule, r >= next'[n]
                 PROVE  step[<<n, r>>] = "none"
    BY <1>3 DEF Wake
  <2>2. r \in 1..Len(Rules) /\ Len(Rules) \in Nat
    BY RulesAssumption DEF Rule
  <2>3. r >= next[n]
    BY <1>3, <2>1, <2>2 DEF Wake, IInv, TypeOK
  <2> QED BY <2>3 DEF IInv
<1>4. ASSUME UNCHANGED <<next, step>> PROVE NotReached'
  BY <1>4 DEF IInv
<1>5. ASSUME NEW m \in Message, NewMessage(m) \/ Expire(m) \/ DeleteMessage(m)
      PROVE  UNCHANGED <<next, step>>
  BY <1>5 DEF NewMessage, Expire, DeleteMessage
<1> QED BY <1>1, <1>2, <1>3, <1>4, <1>5 DEF Next, Stop, vars

LEMMA ParsedKept ==
  ASSUME IInv, [Next]_vars PROVE ParsedIsOriginal'
<1> USE DEF ParsedIsOriginal
<1>1. ASSUME NEW f \in Forward, Load(f) PROVE ParsedIsOriginal'
  BY <1>1, SettingTyped DEF Load, IInv, TypeOK
<1>2. ASSUME NEW m \in Message, Expire(m) PROVE ParsedIsOriginal'
  BY <1>2 DEF Expire, IInv, TypeOK
<1>3. ASSUME parsed' = parsed PROVE ParsedIsOriginal'
  BY <1>3 DEF IInv
<1>4. ASSUME NEW m \in Message, NewMessage(m) \/ Wake(m) \/ Run(m) \/ DeleteMessage(m)
      PROVE  parsed' = parsed
  BY <1>4 DEF NewMessage, Wake, Run, DeleteMessage
<1>5. ASSUME NEW f \in Forward, Dispatch(f), ~Load(f) PROVE parsed' = parsed
  BY <1>5 DEF Dispatch, PopulateMessageFromRule, CreateConnectedSmtpClient, Send, Disconnect, Timer
<1> QED BY <1>1, <1>2, <1>3, <1>4, <1>5 DEF Next, Stop, vars

LEMMA Inductive == Spec => []IInv
<1>1. ASSUME Init PROVE IInv
  <2>1. TypeOK
    <3>1. Len(Rules) \in Nat BY RulesAssumption
    <3> QED BY <1>1, <3>1 DEF Init, TypeOK, Steps
  <2>2. NotReached /\ ParsedIsOriginal
    BY <1>1 DEF Init, NotReached, ParsedIsOriginal, Forward
  <2>3. ASSUME NEW f \in Forward PROVE MailOf(f) /\ SubscriptionsOf(f) /\ CopiesOf(f)
    <3>1. step[f] = "none" /\ attempts[f] = 0 /\ accepted[f] = << >>
      BY <1>1 DEF Init
    <3>2. MailOf(f)
      BY <3>1 DEF MailOf, Before, After
    <3>3. SubscriptionsOf(f)
      BY <3>1 DEF SubscriptionsOf, Trying
    <3>4. CopiesOf(f)
      BY <3>1 DEF CopiesOf
    <3> QED BY <3>2, <3>3, <3>4
  <2> QED BY <2>1, <2>2, <2>3 DEF IInv
<1>2. ASSUME IInv, [Next]_vars PROVE IInv'
  <2>1. TypeOK'
    BY <1>2, TypesKept DEF IInv
  <2> QED BY <1>2, <2>1, AccountsKept, NotReachedKept, ParsedKept DEF IInv, Accounts
<1> QED BY <1>1, <1>2, PTL DEF Spec

-----------------------------------------------------------------------------
(* Every variable keeps its type, for any messages and rules.              *)
THEOREM Typing == Spec => []TypeOK
<1>1. IInv => TypeOK
  BY DEF IInv
<1> QED BY <1>1, Inductive, PTL

(* No rule ever sends what another rule made of the message, or a message  *)
(* it does not match: the clone of each attempt is taken from the          *)
(* original.                                                               *)
THEOREM EachCopyIsItsRules == Spec => []CopiesAreTheRulesOwn
<1>1. IInv => CopiesAreTheRulesOwn
  BY DEF IInv, CopiesOf, CopiesAreTheRulesOwn
<1> QED BY <1>1, Inductive, PTL

(* RetryWithDelay makes the attempts the rule is configured for, whatever  *)
(* fails: with a delay one more than without, and all before the log.      *)
LEMMA AttemptsAreSpent == Spec => []AttemptsAsConfigured
<1>1. ASSUME IInv PROVE AttemptsAsConfigured
  <2>1. SUFFICES ASSUME NEW f \in Forward
        PROVE IF SettingOf(f).retry
              THEN /\ attempts[f] > 0 => attempts[f] <= Budget(SettingOf(f))
                   /\ step[f] = "logged" => attempts[f] = Budget(SettingOf(f))
                   /\ step[f] = "dropped" => SettingOf(f).attempts = 0
              ELSE attempts[f] <= 1
    BY DEF AttemptsAsConfigured
  <2>2. SubscriptionsOf(f) /\ attempts[f] \in Nat /\ left[f] \in Nat /\ step[f] \in Steps
        /\ Budget(SettingOf(f)) \in Int
    BY <1>1, SettingTyped DEF IInv, TypeOK, Budget
  <2>3. CASE ~SettingOf(f).retry
    BY <2>2, <2>3 DEF SubscriptionsOf
  <2>4. CASE SettingOf(f).retry
    <3>1. attempts[f] > 0 => attempts[f] <= Budget(SettingOf(f))
      <4>1. CASE step[f] \in {"none", "refused"}
        BY <2>2, <4>1 DEF SubscriptionsOf
      <4>2. CASE step[f] \in {"load", "wait"}
        <5>1. attempts[f] + left[f] = Budget(SettingOf(f)) - 1
          BY <2>2, <2>4, <4>2 DEF SubscriptionsOf
        <5> QED BY <2>2, <5>1
      <4>3. CASE step[f] \in Trying
        <5>1. attempts[f] + left[f] = Budget(SettingOf(f))
          BY <2>2, <2>4, <4>3 DEF SubscriptionsOf
        <5> QED BY <2>2, <5>1
      <4>4. CASE step[f] = "dropped"
        BY <2>2, <2>4, <4>4 DEF SubscriptionsOf
      <4>5. CASE step[f] = "logged"
        <5>1. attempts[f] = Budget(SettingOf(f))
          BY <2>2, <2>4, <4>5 DEF SubscriptionsOf
        <5> QED BY <2>2, <5>1
      <4> QED BY <2>2, <4>1, <4>2, <4>3, <4>4, <4>5 DEF Steps, Ended, Trying
    <3> QED BY <2>2, <2>4, <3>1 DEF SubscriptionsOf
  <2> QED BY <2>3, <2>4
<1> QED BY <1>1, Inductive, PTL

(* A copy needs an attempt of its own, and what ended well was handed      *)
(* over.                                                                   *)
LEMMA CopiesNeedAttempts == Spec => []OneCopyPerAttempt
<1>1. ASSUME IInv PROVE OneCopyPerAttempt
  <2>1. ASSUME NEW f \in Forward
        PROVE  Len(accepted[f]) <= attempts[f] /\ (step[f] = "sent" => accepted[f] # << >>)
    <3>1. CopiesOf(f)
      BY <1>1 DEF IInv
    <3>2. step[f] = "sent" => Len(accepted[f]) > 0
      BY <3>1 DEF CopiesOf
    <3>3. accepted[f] = << >> => Len(accepted[f]) = 0
      OBVIOUS
    <3> QED BY <3>1, <3>2, <3>3 DEF CopiesOf
  <2> QED BY <2>1 DEF OneCopyPerAttempt
<1> QED BY <1>1, Inductive, PTL

(* So the attempts, the copies and the ends of all forwards agree.         *)
THEOREM ForwardsAgree == Spec => []ForwardsAddUp
<1>1. AttemptsAsConfigured /\ OneCopyPerAttempt => ForwardsAddUp
  BY DEF ForwardsAddUp
<1> QED BY <1>1, AttemptsAreSpent, CopiesNeedAttempts, PTL
=============================================================================
