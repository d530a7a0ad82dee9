--------------------------- MODULE RuleForwarding ---------------------------
(***************************************************************************)
(* The rules of the service: RuleService starts a task for a message that  *)
(* was saved, RulesRunner dispatches the enabled rules one by one, and     *)
(* each dispatch goes on by itself on the thread pool: it loads the        *)
(* message, clones it and hands the clone to another mail server.  The     *)
(* rule with retries subscribes to all of this again after an error.       *)
(*                                                                         *)
(* A rule is what its settings make of it: a relay changes no address and  *)
(* matches all, the other kinds may set both, to addresses that need not   *)
(* be valid, and be conditional.                                           *)
(***************************************************************************)
EXTENDS Integers, Sequences

CONSTANTS Message, Rules, NULL

Rule == DOMAIN Rules
Forward == Message \X Rule
Addresses == [from : {0} \union Rule, to : {0} \union Rule]  \* 0: as received

Setting == [enabled : BOOLEAN, setsFrom : BOOLEAN, setsTo : BOOLEAN, valid : BOOLEAN,
            matches : [Message -> {"yes", "no", "throws"}],
            retry : BOOLEAN, attempts : Int, delay : Int]

ASSUME RulesAssumption == Rules \in Seq(Setting)
ASSUME NullAssumption == NULL \notin Addresses

VARIABLES
  up,        \* the service's process
  arrived,   \* messages a NewMessageEvent was published for
  files,     \* messages that have a complete file
  parsed,    \* MimeMessageCache
  next,      \* the rule each message's task comes to next, 0 while it sleeps
  step,      \* where each dispatch stands, or how it ended
  left,      \* subscriptions Retry has left
  mail,      \* the clone a dispatch works on
  attempts,  \* subscriptions made
  accepted   \* the copies the other server took over, oldest first

vars == <<up, arrived, files, parsed, next, step, left, mail, attempts, accepted>>

SettingOf(f) == Rules[f[2]]

Ended == {"sent", "unmatched", "logged", "dropped", "refused"}
Steps == {"none", "load", "populate", "connect", "send", "disconnect", "wait"} \union Ended

Init ==
  /\ up = TRUE /\ arrived = {} /\ files = {}
  /\ parsed = [m \in Message |-> NULL]
  /\ next = [m \in Message |-> 0]
  /\ step = [f \in Forward |-> "none"]
  /\ left = [f \in Forward |-> 0]
  /\ mail = [f \in Forward |-> NULL]
  /\ attempts = [f \in Forward |-> 0]
  /\ accepted = [f \in Forward |-> << >>]

Go(f, s) == step' = [step EXCEPT ![f] = s]

-----------------------------------------------------------------------------
(* The message and its task                                                *)

(* The event is published whether or not the file could be written.        *)
NewMessage(m) ==
  /\ up /\ m \notin arrived
  /\ arrived' = arrived \union {m}
  /\ files' \in {files, files \union {m}}
  /\ UNCHANGED <<up, parsed, next, step, left, mail, attempts, accepted>>

Wake(m) ==
  /\ up /\ m \in arrived /\ next[m] = 0
  /\ next' = [next EXCEPT ![m] = 1]
  /\ UNCHANGED <<up, arrived, files, parsed, step, left, mail, attempts, accepted>>

(* Mutant: the first attempt is not counted where there is no delay.       *)
RetryOnceMore(f) ==
  LET s == SettingOf(f) IN
  IF s.attempts < 0 \/ s.delay < 0 THEN Go(f, "refused") /\ UNCHANGED left
  ELSE IF s.delay = 0 /\ s.attempts = 0 THEN Go(f, "dropped") /\ UNCHANGED left
  ELSE Go(f, "load") /\ left' = [left EXCEPT ![f] = s.attempts]

(* Without a delay the first attempt is one of the n, and Retry(0) makes   *)
(* none; with a delay it precedes them.  Negative numbers are refused.     *)
RetryWithDelay(f) ==
  LET s == SettingOf(f) IN
  IF s.attempts < 0 \/ s.delay < 0 THEN Go(f, "refused") /\ UNCHANGED left
  ELSE IF s.delay = 0 /\ s.attempts = 0 THEN Go(f, "dropped") /\ UNCHANGED left
  ELSE /\ Go(f, "load")
       /\ left' = [left EXCEPT ![f] = IF s.delay = 0 THEN s.attempts - 1 ELSE s.attempts]

DispatchRule(f) ==
  IF SettingOf(f).retry THEN RetryWithDelay(f) ELSE Go(f, "load") /\ UNCHANGED left

Refused(s) == s.retry /\ (s.attempts < 0 \/ s.delay < 0)

(* Mutant: what a dispatch throws ends the loop.                           *)
RunUntilThrown(m) ==
  /\ up /\ next[m] \in Rule
  /\ ~(\E r \in Rule : r < next[m] /\ Rules[r].enabled /\ Refused(Rules[r]))
  /\ next' = [next EXCEPT ![m] = @ + 1]
  /\ IF Rules[next[m]].enabled THEN DispatchRule(<<m, next[m]>>) ELSE UNCHANGED <<step, left>>
  /\ UNCHANGED <<up, arrived, files, parsed, mail, attempts, accepted>>

(* The loop goes on whatever DispatchRule caught.                          *)
Run(m) ==
  /\ up /\ next[m] \in Rule
  /\ next' = [next EXCEPT ![m] = @ + 1]
  /\ IF Rules[next[m]].enabled THEN DispatchRule(<<m, next[m]>>) ELSE UNCHANGED <<step, left>>
  /\ UNCHANGED <<up, arrived, files, parsed, mail, attempts, accepted>>

-----------------------------------------------------------------------------
(* Dispatch                                                                *)

Original == [from |-> 0, to |-> 0]

(* Mutant: the last attempt is followed by one more.                       *)
RetryTooOften(f) ==
  IF left[f] > -1
  THEN /\ left' = [left EXCEPT ![f] = @ - 1]
       /\ Go(f, IF SettingOf(f).delay = 0 THEN "load" ELSE "wait")
  ELSE UNCHANGED left /\ Go(f, IF SettingOf(f).attempts = 0 THEN "dropped" ELSE "logged")

(* o.OnError: the next subscription, or the log.  When Retry(0) follows    *)
(* the first attempt, it completes and nobody hears of the error.          *)
OnError(f) ==
  IF left[f] > 0
  THEN /\ left' = [left EXCEPT ![f] = @ - 1]
       /\ Go(f, IF SettingOf(f).delay = 0 THEN "load" ELSE "wait")
  ELSE UNCHANGED left /\ Go(f, IF SettingOf(f).attempts = 0 THEN "dropped" ELSE "logged")

(* A rule without retries subscribes without onError.                      *)
LoadFailed(f) ==
  /\ IF SettingOf(f).retry THEN OnError(f) ELSE UNCHANGED left /\ Go(f, "dropped")
  /\ UNCHANGED mail

HandleSendFailure(f) ==
  IF SettingOf(f).retry THEN OnError(f) ELSE UNCHANGED left /\ Go(f, "logged")

(* Get, CloneMessage and RuleMatches, for a new subscription.  A file that *)
(* is there may still not be read this time, and be read the next.         *)
Load(f) ==
  LET m == f[1] IN
  /\ up /\ step[f] = "load"
  /\ attempts' = [attempts EXCEPT ![f] = @ + 1]
  /\ \/ parsed[m] = NULL /\ LoadFailed(f) /\ UNCHANGED parsed
     \/ /\ parsed[m] # NULL \/ m \in files
        /\ parsed' = [parsed EXCEPT ![m] = IF @ = NULL THEN Original ELSE @]
        /\ \/ /\ SettingOf(f).matches[m] = "throws"
              /\ LoadFailed(f)
           \/ /\ SettingOf(f).matches[m] = "no"
              /\ Go(f, "unmatched") /\ UNCHANGED <<left, mail>>
           \/ /\ SettingOf(f).matches[m] = "yes"
              /\ mail' = [mail EXCEPT ![f] = parsed'[m]]
              /\ Go(f, IF SettingOf(f).retry THEN "populate" ELSE "connect")
              /\ UNCHANGED left
  /\ UNCHANGED <<up, arrived, files, next, accepted>>

Populated(f) ==
  [from |-> IF SettingOf(f).setsFrom THEN f[2] ELSE mail[f].from,
   to   |-> IF SettingOf(f).setsTo THEN f[2] ELSE mail[f].to]

(* Mutant: the message was not cloned.                                     *)
PopulateParsed(f) ==
  /\ up /\ step[f] = "populate"
  /\ mail' = [mail EXCEPT ![f] = Populated(f)]
  /\ parsed' = [parsed EXCEPT ![f[1]] = IF @ = NULL THEN NULL ELSE Populated(f)]
  /\ Go(f, IF SettingOf(f).retry THEN "connect" ELSE "send")
  /\ UNCHANGED <<up, arrived, files, next, left, attempts, accepted>>

(* An address that cannot be parsed fails the rule with retries before it  *)
(* has a connection and the others when they have one.                     *)
PopulateMessageFromRule(f) ==
  /\ up /\ step[f] = "populate"
  /\ IF SettingOf(f).valid
     THEN /\ mail' = [mail EXCEPT ![f] = Populated(f)]
          /\ Go(f, IF SettingOf(f).retry THEN "connect" ELSE "send")
          /\ UNCHANGED left
     ELSE HandleSendFailure(f) /\ UNCHANGED mail
  /\ UNCHANGED <<up, arrived, files, parsed, next, attempts, accepted>>

(* Only the rules without retries connect before they populate.            *)
CreateConnectedSmtpClient(f) ==
  /\ up /\ step[f] = "connect"
  /\ \/ Go(f, IF SettingOf(f).retry THEN "send" ELSE "populate") /\ UNCHANGED left
     \/ HandleSendFailure(f)
  /\ UNCHANGED <<up, arrived, files, parsed, next, mail, attempts, accepted>>

(* The other server may take the mail over and the answer be lost.         *)
Send(f) ==
  /\ up /\ step[f] = "send"
  /\ \/ /\ accepted' = [accepted EXCEPT ![f] = Append(@, mail[f])]
        /\ \/ Go(f, "disconnect") /\ UNCHANGED left
           \/ HandleSendFailure(f)
     \/ HandleSendFailure(f) /\ UNCHANGED accepted
  /\ UNCHANGED <<up, arrived, files, parsed, next, mail, attempts>>

Disconnect(f) ==
  /\ up /\ step[f] = "disconnect"
  /\ \/ Go(f, "sent") /\ UNCHANGED left
     \/ HandleSendFailure(f)
  /\ UNCHANGED <<up, arrived, files, parsed, next, mail, attempts, accepted>>

(* Observable.Timer                                                        *)
Timer(f) ==
  /\ up /\ step[f] = "wait"
  /\ Go(f, "load")
  /\ UNCHANGED <<up, arrived, files, parsed, next, left, mail, attempts, accepted>>

-----------------------------------------------------------------------------
(* What happens meanwhile                                                  *)

Expire(m) ==
  /\ up /\ parsed[m] # NULL
  /\ parsed' = [parsed EXCEPT ![m] = NULL]
  /\ UNCHANGED <<up, arrived, files, next, step, left, mail, attempts, accepted>>

DeleteMessage(m) ==
  /\ m \in files
  /\ files' = files \ {m}
  /\ UNCHANGED <<up, arrived, parsed, next, step, left, mail, attempts, accepted>>

(* The service ends with its tasks and timers; nothing of them is stored.  *)
Stop ==
  /\ up /\ up' = FALSE
  /\ UNCHANGED <<arrived, files, parsed, next, step, left, mail, attempts, accepted>>

Dispatch(f) ==
  \/ Load(f) \/ PopulateMessageFromRule(f) \/ CreateConnectedSmtpClient(f)
  \/ Send(f) \/ Disconnect(f) \/ Timer(f)

Next ==
  \/ \E m \in Message :
       NewMessage(m) \/ Wake(m) \/ Run(m) \/ Expire(m) \/ DeleteMessage(m)
  \/ \E f \in Forward : Dispatch(f)
  \/ Stop

(* The thread pool always has a task or a timer it goes on with.           *)
Fairness ==
  /\ WF_vars(\E m \in Message : Wake(m) \/ Run(m))
  /\ WF_vars(\E f \in Forward : Dispatch(f))

Spec == Init /\ [][Next]_vars /\ Fairness

-----------------------------------------------------------------------------
(* Type correctness.                                                       *)
TypeOK ==
  /\ up \in BOOLEAN /\ arrived \subseteq Message /\ files \subseteq Message
  /\ parsed \in [Message -> Addresses \union {NULL}]
  /\ next \in [Message -> 0..(Len(Rules) + 1)]
  /\ step \in [Forward -> Steps]
  /\ left \in [Forward -> Nat]
  /\ mail \in [Forward -> Addresses \union {NULL}]
  /\ attempts \in [Forward -> Nat]
  /\ accepted \in [Forward -> Seq(Addresses)]

(* What a rule's copy says.                                                *)
AddressesOf(r) ==
  [from |-> IF Rules[r].setsFrom THEN r ELSE 0, to |-> IF Rules[r].setsTo THEN r ELSE 0]

(* Every copy that leaves carries the addresses its own rule gives to the  *)
(* original, in every attempt, and only for a message the rule matches,    *)
(* although the rules run at once and share the parsed message             *)
(* (BaseRelayRuleDispatch, ConditionalForwardWithRetryRuleDispatch).       *)
CopiesAreTheRulesOwn ==
  \A f \in Forward : \A i \in DOMAIN accepted[f] :
    /\ accepted[f][i] = AddressesOf(f[2])
    /\ SettingOf(f).matches[f[1]] = "yes"

(* The number of attempts a rule with retries is configured for.           *)
Budget(s) == IF s.delay = 0 THEN s.attempts ELSE s.attempts + 1

(* A forward is tried no more often than its rule says, a failure is       *)
(* logged only when every attempt was made, and it is kept from the log    *)
(* only when no retries are configured (RetryWithDelay).                   *)
AttemptsAsConfigured ==
  \A f \in Forward : LET s == SettingOf(f) IN
    IF s.retry
    THEN /\ attempts[f] > 0 => attempts[f] <= Budget(s)
         /\ step[f] = "logged" => attempts[f] = Budget(s)
         /\ step[f] = "dropped" => s.attempts = 0
    ELSE attempts[f] <= 1

(* An attempt hands over at most one copy, and a forward that ended well   *)
(* has handed one over: several copies need failed attempts.               *)
OneCopyPerAttempt ==
  \A f \in Forward :
    /\ Len(accepted[f]) <= attempts[f]
    /\ step[f] = "sent" => accepted[f] # << >>

(* Attempts, copies and ends agree: a rule makes the attempts it is        *)
(* configured for, each hands over one copy at most, success is never      *)
(* reported without one, and failure not before the last.                  *)
ForwardsAddUp == AttemptsAsConfigured /\ OneCopyPerAttempt

(* While the service runs, every enabled rule comes to an end for every    *)
(* message it was told of: none waits for another, or ends the loop.       *)
ForwardingEnds ==
  \A m \in Message :
    m \in arrived ~>
      ~up \/ \A r \in Rule : Rules[r].enabled => step[<<m, r>>] \in Ended
=============================================================================
