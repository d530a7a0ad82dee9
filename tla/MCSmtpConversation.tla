------------------------- MODULE MCSmtpConversation -------------------------
(* Instances of SmtpConversation for TLC.                                  *)
EXTENDS SmtpConversation

CONSTANTS a1, a2

MCAddress == {a1, a2}

Plain(verb) == [verb |-> verb, arg |-> NULL]
With(verb, arg) == [verb |-> verb, arg |-> arg]

(* What a mail client sends, with a malformed and an empty address.        *)
MailCommands ==
  {Plain("HELO"), Plain("DATA"), Plain("RSET"), Plain("QUIT"), Plain("blank"),
   With("MAIL", a1), With("MAIL8BIT", a2), With("MAIL", NoAddress),
   With("RCPT", a1), With("RCPT", a2), With("RCPT", BadShape),
   With("RCPT", NoAddress), With("MAIL", BadShape), Plain("NOOP"), Plain("unknown")}

(* Less of that, with AUTH and everything it can be answered.              *)
SessionCommands ==
  (MailCommands \ {With("RCPT", a2), Plain("NOOP")}) \union {Plain("VRFY")}
  \union {With("AUTH", a) : a \in Credential \union {"none", "plain", "login"}}

AheadCommands ==
  {Plain("HELO"), Plain("DATA"), Plain("QUIT"), Plain("NOOP"), With("MAIL", a1),
   With("RCPT", a1)}

IdleCommands ==
  {Plain("HELO"), Plain("DATA"), Plain("blank"), With("MAIL", a1),
   With("RCPT", a1), With("RCPT", NoAddress)}

(* A line that begins with a dot, and one that reads like a command.       *)
MailLines ==
  {[dots |-> 1, text |-> Plain("unknown")], [dots |-> 0, text |-> Plain("QUIT")]}

OneLine == {[dots |-> 0, text |-> Plain("QUIT")]}
=============================================================================
