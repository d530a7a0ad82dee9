-------------------------- MODULE MCRuleForwarding --------------------------
(* One message under a relay, a rule with one retry after a delay, and one *)
(* with two attempts at once that both find an address which is not valid; *)
(* and rules at the edges: settings RetryWithDelay refuses, no retries at  *)
(* all, a pattern that is not met, one that throws, and a disabled rule.   *)
EXTENDS RuleForwarding

Answer(a) == [m \in Message |-> a]

Relay == [enabled |-> TRUE, setsFrom |-> FALSE, setsTo |-> FALSE, valid |-> TRUE,
          matches |-> Answer("yes"), retry |-> FALSE, attempts |-> 0, delay |-> 0]

Conditional(a) == [Relay EXCEPT !.setsTo = TRUE, !.matches = Answer(a)]

Retrying(n, d) ==
  [Relay EXCEPT !.setsFrom = TRUE, !.setsTo = TRUE, !.retry = TRUE, !.attempts = n, !.delay = d]

Invalid(s) == [s EXCEPT !.valid = FALSE]

MCRules ==
  <<Retrying(-1, 60), Relay, Retrying(0, 0), Conditional("no"), Retrying(1, 60),
    Invalid(Retrying(2, 0)), [Relay EXCEPT !.enabled = FALSE],
    [Retrying(0, 60) EXCEPT !.matches = Answer("throws")]>>
=============================================================================
