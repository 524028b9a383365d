---------------------------- MODULE MC_Pipeline -----------------------------
(* An instance of CollectedSignals: a second of two ticks, a window of two  *)
(* seconds, two providers, single signals chosen to collide in every key    *)
(* the code uses, and a burst of low-severity signals past the volume cap.  *)
EXTENDS CollectedSignals

CONSTANTS payment, cart

Name(text, upper, padded) == [text |-> text, upper |-> upper, padded |-> padded]

Pay == Name(payment, FALSE, FALSE)
PAY == Name(payment, TRUE, FALSE)
PaddedPay == Name(payment, FALSE, TRUE)
Cart == Name(cart, FALSE, FALSE)
BlankName == Name(NoText, FALSE, TRUE)

Signal(source, service, summary, severity, ts) ==
    [source |-> source, service |-> service, summary |-> summary,
     severity |-> severity, type |-> "log", ts |-> ts]

\* Collisions: same second with another tick or severity, same window, next
\* window, another source, another spelling, another service.
Singles ==
    {Signal("datadog", Pay, 1, 3, 5), Signal("datadog", Pay, 1, 1, 4),
     Signal("datadog", Pay, 1, 3, 7), Signal("datadog", Pay, 1, 3, 9),
     Signal("elastic", Pay, 1, 2, 5), Signal("elastic", PAY, 2, 0, 6),
     Signal("elastic", Cart, 1, 2, 8)}

Burst == [k \in 1..24 |-> Signal("datadog", Pay, k, 1, 5)]

MCBatches == {<<s>> : s \in Singles} \cup {Burst}

MCQueries ==
    {[services |-> <<>>, since |-> 0, until |-> 12],
     [services |-> <<BlankName, PaddedPay, PAY>>, since |-> 5, until |-> 12],
     [services |-> <<Cart, Pay>>, since |-> 0, until |-> 8]}

=============================================================================
