--------------------------- MODULE MC_Providers -----------------------------
(* An instance of SignalProviders: two default Datadog hosts, a configured  *)
(* one for error tracking, and one of Elasticsearch; a window that starts   *)
(* at 11, within a second of two ticks, and ends at 20 or, at the time of   *)
(* the call and within its second, at 21; pages of two.                     *)
EXTENDS SignalProviders

CONSTANTS payment, cart, eu, com, own, elastic, team

Name(text) == [text |-> text, upper |-> FALSE, padded |-> FALSE]

Pay == Name(payment)
PAY == [Pay EXCEPT !.upper = TRUE]
Cart == Name(cart)
NoName == Name(NoText)
Padding == [NoName EXCEPT !.padded = TRUE]

MCDefaultURLs == <<eu, com>>
MCTracks == <<"trace", "logs">>
MCRequiredTags == {team}

\* Every host serves, refuses or fails for good, or all of them by turns.
MCBehaviours ==
    [{eu, com, own, elastic} -> {"serves", "refuses", "fails"}]
        \cup {[host \in {eu, com, own, elastic} |-> "flaky"]}

Asked(services, until) == [services |-> services, since |-> 11, until |-> until]

MCQueries == {Asked(<<Pay>>, 20), Asked(<<Cart, PAY>>, 20), Asked(<<>>, 21)}

-----------------------------------------------------------------------------
Group1(status, triggered, nodata) ==
    [status |-> status, triggered |-> triggered, nodata |-> nodata]

Monitor(id, tagService, queryService, state, modified, groups) ==
    [id |-> id, name |-> id, tagService |-> tagService, queryService |-> queryService,
     state |-> state, modified |-> modified, groups |-> groups]

\* Groups that fire since before, at the start of, in and after the window; a
\* group without a time; monitors without groups.
Monitors ==
    <<Monitor(1, Pay, Cart, "Alert", 15,
              <<Group1("Alert", 10, 0), Group1("Warn", 11, 0), Group1("No Data", 3, 16),
                Group1("OK", 14, 0)>>),
      Monitor(2, Padding, PAY, "Warn", 20, <<>>),
      Monitor(3, Cart, NoName, "Alert", 14, <<Group1("Alert", 0, 14), Group1("Alert", 21, 0)>>),
      Monitor(4, NoName, NoName, "No Data", 12, <<>>),
      Monitor(5, Pay, NoName, "OK", 12, <<>>)>>

AlertEvent(id, ts, service, status, tags, monitor) ==
    [id |-> id, type |-> "event", monitor |-> monitor, ts |-> ts, status |-> status,
     tags |-> tags, tagService |-> service, service |-> Cart, queryService |-> NoName,
     title |-> id]

\* At most one page that has what is wanted; and a busy window, with an event of
\* the second of the call.
AlertEvents ==
    {<<AlertEvent(1, 10, Pay, "error", {team}, TRUE), AlertEvent(2, 11, PAY, "no data", {team}, TRUE)>>,
     <<AlertEvent(1, 20, NoName, "error", {team}, TRUE), AlertEvent(2, 12, Pay, "success", {}, TRUE)>>,
     <<AlertEvent(1, 21, Pay, "error", {team}, TRUE), AlertEvent(2, 13, Pay, "warning", {team}, TRUE),
       AlertEvent(3, 12, Pay, "error", {team}, FALSE), AlertEvent(4, 11, Cart, "none", {team}, TRUE)>>}

Issue(id, service, first, last, spans) ==
    [id |-> id, result |-> TRUE, included |-> TRUE, tracks |-> {"trace"},
     service |-> service, state |-> "open", crash |-> FALSE,
     firstSeen |-> first, lastSeen |-> last, spans |-> spans, message |-> id]

\* Issues that began before the window or in it, with spans before, in and
\* after it; in both tracks; without details; without a service, or with one of
\* blanks; no result.
Issues ==
    {<<Issue(1, Pay, 4, 14, {6}), Issue(2, Pay, 12, 16, {13, 17})>>,
     <<[Issue(1, Pay, 12, 20, {12}) EXCEPT !.included = FALSE],
       [Issue(2, PAY, 8, 14, {9}) EXCEPT !.tracks = {"trace", "logs"}, !.crash = TRUE]>>,
     <<[Issue(1, NoName, 11, 11, {}) EXCEPT !.state = "resolved"],
       [Issue(2, Pay, 12, 14, {}) EXCEPT !.result = FALSE],
       [Issue(3, Cart, 13, 0, {12}) EXCEPT !.tracks = {"logs"}, !.state = "ignored"]>>,
     <<Issue(1, Cart, 12, 21, {19}), Issue(2, Pay, 0, 0, {}), Issue(3, Padding, 18, 18, {17})>>}

Hit(summary, service, level, code, ts) ==
    [summary |-> summary, service |-> service, level |-> level, code |-> code, ts |-> ts]

\* Hits at both ends of the window, within its first and last second but
\* outside it; without a level, a time; in upper case; and a busy window.
Hits ==
    {<<Hit(1, Pay, "error", 0, 10), Hit(2, Pay, "warn", 503, 11)>>,
     <<Hit(1, Pay, "fatal", 404, 20), Hit(2, Pay, "error", 0, 21)>>,
     <<Hit(1, PAY, "error", 0, 14), Hit(2, Pay, "none", 500, 15), Hit(3, Cart, "warn", 200, 0)>>,
     <<Hit(1, Cart, "error", 0, 12), Hit(2, Pay, "error", 0, 13), Hit(3, Pay, "warn", 0, 14)>>}

MCHeld == [monitors |-> {Monitors}, events |-> AlertEvents, errors |-> Issues, logs |-> Hits]

=============================================================================
