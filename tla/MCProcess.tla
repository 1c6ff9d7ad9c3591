----------------------------- MODULE MCProcess ------------------------------
(***************************************************************************)
(* Two processes.  Configurations with two mirrors differ in names and     *)
(* paths; those with one mirror leave everything out, or set one or two    *)
(* settings to every interesting value.                                    *)
(***************************************************************************)
EXTENDS Process

CONSTANTS p1, p2

MCProcs == {p1, p2}
MCToLower(str) == IF str = "Always" THEN "always" ELSE IF str = "INFO" THEN "info" ELSE str
MCNameRe == {"a", "b"}
MCKeywordChars == {"_", "-"}
MCLabels == {"l"}
MCFiles == {<<"state", "a">>, <<"state", "b">>, <<"s", "a">>, <<"state", "">>, <<"state", "A B">>}

Endpoint == [host |-> "h", user |-> "u", port |-> 0, folder |-> "",
             password |-> "p", passwordFile |-> ""]

Minimal(name) ==
    [name |-> name, statePath |-> <<>>, poll |-> 0, idleReset |-> 0, batch |-> 0,
     seed |-> "", destGuard |-> "absent", source |-> Endpoint, dest |-> Endpoint,
     archive |-> [enabled |-> FALSE, folder |-> ""],
     sent |-> [enabled |-> FALSE, folder |-> ""],
     labels |-> [enabled |-> FALSE, propagate |-> FALSE, replacement |-> ""]]

File1(mirrors) ==
    [decodes |-> TRUE, logLevel |-> "", stateDir |-> <<>>, lockPath |-> <<>>,
     healthAddr |-> "absent", mirrors |-> mirrors]

A == Minimal("a")

(* Two mirrors: fine, the same name, and one file spelled in two ways.     *)
Pairs ==
    {<<A, Minimal("b")>>,
     <<A, A>>,
     <<A, [Minimal("b") EXCEPT !.statePath = <<"state", ".", "a">>]>>,
     <<[A EXCEPT !.statePath = <<"s", "a">>],
       [Minimal("b") EXCEPT !.statePath = <<"s", "a">>]>>}

Endpoints ==
    {Endpoint} \cup
    {[Endpoint EXCEPT !.host = ""], [Endpoint EXCEPT !.user = ""],
     [Endpoint EXCEPT !.password = ""], [Endpoint EXCEPT !.passwordFile = "readable"],
     [Endpoint EXCEPT !.password = "", !.passwordFile = "readable"],
     [Endpoint EXCEPT !.password = "", !.passwordFile = "missing"]} \cup
    {[Endpoint EXCEPT !.port = n] : n \in {-1, 1, 65535, 65536}}

Routings ==
    [enabled : BOOLEAN, folder : {"", "INBOX", "Archive", "Sent"}]

Singles ==
    {Minimal(n) : n \in {"", "A B", "a"}}
    \cup {[A EXCEPT !.poll = x] : x \in {-1, 1}}
    \cup {[A EXCEPT !.idleReset = x] : x \in {-1, 1}}
    \cup {[A EXCEPT !.batch = x] : x \in {-1, 1}}
    \cup {[A EXCEPT !.seed = x] : x \in {"Always", "never", "sometimes"}}
    \cup {[A EXCEPT !.destGuard = "off"]}
    \cup {[A EXCEPT !.labels = x] :
             x \in [enabled : BOOLEAN, propagate : BOOLEAN, replacement : {"", "-", "--"}]}
    \cup {[A EXCEPT !.source = e] : e \in Endpoints}
    \cup {[A EXCEPT !.archive = x, !.sent = y] : x \in Routings, y \in Routings}

MCRawConfigs ==
    {File1(ms) : ms \in Pairs \cup {<<>>} \cup {<<m>> : m \in Singles}}
    \cup {[File1(<<A>>) EXCEPT !.decodes = FALSE]}
    \cup {[File1(<<A>>) EXCEPT !.logLevel = x] : x \in {"INFO", "verbose"}}
=============================================================================
