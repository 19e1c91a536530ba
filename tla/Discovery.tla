----------------------------- MODULE Discovery ------------------------------
(***************************************************************************)
(* discovery_client.c: a search broadcasts DISCOVER, at most Retries times *)
(* a round, and listens on the port of the broadcasts, where it hears the  *)
(* searches of other devices too.  What a server announces goes into       *)
(* g_server_info, which outlives the search; the coordinator of app_main.c *)
(* then checks the protocol version found there.  Time is in steps of      *)
(* 500 ms, which every wait of the code is a multiple of.  Left out: the   *)
(* texts, ports and names, and failures of setsockopt and bind, which the  *)
(* code ignores or takes for a failure of the socket.                      *)
(***************************************************************************)
EXTENDS Integers, Sequences

CONSTANTS
    Servers, Version,       \* the servers in reach, and the version each of them announces
    Mine, Silent,           \* WATCHER_PROTOCOL_VERSION; an announcement without a version
    Timeout,                \* CLOUD_DISCOVERY_TIMEOUT_MS
    Retries, Interval,      \* DISCOVERY_RETRY_COUNT, DISCOVERY_INTERVAL_MS
    Room,                   \* datagrams that a socket holds
    MaxSearches, MaxOther, MaxAnswers   \* bounds: searches, datagrams of others, answers

ASSUME DiscoveryAssumption ==
    /\ Version \in [Servers -> STRING] /\ Mine # Silent
    /\ {Timeout, Retries, Interval, Room} \subseteq Nat \ {0}
    /\ {MaxSearches, MaxOther, MaxAnswers} \subseteq Nat

Listen == 2             \* SO_RCVTIMEO
Pause  == 1             \* after a second without a datagram
None   == "none"
Other  == "other"       \* what is no announcement: DISCOVER of another device

\* A round of broadcasts without an answer takes the whole time of a search but half a second,
\* and the rest that follows it would be longer.
ASSUME RoundAssumption ==
    Timeout = Retries * (Listen + Pause) + 1 /\ Interval > Listen + Pause

VARIABLES
    phase,      \* of the task that searches
    clock,      \* time since start_time
    until,      \* the end of the wait in hand
    retry,      \* retry_count
    inbox,      \* datagrams in the socket; late: come in the last second of the search
    info,       \* g_server_info
    used,       \* the server that the coordinator connects to, by its address
    searches, others, answers,  \* bounded
    sent, disturbed     \* history of the search: broadcasts (sendto may fail), as far as Retries;
                        \* a datagram of another device was read

searchVars == <<phase, clock, until, retry, inbox, info, used, searches, others, answers, sent,
                disturbed>>

Datagrams == [from : Servers \cup {Other}, late : BOOLEAN]
Unknown   == [ip |-> None, version |-> Silent]

SearchInit ==
    /\ phase = "idle" /\ clock = 0 /\ until = 0 /\ retry = 0 /\ inbox = <<>>
    /\ info = Unknown /\ used = None
    /\ searches = 0 /\ others = 0 /\ answers = 0 /\ sent = 0 /\ disturbed = FALSE

-----------------------------------------------------------------------------
(* The network                                                             *)

Open == phase \notin {"idle", "found"}

\* What comes to a full socket, or to none, is lost.
Arrive(from) ==
    /\ Open /\ Len(inbox) < Room
    /\ inbox' = Append(inbox, [from |-> from, late |-> clock >= Timeout - Listen])

\* The answer of a server to a broadcast of this search or an earlier one.  Others are lost.
ServerAnswers(s) ==
    /\ sent > 0 \/ searches > 1
    /\ answers < MaxAnswers /\ answers' = answers + 1
    /\ Arrive(s)
    /\ UNCHANGED <<phase, clock, until, retry, info, used, searches, others, sent, disturbed>>

OtherDevice ==
    /\ others < MaxOther /\ others' = others + 1
    /\ Arrive(Other)
    /\ UNCHANGED <<phase, clock, until, retry, info, used, searches, answers, sent, disturbed>>

-----------------------------------------------------------------------------
(* discovery_start_with_timeout *)

\* No socket is no search: the caller tries again later.
Begin ==
    /\ phase = "idle" /\ searches < MaxSearches
    /\ phase' = "check"
    /\ clock' = 0 /\ until' = 0 /\ retry' = 0 /\ inbox' = <<>>
    /\ used' = None
    /\ searches' = searches + 1 /\ sent' = 0 /\ disturbed' = FALSE
    /\ UNCHANGED <<info, others, answers>>

GiveUp ==
    /\ phase = "check" /\ clock >= Timeout
    /\ phase' = "idle"
    /\ UNCHANGED <<clock, until, retry, inbox, info, used, searches, others, answers, sent, disturbed>>

\* retry_count is below its limit whenever a round begins; it counts a sendto that fails too.
Broadcast ==
    /\ phase = "check" /\ clock < Timeout
    /\ phase' = "read" /\ until' = clock + Listen
    /\ retry' = retry + 1 /\ sent' = IF sent < Retries THEN sent + 1 ELSE sent
    /\ UNCHANGED <<clock, inbox, info, used, searches, others, answers, disturbed>>

\* parse_announce: a version that is missing leaves the one of an earlier announcement.
Announced(s) ==
    [ip |-> s, version |-> IF Version[s] = Silent THEN info.version ELSE Version[s]]

ReadAnnounce ==
    /\ phase = "read" /\ inbox # <<>> /\ inbox[1].from # Other
    /\ info' = Announced(inbox[1].from)
    /\ inbox' = Tail(inbox)
    /\ phase' = "found"
    /\ UNCHANGED <<clock, until, retry, used, searches, others, answers, sent, disturbed>>

\* Mutant of RestTime: the remaining time does not matter.
RestTimeWhole == Interval - 3

\* The rest of the interval, but not beyond the end of the search, unless that is over already
RestTime ==
    LET rest == Interval - 3 IN
    IF Timeout - clock > 0 /\ rest > Timeout - clock THEN Timeout - clock ELSE rest

\* Mutant of Turn: the rest comes after one broadcast more.
TurnLate ==
    IF retry > Retries
    THEN /\ retry' = 0
         /\ phase' = "rest" /\ until' = clock + RestTime
    ELSE /\ phase' = "check" /\ UNCHANGED <<retry, until>>

\* The end of a turn of the loop: a full round is followed by a rest.
Turn ==
    IF retry >= Retries
    THEN /\ retry' = 0
         /\ phase' = "rest" /\ until' = clock + RestTime
    ELSE /\ phase' = "check" /\ UNCHANGED <<retry, until>>

ReadOther ==
    /\ phase = "read" /\ inbox # <<>> /\ inbox[1].from = Other
    /\ inbox' = Tail(inbox) /\ disturbed' = TRUE
    /\ Turn
    /\ UNCHANGED <<clock, info, used, searches, others, answers, sent>>

ReadTimeout ==
    /\ phase = "read" /\ inbox = <<>> /\ clock = until
    /\ phase' = "pause" /\ until' = clock + Pause
    /\ UNCHANGED <<clock, retry, inbox, info, used, searches, others, answers, sent, disturbed>>

PauseEnds ==
    /\ phase = "pause" /\ clock = until
    /\ Turn
    /\ UNCHANGED <<clock, inbox, info, used, searches, others, answers, sent, disturbed>>

RestEnds ==
    /\ phase = "rest" /\ clock = until
    /\ phase' = "check"
    /\ UNCHANGED <<clock, until, retry, inbox, info, used, searches, others, answers, sent, disturbed>>

\* Mutant of Matches: any version will do.
MatchesAny == TRUE

Matches == info.version = Mine

\* transport_handle_discovery_results
Judge ==
    /\ phase = "found"
    /\ used' = IF Matches THEN info.ip ELSE None
    /\ phase' = "idle"
    /\ UNCHANGED <<clock, until, retry, inbox, info, searches, others, answers, sent, disturbed>>

\* Time passes while the task waits.
Tick ==
    /\ phase \in {"read", "pause", "rest"} /\ clock < until
    /\ phase = "read" => inbox = <<>>
    /\ clock' = clock + 1
    /\ UNCHANGED <<phase, until, retry, inbox, info, used, searches, others, answers, sent, disturbed>>

Search == \/ GiveUp \/ Broadcast \/ ReadAnnounce \/ ReadOther \/ ReadTimeout
          \/ PauseEnds \/ RestEnds \/ Judge

SearchNext ==
    \/ Begin \/ Search \/ Tick \/ OtherDevice
    \/ \E s \in Servers : ServerAnswers(s)

SearchSpec == SearchInit /\ [][SearchNext]_searchVars

\* The task runs, and time passes.
SearchFairSpec == SearchSpec /\ WF_searchVars(Search) /\ WF_searchVars(Tick)

-----------------------------------------------------------------------------
(* Properties *)

SearchTypeOK ==
    /\ phase \in {"idle", "check", "read", "pause", "rest", "found"}
    /\ clock \in Nat /\ until \in Nat /\ retry \in 0 .. Retries
    /\ inbox \in Seq(Datagrams) /\ Len(inbox) <= Room
    /\ info.ip \in Servers \cup {None} /\ info.version \in {Version[s] : s \in Servers} \cup {Silent}
    /\ used \in Servers \cup {None}
    /\ searches \in 0 .. MaxSearches /\ others \in 0 .. MaxOther /\ answers \in 0 .. MaxAnswers
    /\ sent \in 0 .. Retries /\ disturbed \in BOOLEAN

\* FZ-02: the version is checked before a connection.  It is not: an announcement without a
\* version passes with the version of an earlier one.
VersionChecked == used # None => Version[used] = Mine

\* A server that announces another version is never connected to; one that announces none is
\* only when one with the right version was heard before it and none with another since.
OtherVersionRefused ==
    used # None => Version[used] = Mine \/ (Version[used] = Silent /\ info.version = Mine)

\* A search that fails has asked a whole round of times, and unless another device was heard in
\* the middle of it, an announcement that it leaves unread came in its last second, in which it
\* sleeps.  With others a round may be over at once, and the rest of the search, all but a
\* second of it, is one sleep.
Unread == {inbox[i] : i \in {j \in DOMAIN inbox : inbox[j].from # Other}}

HeardIsTaken ==
    phase = "check" /\ clock >= Timeout =>
        sent >= Retries /\ (~disturbed => \A d \in Unread : d.late)

\* A search that no other device disturbs ends on time.  One that is may begin its last turn just
\* before its time is over, and then sleeps for the rest of a whole interval.
EndsOnTime ==
    clock <= Timeout + (IF disturbed THEN Listen + Pause + Interval - 4 ELSE 0)

\* Every search ends, with a server or without.
SearchEnds == phase = "check" ~> phase = "idle"

\* A search of 5 s asks and listens for as long, and no longer than it may, and ends.
SearchKept == [](HeardIsTaken /\ EndsOnTime) /\ SearchEnds

=============================================================================
