------------------------------ MODULE MCInputs ------------------------------
(***************************************************************************)
(* What the daemon reads from outside, a connection, a JSON text, a string *)
(* or a number in it, or a configuration file, and the delays it works out from the           *)
(* configuration: one of them in a behaviour.                              *)
(***************************************************************************)
EXTENDS HttpConnection, JsonInputs, StringInputs, NumeralInputs, Config,
        RetrySchedule

-----------------------------------------------------------------------------
(* Connections.  *)

Request(method, target) == [method |-> method, target |-> target]

MCRequestLines ==
  [health |-> Request("HEAD", <<"/", "healthz", "?", "a", "/">>),
   wrong  |-> Request("POST", <<"/", "healthz">>),
   create |-> Request("POST", <<"/", "/", "api", "/", "jobs", "/">>),
   list   |-> Request("GET", <<"/", "api", "/", "jobs">>),
   pause  |-> Request("POST", <<"/", "api", "/", "jobs", "/", "1", "/", "pause">>),
   show   |-> Request("GET", <<"/", "api", "/", "jobs", "/", "1", "/", "pause">>),
   stop   |-> Request("POST", <<"/", "api", "/", "jobs", "/", "1", "/", "stop">>),
   root   |-> Request("GET", <<"/">>)]

Long(digits) == [key |-> "content-length", value |-> digits]

MCHeaderLines ==
  [len9   |-> Long(<<9>>),  len09 |-> Long(<<0, 9>>),
   len10  |-> Long(<<1, 0>>), len11 |-> Long(<<1, 1>>),
   past   |-> Long(<<2, 6, 5, -1>>),
   huge   |-> Long(<<2, 6, 5>>), signed |-> Long(<<-1, 9>>),
   coding |-> [key |-> "transfer-encoding", value |-> <<>>],
   host   |-> [key |-> "host", value |-> <<>>],
   agent  |-> [key |-> "user-agent", value |-> <<>>]]

Of(line, headers, body, means) ==
  [line |-> line, headers |-> headers, end |-> CRLF, blank |-> CRLF,
   body |-> body, endless |-> FALSE, means |-> means]

Members(a, x, b, y) == <<"{", a, ":", x, ",", b, ":", y, "}">>
Submit == Members("source", "/a", "dest", "/b")

Simple ==
  {Of("health", <<>>, <<>>, Plain(200)), Of("wrong", <<>>, <<>>, Plain(405)),
   Of("list", <<>>, <<>>, Plain(405)), Of("pause", <<>>, <<>>, Command("pause", 200)),
   Of("show", <<>>, <<>>, Plain(405)), Of("stop", <<>>, <<>>, Plain(404)),
   Of("root", <<>>, <<>>, Plain(404)), Of("junk", <<>>, <<>>, Plain(400))}

Submissions ==
  {Of("create", hs, Submit, Command("submit", 202)) :
     hs \in {<<"len9">>, <<"host", "len09">>, <<"len10">>, <<"len11">>, <<"huge">>, <<"past">>,
             <<"signed">>, <<"coding">>, <<"coding", "len9">>, <<"len9", "len9">>,
             <<"len9", "fold">>, <<"len9", "host", "agent">>,
             <<"len9", "host", "agent", "agent">>}}
  \cup {Of("create", <<"len9">>, body, Plain(400)) :
          body \in {Members("source", "/a", "source", "/b"),
                    Members("source", "/a", "dest", "rel"),
                    Members("source", "/a", "dest", "7")}}

(* The same sent badly: bare line feeds, no blank line, more than declared.  *)
MCMessages ==
  Simple \cup Submissions
    \cup {[m EXCEPT !.end = <<"LF">>] : m \in Simple}
    \cup {[m EXCEPT !.blank = <<>>, !.endless = e] :
            m \in Simple, e \in BOOLEAN}
    \cup {[m EXCEPT !.endless = TRUE,
                    !.means = IF m.headers = <<"len10">> THEN Plain(400) ELSE @] :
            m \in Simple \cup Submissions}

-----------------------------------------------------------------------------
(* Texts and files.  *)

(* The bytes at the edges of the UTF-8 ranges, and the code units at those   *)
(* of the surrogates.                                                        *)
MCSymbols ==
  {Raw(n) : n \in {31, 34, 92, 127, 128, 143, 144, 159, 160, 191, 193, 194, 224,
                   237, 240, 244, 245}}
    \cup {Esc(n) : n \in {-1, 0, 55296, 56320, 65535}}

L(kind, name, value) == [kind |-> kind, name |-> name, value |-> value]

MCLines ==
  {L("blank", "", 0), L("badHeader", "", 0), L("noEquals", "", 0),
   L("header", "storage", 0), L("header", "retry", 0), L("header", "other", 0),
   L("entry", "database_path", 1), L("entry", "database_path", 0),
   L("entry", "backoff_initial_ms", 60001), L("entry", "backoff_max_ms", 60001)}

-----------------------------------------------------------------------------
(* One of the six; the others are at rest.  *)

HRest ==
  /\ message = <<>> /\ buffer = <<>> /\ head = Nothing /\ remaining = 0
  /\ hpc = "done" /\ reply = 0 /\ call = "none" /\ result = "none"
  /\ gave_up = TRUE

JRest == document = <<>> /\ edited = TRUE

SRest == sample = [n \in 1..MaxSample |-> Esc(-1)]

NRest == numeral = [n \in 1..MaxDigits |-> 1] /\ negative = FALSE

CRest ==
  /\ text = <<>> /\ section = "" /\ seen_sections = {} /\ seen_keys = {}
  /\ cfg = Default /\ issues = {} /\ out = Untouched /\ verdict = "none"

RRest == initial_ms = 1 /\ max_ms = 1 /\ delays = [n \in 1..MaxFailures |-> 1]

Init ==
  \/ HInit /\ JRest /\ SRest /\ NRest /\ CRest /\ RRest
  \/ HRest /\ JInit /\ SRest /\ NRest /\ CRest /\ RRest
  \/ HRest /\ JRest /\ SInit /\ NRest /\ CRest /\ RRest
  \/ HRest /\ JRest /\ SRest /\ NInit /\ CRest /\ RRest
  \/ HRest /\ JRest /\ SRest /\ NRest /\ CInit /\ RRest
  \/ HRest /\ JRest /\ SRest /\ NRest /\ CRest /\ RInit

vars == <<hvars, jvars, sample, nvars, cvars, rvars>>

Next ==
  \/ Serve /\ UNCHANGED <<jvars, sample, nvars, cvars, rvars>>
  \/ Edit /\ UNCHANGED <<hvars, sample, nvars, cvars, rvars>>
  \/ Grow /\ UNCHANGED <<hvars, jvars, nvars, cvars, rvars>>
  \/ AddDigit /\ UNCHANGED <<hvars, jvars, sample, cvars, rvars>>
  \/ CNext /\ UNCHANGED <<hvars, jvars, sample, nvars, rvars>>
  \/ ScheduleRetry /\ UNCHANGED <<hvars, jvars, sample, nvars, cvars>>

(* The handler is scheduled, and a read returns: its deadline passes if      *)
(* nothing else happens (ConnectionServer sets it).                          *)
Spec == Init /\ [][Next]_vars /\ WF_hvars(Serve)
=============================================================================
