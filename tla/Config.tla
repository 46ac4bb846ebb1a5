------------------------------- MODULE Config -------------------------------
(***************************************************************************)
(* The configuration loader (cpp/src/config.cpp), one step per line of the *)
(* file.  A line is its kind, the name it carries (a section or a key) and *)
(* a value.  A value is an integer: what a token of digits denotes (those  *)
(* before a NUL, where strtoul stops), or for a text its number, 0 for the *)
(* empty text and -1 for a token that is not digits only, a bind with a    *)
(* blank, a path with a NUL, an unknown level.                             *)
(***************************************************************************)
EXTENDS Integers, Sequences, FiniteSets

CONSTANTS
  Lines,       \* the lines a file is made of
  MaxLines     \* bound on the length of a file

Kinds == {"blank", "badHeader", "header", "noEquals", "entry"}

ASSUME ConfigAssumption ==
  /\ \A l \in Lines : l.kind \in Kinds
  /\ MaxLines \in Nat

VARIABLES
  text,            \* the lines read so far
  section,         \* "" before the first header
  seen_sections, seen_keys,
  cfg,             \* the configuration under construction
  issues,          \* numbers of the lines complained about, 0 for the file
  out,             \* the caller's Config
  verdict

cvars == <<text, section, seen_sections, seen_keys, cfg, issues, out, verdict>>

Sections == {"http", "jobs", "storage", "retry", "logging"}

(* The keys, qualified by their section.  *)
Path    == <<"storage", "database_path">>
Initial == <<"retry", "backoff_initial_ms">>
Maximum == <<"retry", "backoff_max_ms">>
Keys == {Path, Initial, Maximum, <<"http", "bind">>, <<"http", "port">>,
         <<"http", "max_body_bytes">>, <<"jobs", "workers">>,
         <<"retry", "max_attempts">>, <<"logging", "level">>}

(* The largest number of a key, the smallest being 1; the levels are 1..5.   *)
Limit(key) ==
  CASE key = <<"http", "port">> -> 65535
    [] key = <<"http", "max_body_bytes">> -> 16777216
    [] key = <<"jobs", "workers">> -> 64
    [] key = <<"retry", "max_attempts">> -> 100
    [] key \in {Initial, Maximum} -> 3600000
    [] key = <<"logging", "level">> -> 5

(* What parse_uint, parse_severity and the tests of a text let through.  *)
Admissible(key) ==
  IF key \in {Path, <<"http", "bind">>} THEN Nat \ {0} ELSE 1..Limit(key)

(* Config(): the defaults; the text 1 is "127.0.0.1", the level 2 is INFO.   *)
Default ==
  [key \in Keys |->
     CASE key = Path -> 0
       [] key = <<"http", "bind">> -> 1
       [] key = <<"http", "port">> -> 8080
       [] key = <<"http", "max_body_bytes">> -> 65536
       [] key = <<"jobs", "workers">> -> 4
       [] key = <<"retry", "max_attempts">> -> 3
       [] key = Initial -> 1000
       [] key = Maximum -> 60000
       [] key = <<"logging", "level">> -> 2]

(* The caller's Config before the call: not a configuration of this file.  *)
Untouched == [key \in Keys |-> -1]

CInit ==
  /\ text = <<>> /\ section = "" /\ seen_sections = {} /\ seen_keys = {}
  /\ cfg = Default /\ issues = {} /\ out = Untouched
  /\ verdict = "open"

(* load_config_file(): the file is read, or cannot be opened.  *)
OpenFile ==
  /\ verdict = "open"
  /\ \/ verdict' = "reading" /\ UNCHANGED issues
     \/ verdict' = "unreadable" /\ issues' = {0}
  /\ UNCHANGED <<text, section, seen_sections, seen_keys, cfg, out>>

Issue == issues' = issues \cup {Len(text')}

(* A section header.  A repeated one does not become the current section; an *)
(* unknown one does.                                                         *)
Header(name) ==
  /\ IF name \in seen_sections
     THEN Issue /\ UNCHANGED <<section, seen_sections>>
     ELSE /\ seen_sections' = seen_sections \cup {name}
          /\ section' = name
          /\ IF name \in Sections THEN UNCHANGED issues ELSE Issue
  /\ UNCHANGED <<seen_keys, cfg>>

(* key = value: refused outside a section, without a key, a second time, if  *)
(* the key is unknown or the value is not admissible.                        *)
Entry(name, value) ==
  LET key == <<section, name>> IN
  /\ IF section = "" \/ name = "" \/ key \in seen_keys
     THEN Issue /\ UNCHANGED <<seen_keys, cfg>>
     ELSE /\ seen_keys' = seen_keys \cup {key}
          /\ IF key \in Keys /\ value \in Admissible(key)
             THEN cfg' = [cfg EXCEPT ![key] = value] /\ UNCHANGED issues
             ELSE Issue /\ UNCHANGED cfg
  /\ UNCHANGED <<section, seen_sections>>

(* One turn of the loop: every issue is kept, and the loop goes on.  *)
ReadLine(line) ==
  /\ verdict = "reading" /\ Len(text) < MaxLines
  /\ text' = Append(text, line)
  /\ \/ /\ line.kind = "blank"
        /\ UNCHANGED <<section, seen_sections, seen_keys, cfg, issues>>
     \/ /\ line.kind \in {"badHeader", "noEquals"}
        /\ Issue /\ UNCHANGED <<section, seen_sections, seen_keys, cfg>>
     \/ line.kind = "header" /\ Header(line.name)
     \/ line.kind = "entry" /\ Entry(line.name, line.value)
  /\ UNCHANGED <<out, verdict>>

(* Mutant: the two backoffs are not compared.  *)
Finish_unchecked ==
  /\ verdict = "reading"
  /\ issues' = issues \cup IF cfg[Path] = 0 THEN {0} ELSE {}
  /\ IF issues' = {} THEN verdict' = "accepted" /\ out' = cfg
     ELSE verdict' = "refused" /\ UNCHANGED out
  /\ UNCHANGED <<text, section, seen_sections, seen_keys, cfg>>

(* The end of the file: what is required, and the check across two keys.  *)
Finish ==
  /\ verdict = "reading"
  /\ issues' = issues \cup IF cfg[Path] = 0 \/ cfg[Initial] > cfg[Maximum]
                           THEN {0} ELSE {}
  /\ IF issues' = {} THEN verdict' = "accepted" /\ out' = cfg
     ELSE verdict' = "refused" /\ UNCHANGED out
  /\ UNCHANGED <<text, section, seen_sections, seen_keys, cfg>>

CNext == OpenFile \/ (\E line \in Lines : ReadLine(line)) \/ Finish

CSpec == CInit /\ [][CNext]_cvars

-----------------------------------------------------------------------------
(* The reference: what the file says, whichever order it is read in.  *)

(* The headers above line i, and the section the line is in: the nearest.  *)
HeadersAbove(i) == {h \in 1..(i - 1) : text[h].kind = "header"}

SectionOf(i) ==
  LET nearest == CHOOSE h \in HeadersAbove(i) :
                   \A g \in HeadersAbove(i) : g <= h
  IN  IF HeadersAbove(i) = {} THEN "" ELSE text[nearest].name

KeyOf(i) == <<SectionOf(i), text[i].name>>

Repeated(i) == \E h \in HeadersAbove(i) : text[h].name = text[i].name

(* The line is wrong, on its own or after the lines above it.  *)
Faulty(i) ==
  \/ text[i].kind \in {"badHeader", "noEquals"}
  \/ text[i].kind = "header" /\ (Repeated(i) \/ text[i].name \notin Sections)
  \/ /\ text[i].kind = "entry"
     /\ \/ KeyOf(i) \notin Keys
        \/ text[i].value \notin Admissible(KeyOf(i))
        \/ \E j \in 1..(i - 1) : text[j].kind = "entry" /\ KeyOf(j) = KeyOf(i)

(* The section above line i is the one the loader is in as well.  *)
Settled(i) ==
  \A h \in 1..(i - 1) : /\ text[h].kind # "badHeader"
                        /\ text[h].kind = "header" => ~Repeated(h)

(* The value the file gives a key, or its default.  *)
Given(key) ==
  LET lines == {i \in 1..Len(text) : text[i].kind = "entry" /\ KeyOf(i) = key}
  IN  IF lines = {} THEN Default[key]
      ELSE text[CHOOSE i \in lines : TRUE].value

Sound ==
  /\ \A i \in 1..Len(text) : ~Faulty(i)
  /\ Given(Path) # 0 /\ Given(Initial) <= Given(Maximum)

(* A file is accepted exactly if no line of it is wrong, the database is     *)
(* named and the backoffs are ordered, defaults included; the caller's       *)
(* Config is then what the file says, and otherwise untouched (L3-CPP-033 to *)
(* 039; config.cpp:141).  One run lists every line that is wrong and no      *)
(* other (L2-CFG-008, L3-CPP-035); a line below a header that was refused is *)
(* judged in the section above it, so nothing is claimed of it.              *)
ConfigExact ==
  /\ verdict \in {"accepted", "refused"} =>
       IF Sound THEN verdict = "accepted" /\ \A key \in Keys : out[key] = Given(key)
                ELSE verdict = "refused" /\ out = Untouched
  /\ \A i \in 1..Len(text) : Settled(i) => (i \in issues <=> Faulty(i))
=============================================================================
