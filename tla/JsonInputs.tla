----------------------------- MODULE JsonInputs -----------------------------
(***************************************************************************)
(* Json against what a text means: the grammar of ADR-0009 as sets of      *)
(* token sequences.  A document of the grammar is changed in one place.    *)
(***************************************************************************)
EXTENDS Json

CONSTANT Names    \* the strings of documents

ASSUME JsonInputsAssumption ==
  /\ Names \subseteq Strings
  /\ max_members = 2 /\ max_elements = 1   \* what the grammar spells out

VARIABLES
  document,    \* a sequence of tokens
  edited       \* it was changed

jvars == <<document, edited>>

-----------------------------------------------------------------------------
(* The grammar: the token sequences of the values with at most so many       *)
(* levels.  Below the last level even a scalar is refused.                   *)

Scalars == {<<t>> : t \in Names \cup Numbers \cup Literals}

MembersOf(values) == {<<k, ":">> \o v : k \in Names, v \in values}

Objects(members) ==
  {<<"{", "}">>}
    \cup {<<"{">> \o p \o <<"}">> : p \in members}
    \cup {<<"{">> \o pq[1] \o <<",">> \o pq[2] \o <<"}">> :
            pq \in {x \in members \X members : x[1][1] # x[2][1]}}

Arrays(values) ==
  {<<"[", "]">>} \cup {<<"[">> \o v \o <<"]">> : v \in values}

Levels[n \in 0..max_depth] ==
  IF n = 0 THEN {}
  ELSE Scalars \cup Objects(MembersOf(Levels[n - 1])) \cup Arrays(Levels[n - 1])

Documents == Objects(MembersOf(Levels[max_depth - 1]))

(* One level too many, one element too many, one member too many.  *)
TooMuch ==
  LET three == MembersOf({<<"7">>}) IN
  Objects({<<"source", ":">> \o v : v \in Levels[max_depth]})
    \cup {<<"{", "source", ":", "[", "7", ",", "7", "]", "}">>}
    \cup {<<"{">> \o p \o <<",">> \o q \o <<",">> \o r \o <<"}">> :
            p \in three, q \in three, r \in three}

JInit ==
  /\ document \in Documents \cup TooMuch
  /\ edited = (document \notin Documents)

(* A token is lost, replaced or put in.  *)
Edit ==
  /\ ~edited /\ edited' = TRUE
  /\ \E i \in 1..(Len(document) + 1), t \in Tokens \ (Strings \ Names) :
       document' \in {SubSeq(document, 1, i - 1) \o middle
                        \o SubSeq(document, j, Len(document)) :
                        middle \in {<<>>, <<t>>}, j \in {i, i + 1}}

-----------------------------------------------------------------------------
Dense(s) == SelectSeq(s, LAMBDA t : t # " ")

Submission(source, dest) ==
  {<<"{", "source", ":", source, ",", "dest", ":", dest, "}">>,
   <<"{", "dest", ":", dest, ",", "source", ":", source, "}">>}

(* The parser accepts a text exactly if it is a document of the grammar, up  *)
(* to blanks: not with a token missing, replaced or left over, a name        *)
(* repeated, or one level, element or member too many (L2-JSON-001 to 005;   *)
(* json.cpp:55).  And a body is a submission exactly if it says source and   *)
(* dest, once each, as strings with something in them, and nothing else;     *)
(* what is submitted is what it says (L3-CPP-025 to 028; api_codec.cpp:104). *)
DocumentExact ==
  LET body == Dense(document)
      request == decode_submit_request(document)
  IN  /\ run(document).ok <=> body \in Documents
      /\ IF \E source, dest \in Names \ {""} : body \in Submission(source, dest)
         THEN request.ok /\ body \in Submission(request.source, request.dest)
         ELSE ~request.ok
=============================================================================
