-------------------------------- MODULE Json --------------------------------
(***************************************************************************)
(* The JSON parser (cpp/src/json.cpp) and the decoder of a submission      *)
(* (api_codec.cpp).  A text is a sequence of tokens; a quoted string is    *)
(* one token named by its content, a number, a literal and a blank are one *)
(* token each.  What is between the quotes is JsonStrings, what a number   *)
(* comes to NumeralInputs.                                                 *)
(***************************************************************************)
EXTENDS Numeral, FiniteSets

CONSTANTS
  Strings,            \* contents of quoted strings
  max_input, max_depth, max_members, max_elements

ASSUME JsonAssumption ==
  {max_input, max_depth, max_members, max_elements} \subseteq Nat \ {0}

(* F(x), with x evaluated once.  *)
Once(x, F(_)) == CHOOSE r \in {F(v) : v \in {x}} : TRUE

Numbers  == {"7"}
Literals == {"true", "false"}
Other    == {"null", "x"}
Tokens   == {"{", "}", "[", "]", ",", ":", " "} \cup Strings \cup Numbers
              \cup Literals \cup Other

Scalar(type, content) == [type |-> type, string |-> content, members |-> <<>>]
Object(members) == [type |-> "Object", string |-> "", members |-> members]
Array == [type |-> "Array", string |-> "", members |-> <<>>]

skip_ws(s, i) ==
  CHOOSE j \in i..(Len(s) + 1) : /\ j > Len(s) \/ s[j] # " "
                                 /\ \A k \in i..(j - 1) : s[k] = " "

At(s, i, token) == i <= Len(s) /\ s[i] = token

RECURSIVE parse_value(_, _, _)
RECURSIVE parse_members(_, _, _, _)
RECURSIVE parse_elements(_, _, _, _)

(* Mutant: a repeated member name is let through.  *)
NameRefused_resolves(name, members) ==
  name \notin Strings \/ Len(members) >= max_members

(* A member name that is not a string, is repeated, or is one too many.  *)
NameRefused(name, members) ==
  \/ name \notin Strings
  \/ \E k \in 1..Len(members) : members[k].key = name
  \/ Len(members) >= max_members

(* The members of an object from place i on.  *)
parse_members(s, i, depth, members) ==
  LET colon == skip_ws(s, i + 1)
      After(value) ==
        LET next == skip_ws(s, value.at)
            all  == Append(members, [key |-> s[i], value |-> value.value])
        IN  IF ~value.ok THEN Failure
            ELSE IF At(s, next, ",")
                 THEN parse_members(s, skip_ws(s, next + 1), depth, all)
            ELSE IF At(s, next, "}") THEN Success(next + 1, Object(all))
            ELSE Failure
  IN  IF i > Len(s) \/ NameRefused(s[i], members) \/ ~At(s, colon, ":")
      THEN Failure
      ELSE Once(parse_value(s, skip_ws(s, colon + 1), depth + 1), After)

(* The elements of an array from place i on, of which there are count.  *)
parse_elements(s, i, depth, count) ==
  LET After(value) ==
        LET next == skip_ws(s, value.at) IN
        IF ~value.ok THEN Failure
        ELSE IF At(s, next, ",")
             THEN parse_elements(s, skip_ws(s, next + 1), depth, count + 1)
        ELSE IF At(s, next, "]") THEN Success(next + 1, Array)
        ELSE Failure
  IN  IF i > Len(s) \/ count >= max_elements THEN Failure
      ELSE Once(parse_value(s, i, depth + 1), After)

(* parse_value, with the openings of parse_object and parse_array.  *)
parse_value(s, i, depth) ==
  LET inside == skip_ws(s, i + 1) IN
  IF depth > max_depth \/ i > Len(s) THEN Failure
  ELSE CASE s[i] = "{" -> IF At(s, inside, "}")
                          THEN Success(inside + 1, Object(<<>>))
                          ELSE parse_members(s, inside, depth, <<>>)
         [] s[i] = "[" -> IF At(s, inside, "]") THEN Success(inside + 1, Array)
                          ELSE parse_elements(s, inside, depth, 0)
         [] s[i] \in Strings  -> Success(i + 1, Scalar("String", s[i]))
         [] s[i] \in Literals -> Success(i + 1, Scalar("Bool", s[i]))
         [] s[i] \in Numbers  -> Success(i + 1, Scalar("Int", s[i]))
         [] OTHER -> Failure

(* Parser::run(): an object, and nothing after it.  *)
run(s) ==
  LET start == skip_ws(s, 1)
      After(value) == IF ~value.ok THEN Failure
                      ELSE IF skip_ws(s, value.at) <= Len(s) THEN Failure
                      ELSE value
  IN  IF Len(s) > max_input \/ ~At(s, start, "{") THEN Failure
      ELSE Once(parse_value(s, start, 1), After)

(* The members source and dest, no other, both of them strings that are not  *)
(* empty.                                                                    *)
Submitted(members) ==
  LET find(key) == {k \in 1..Len(members) : members[k].key = key}
      required(key) == \E k \in find(key) : /\ members[k].value.type = "String"
                                            /\ members[k].value.string # ""
      content(key) == members[CHOOSE k \in find(key) : TRUE].value.string
  IN  IF /\ \A k \in 1..Len(members) : members[k].key \in {"source", "dest"}
         /\ required("source") /\ required("dest")
      THEN [ok |-> TRUE, source |-> content("source"), dest |-> content("dest")]
      ELSE Failure

decode_submit_request(s) ==
  Once(run(s), LAMBDA root : IF root.ok THEN Submitted(root.value.members)
                             ELSE Failure)
=============================================================================
