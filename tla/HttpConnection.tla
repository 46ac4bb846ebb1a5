--------------------------- MODULE HttpConnection ---------------------------
(***************************************************************************)
(* One connection through the HTTP service (cpp/src/http_service.cpp): the *)
(* reads, the request head (http_parser.cpp), the declared length, the     *)
(* body, and the route to the job manager (router.cpp).                    *)
(*                                                                         *)
(* The wire carries symbols: CR, LF, the content of a line of the head,    *)
(* the tokens of a body (Json).  A read returns any part of what is still  *)
(* to come, so a message may be cut anywhere, and it may fail at any time: *)
(* a deadline passes, the peer closes, the socket errs.  An endless client *)
(* goes on with "x" for ever.                                              *)
(***************************************************************************)
EXTENDS Numeral, FiniteSets

CONSTANTS
  Messages,        \* what clients send
  RequestLines,    \* the method and target of the well-formed request lines
  HeaderLines,     \* the key and value of the well-formed headers
  decode(_),       \* decode_submit_request() of a body (Json)
  FilePaths,       \* strings that are absolute paths naming a file
  max_head_bytes, max_body_bytes, max_headers,
  HeadChunk, BodyChunk,    \* the sizes of the two read buffers
  SizeMax                  \* numeric_limits<uint64_t>::max()

(* A value of content-length is a sequence of digits, -1 standing for any    *)
(* other character.                                                          *)
ASSUME HttpAssumption ==
  /\ {max_head_bytes, max_body_bytes, max_headers, HeadChunk, BodyChunk, SizeMax}
       \subseteq Nat \ {0}
  /\ max_body_bytes <= SizeMax
  /\ \A h \in DOMAIN HeaderLines :
       HeaderLines[h].key = "content-length" => HeaderLines[h].value \in Seq(-1..9)

VARIABLES
  message,    \* what the client of this connection sends
  buffer,     \* what was read of it
  head,       \* the parsed head
  remaining,  \* symbols of the body still to be read
  hpc,        \* the handler's place
  reply,      \* the status written, 0 for none
  call,       \* the command given to the manager, "none" for none
  result,     \* and its CommandResult
  gave_up     \* a read failed

hvars == <<message, buffer, head, remaining, hpc, reply, call, result, gave_up>>

-----------------------------------------------------------------------------
(* What is sent: the request line, the headers, the end of each of these     *)
(* lines, what follows them (CRLF ends the head) and the body.               *)

CRLF == <<"CR", "LF">>

Complete(m) == m.end = CRLF /\ m.blank = CRLF

LinesLength(m) == (Len(m.headers) + 1) * (1 + Len(m.end))
HeadLength(m) == LinesLength(m) + Len(m.blank)
WireLength(m) == HeadLength(m) + Len(m.body)

Content(m, k) == IF k = 1 THEN m.line ELSE m.headers[k - 1]

(* The i-th symbol on the wire.  *)
Symbol(m, i) ==
  LET width == 1 + Len(m.end)
      place == (i - 1) % width
  IN  IF i <= LinesLength(m)
      THEN IF place = 0 THEN Content(m, (i - 1) \div width + 1) ELSE m.end[place]
      ELSE IF i <= HeadLength(m) THEN m.blank[i - LinesLength(m)]
      ELSE IF i <= WireLength(m) THEN m.body[i - HeadLength(m)]
      ELSE "x"

Elements(s) == {s[k] : k \in DOMAIN s}

(* A line breaks nowhere but at its end, and nothing else ends a head.  *)
ASSUME MessagesAssumption ==
  \A m \in Messages :
    /\ m.end \in {CRLF, <<"LF">>} /\ m.blank \in {CRLF, <<>>}
    /\ m.headers \in Seq(Elements(m.headers)) /\ m.body \in Seq(Elements(m.body))
    /\ ({m.line} \cup Elements(m.headers)) \cap {"CR", "LF"} = {}
    /\ Complete(m) \/ "CR" \notin Elements(m.body)
    /\ m.endless \in BOOLEAN

(* The k symbols after the first n.  *)
Part(m, n, k) == [i \in 1..k |-> Symbol(m, n + i)]

(* What a read of at most n symbols may return.  *)
Arrivals(n) ==
  LET place == Len(buffer)
      most == IF message.endless \/ place + n <= WireLength(message) THEN n
              ELSE WireLength(message) - place
  IN  {Part(message, place, k) : k \in 1..most}

-----------------------------------------------------------------------------
(* http_parser.cpp  *)

Nothing == [method |-> "", target |-> <<>>, headers |-> <<>>, len |-> 0]

Unparsed(state) == [state |-> state, request |-> Nothing]

(* The lines of a head that ends at data[last].  getline() cuts at every LF, *)
(* and a line that is not one content and a CR is malformed; so is a head    *)
(* with a line that means nothing, too many headers or a repeated name.      *)
ParseLines(data, last) ==
  LET content(k) == data[3 * k - 2]
      count == last \div 3 - 1
      header(k) == HeaderLines[content(k + 1)]
  IN  IF /\ last % 3 = 0
         /\ \A k \in 1..(count + 1) : data[3 * k - 1] = "CR" /\ data[3 * k] = "LF"
         /\ content(1) \in DOMAIN RequestLines
         /\ \A k \in 1..count : content(k + 1) \in DOMAIN HeaderLines
         /\ count <= max_headers
         /\ \A j, k \in 1..count : j # k => header(j).key # header(k).key
      THEN [state |-> "Ok",
            request |-> [method |-> RequestLines[content(1)].method,
                         target |-> RequestLines[content(1)].target,
                         headers |-> [k \in 1..count |-> header(k)],
                         len |-> last + 2]]
      ELSE Unparsed("Bad")

(* Where CRLFCRLF is found.  *)
Ends(data) ==
  {i \in 1..(Len(data) - 3) : /\ data[i] = "CR" /\ data[i + 1] = "LF"
                             /\ data[i + 2] = "CR" /\ data[i + 3] = "LF"}

(* Mutant: a head that came whole is not measured.  *)
parse_request_head_whole(data) ==
  LET end == CHOOSE i \in Ends(data) : \A j \in Ends(data) : i <= j
  IN  IF Ends(data) # {} THEN ParseLines(data, end + 1)
      ELSE Unparsed(IF Len(data) > max_head_bytes THEN "TooLarge" ELSE "NeedMore")

(* Mutant: what has arrived of an unfinished head is not measured.  *)
parse_request_head_patient(data) ==
  LET end == CHOOSE i \in Ends(data) : \A j \in Ends(data) : i <= j
  IN  IF Ends(data) = {} THEN Unparsed("NeedMore")
      ELSE IF end + 3 > max_head_bytes THEN Unparsed("TooLarge")
      ELSE ParseLines(data, end + 1)

(* The first CRLFCRLF ends the head.  The cap holds with and without it.  *)
parse_request_head(data) ==
  LET end == CHOOSE i \in Ends(data) : \A j \in Ends(data) : i <= j
  IN  IF Ends(data) = {}
      THEN Unparsed(IF Len(data) > max_head_bytes THEN "TooLarge" ELSE "NeedMore")
      ELSE IF end + 3 > max_head_bytes THEN Unparsed("TooLarge")
      ELSE ParseLines(data, end + 1)

(* The digits before any other character.  *)
Leading(value) ==
  LET stops == {k \in DOMAIN value : value[k] = -1}
      first == CHOOSE k \in stops : \A j \in stops : k <= j
  IN  IF stops = {} THEN value ELSE SubSeq(value, 1, first - 1)

(* content_length_for(): the length, or the status it is refused with.  The  *)
(* loop stops at the first character that is no digit, or where the digits   *)
(* overflow.                                                                 *)
content_length_for(headers) ==
  LET has(key) == \E k \in DOMAIN headers : headers[k].key = key
      value == headers[CHOOSE k \in DOMAIN headers :
                         headers[k].key = "content-length"].value
      parsed == accumulate(Leading(value), SizeMax)
      Length(n) == [ok |-> TRUE, length |-> n, status |-> 0]
      Refused(status) == [ok |-> FALSE, length |-> 0, status |-> status]
  IN  IF has("transfer-encoding") THEN Refused(400)
      ELSE IF ~has("content-length") THEN Length(0)
      ELSE IF value = <<>> THEN Refused(400)
      ELSE IF parsed = -1 THEN Refused(413)
      ELSE IF Leading(value) # value THEN Refused(400)
      ELSE IF parsed > max_body_bytes THEN Refused(413)
      ELSE Length(parsed)

-----------------------------------------------------------------------------
(* serve_connection()  *)

HInit ==
  /\ message \in Messages
  /\ buffer = <<>> /\ head = Nothing /\ remaining = 0
  /\ hpc = "head" /\ reply = 0 /\ call = "none" /\ result = "none"
  /\ gave_up = FALSE

Answer(status) == hpc' = "done" /\ reply' = status

(* A read for the head.  A connection that yields no head is not answered.   *)
ReadHead ==
  /\ hpc = "head" /\ parse_request_head(buffer).state = "NeedMore"
  /\ \/ /\ \E chunk \in Arrivals(HeadChunk) : buffer' = buffer \o chunk
        /\ UNCHANGED <<hpc, gave_up>>
     \/ hpc' = "done" /\ gave_up' = TRUE /\ UNCHANGED buffer
  /\ UNCHANGED <<message, head, remaining, reply, call, result>>

(* The head is whole, malformed or too large; a whole one declares a length, *)
(* which is judged before any more is read, and so is what came with it.     *)
HeadRead ==
  /\ hpc = "head"
  /\ \E parsed \in {parse_request_head(buffer)} :
       \/ parsed.state = "Bad" /\ Answer(400) /\ UNCHANGED <<head, remaining>>
       \/ /\ parsed.state = "TooLarge"
          /\ Answer(431) /\ UNCHANGED <<head, remaining>>
       \/ /\ parsed.state = "Ok"
          /\ head' = parsed.request
          /\ LET declared == content_length_for(parsed.request.headers)
                 have == Len(buffer) - parsed.request.len
             IN  \/ /\ ~declared.ok
                    /\ Answer(declared.status) /\ UNCHANGED remaining
                 \/ /\ declared.ok /\ have > declared.length
                    /\ Answer(400) /\ UNCHANGED remaining
                 \/ /\ declared.ok /\ have <= declared.length
                    /\ remaining' = declared.length - have
                    /\ hpc' = "body" /\ UNCHANGED reply
  /\ UNCHANGED <<message, buffer, call, result, gave_up>>

(* A read for the body, of no more than what is missing.  *)
ReadBody ==
  /\ hpc = "body" /\ remaining > 0
  /\ \/ /\ \E chunk \in Arrivals(IF remaining < BodyChunk THEN remaining
                                 ELSE BodyChunk) :
             /\ buffer' = buffer \o chunk
             /\ remaining' = remaining - Len(chunk)
        /\ UNCHANGED <<hpc, reply, gave_up>>
     \/ Answer(400) /\ gave_up' = TRUE /\ UNCHANGED <<buffer, remaining>>
  /\ UNCHANGED <<message, head, call, result>>

-----------------------------------------------------------------------------
(* router.cpp  *)

CommandResult == {"Ok", "UnknownJob", "InvalidState", "NotRunning",
                  "StoreError"}
Actions == {"pause", "resume", "cancel", "retry"}

(* A target is a sequence of "/", "?" and names.  *)
path_segments(target) ==
  LET query == {i \in DOMAIN target : target[i] = "?"}
      path == IF query = {} THEN target
              ELSE SubSeq(target, 1, (CHOOSE i \in query :
                                        \A j \in query : i <= j) - 1)
  IN  SelectSeq(path, LAMBDA s : s # "/")

status_for(r) ==
  CASE r = "Ok" -> 200
    [] r = "UnknownJob" -> 404
    [] r = "InvalidState" -> 409
    [] r = "NotRunning" -> 503
    [] r = "StoreError" -> 500

(* A request that gives the manager no command, and one that gives it one;   *)
(* status is that of its success.                                            *)
Plain(status) == [call |-> "none", status |-> status]
Command(name, status) == [call |-> name, status |-> status]

Create(method, body) ==
  LET submission == decode(body)
  IN  IF method # "POST" THEN Plain(405)
      ELSE IF ~submission.ok THEN Plain(400)
      ELSE IF ~({submission.source, submission.dest} \subseteq FilePaths)
      THEN Plain(400)
      ELSE Command("submit", 202)

(* route_request()  *)
Routed(method, target, body) ==
  LET seg == path_segments(target)
      jobs == Len(seg) > 1 /\ seg[1] = "api" /\ seg[2] = "jobs"
  IN  CASE seg = <<"healthz">> ->
             Plain(IF method \in {"GET", "HEAD"} THEN 200 ELSE 405)
        [] jobs /\ Len(seg) = 2 -> Create(method, body)
        [] jobs /\ Len(seg) = 4 ->
             IF seg[4] \notin Actions THEN Plain(404)
             ELSE IF method # "POST" THEN Plain(405)
             ELSE Command(seg[4], 200)
        [] OTHER -> Plain(404)

(* request.body  *)
Body == SubSeq(buffer, head.len + 1,
               head.len + content_length_for(head.headers).length)

(* The request is routed, and answered with what the manager makes of it.  *)
Route ==
  /\ hpc = "body" /\ remaining = 0
  /\ \E routed \in {Routed(head.method, head.target, Body)} :
       \/ /\ routed.call = "none"
          /\ Answer(routed.status) /\ UNCHANGED <<call, result>>
       \/ /\ routed.call # "none"
          /\ call' = routed.call
          /\ \E r \in CommandResult :
               result' = r /\ Answer(IF r = "Ok" THEN routed.status ELSE status_for(r))
  /\ UNCHANGED <<message, buffer, head, remaining, gave_up>>

Serve == ReadHead \/ HeadRead \/ ReadBody \/ Route

(* The handler is scheduled, and a read returns: its deadline passes if      *)
(* nothing else happens (ConnectionServer sets it).                          *)
HSpec == HInit /\ [][Serve]_hvars /\ WF_hvars(Serve)

-----------------------------------------------------------------------------
(* Properties.  The reference judges the message by its parts, whole.        *)

WellFormed(m) ==
  /\ m.line \in DOMAIN RequestLines
  /\ \A k \in DOMAIN m.headers : m.headers[k] \in DOMAIN HeaderLines
  /\ Len(m.headers) <= max_headers
  /\ \A j, k \in DOMAIN m.headers :
       HeaderLines[m.headers[j]].key = HeaderLines[m.headers[k]].key => j = k

Says(m, key) == {k \in DOMAIN m.headers : HeaderLines[m.headers[k]].key = key}

(* What the message declares: a length, or -1 if that is not a number.  A    *)
(* length that is past the width is known for one by its leading digits.     *)
Declared(m) ==
  LET value == HeaderLines[m.headers[CHOOSE k \in Says(m, "content-length") :
                                       TRUE]].value
      leading == ValueOf(Leading(value))
  IN  IF Says(m, "content-length") = {} THEN 0
      ELSE IF leading > SizeMax THEN leading
      ELSE IF value = <<>> \/ \E k \in DOMAIN value : value[k] = -1 THEN -1
      ELSE leading

(* Its head is within the cap, well formed, and declares a body within it.  *)
Admitted(m) ==
  /\ Complete(m) /\ HeadLength(m) <= max_head_bytes /\ WellFormed(m)
  /\ Says(m, "transfer-encoding") = {} /\ Declared(m) \in 0..max_body_bytes

(* The first n symbols after the head, if there are as many.  *)
Sent(m, n) == Part(m, HeadLength(m), n)
Sends(m, n) == n <= Len(m.body) \/ m.endless

(* What the message means is m.means: the command it gives, or the status it *)
(* is answered with when it gives none.                                      *)
ASSUME MeansAssumption ==
  \A m \in Messages :
    Admitted(m) /\ Sends(m, Declared(m)) =>
      m.means = Routed(RequestLines[m.line].method, RequestLines[m.line].target,
                       Sent(m, Declared(m)))

(* The status of each outcome of a command (L2-CTL-005).  *)
StatusOf(r, success) ==
  CASE r = "Ok" -> success
    [] r = "UnknownJob" -> 404
    [] r = "InvalidState" -> 409
    [] r = "NotRunning" -> 503
    [] r = "StoreError" -> 500

AsMeant(m) ==
  IF m.means.call = "none" THEN call = "none" /\ reply = m.means.status
  ELSE /\ call = m.means.call
       /\ reply = StatusOf(result, m.means.status)

RefusedWith(status) == call = "none" /\ reply = status

(* The answer depends on the message and not on how it was cut into reads:   *)
(* 431 for a head over the cap, 400 for a malformed one, a body shorter than *)
(* declared or a transfer coding, 413 for a body over the cap; otherwise the *)
(* manager is given what the message means, once, and its result is what is  *)
(* answered.  Only bytes after the body are a matter of timing: refused if   *)
(* they came with the head, and never read otherwise (L2-CTL-002, 003, 005;  *)
(* L3-CPP-046 to 050; http_service.cpp:39).  Of a client that stalls, closes *)
(* or fails nothing reaches the manager, and it is answered, with 400, only  *)
(* if its head was there.                                                    *)
RepliesAsSent ==
  LET m == message
      declared == Declared(m)
  IN
  hpc = "done" =>
    IF gave_up THEN RefusedWith(IF head = Nothing THEN 0 ELSE 400)
    ELSE IF ~Complete(m) \/ HeadLength(m) > max_head_bytes THEN RefusedWith(431)
    ELSE IF ~WellFormed(m) \/ Says(m, "transfer-encoding") # {} \/ declared = -1
    THEN RefusedWith(400)
    ELSE IF declared > max_body_bytes THEN RefusedWith(413)
    ELSE \/ Sends(m, declared) /\ AsMeant(m)
         \/ (declared < Len(m.body) \/ m.endless) /\ RefusedWith(400)

(* The two caps and one read.  *)
BufferCap ==
  max_head_bytes + IF max_body_bytes > HeadChunk THEN max_body_bytes
                   ELSE HeadChunk

(* Every connection ends, the one that never completes its head and the one  *)
(* that never stops sending as well (L2-SEC-009), and until then it takes no *)
(* more memory than the two caps and one read, whatever the client sends     *)
(* (L2-CTL-003, L3-CPP-048).                                                 *)
ConnectionBounded ==
  /\ [](Len(buffer) <= BufferCap)
  /\ hpc # "done" ~> hpc = "done"
=============================================================================
