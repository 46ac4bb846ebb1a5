\* Lengths, widths and limits are scaled down together: a head of at most 14
\* symbols, a body of at most 10, 8-bit integers.
CONSTANTS
  Strings = {"source", "dest", "", "/a", "/b", "rel"}
  Names = {"source", "dest", ""}
  decode <- decode_submit_request
  FilePaths = {"/a", "/b"}
  max_input = 12
  max_depth = 2
  max_members = 2
  max_elements = 1
  max_string_bytes = 8
  IntMax = 127
  SizeMax = 255
  Messages <- MCMessages
  RequestLines <- MCRequestLines
  HeaderLines <- MCHeaderLines
  max_head_bytes = 14
  max_body_bytes = 10
  max_headers = 2
  HeadChunk = 4
  BodyChunk = 3
  Symbols <- MCSymbols
  Digits = {0, 1, 2, 7, 8, 9}
  MaxSample = 4
  MaxDigits = 4
  Lines <- MCLines
  MaxLines = 5
  Delays = {1, 3, 8, 9}
  MaxFailures = 6
SPECIFICATION Spec
INVARIANTS
  
  DocumentExact
  StringExact
  NumberExact
  ConfigExact
  BackoffExact
PROPERTIES
  ConnectionBounded
CHECK_DEADLOCK FALSE
