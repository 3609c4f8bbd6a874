---------------------------- MODULE MkHttpParser ----------------------------
(***************************************************************************)
(* One HTTP session reading requests: the receive buffer                   *)
(* (mk_http_handler_read), the resumable parser (mk_http_parser), what     *)
(* mk_http_request_prepare is handed, and what mk_http_request_end leaves  *)
(* for the next request of the connection, pipelined or not.               *)
(*                                                                         *)
(* The parser copies nothing: a field of a request is a pointer into the   *)
(* buffer, and the buffer grows, is compacted and is filled again while    *)
(* the request lives.  What interleaves is the network, which may cut the  *)
(* bytes of a client anywhere.  One turn of the parser's loop is one step. *)
(*                                                                         *)
(* A character is a string; "CR", "LF" and "NUL" are the control ones.     *)
(* Names are two characters long, PREFIX stands for "HTTP/1.", and letters *)
(* have one case.                                                          *)
(***************************************************************************)
EXTENDS Integers, Sequences, SequencesExt

CONSTANTS
  Clients,        \* each a sequence of flights, see Send
  CHUNK,          \* MK_REQUEST_CHUNK, the size of body_fixed
  BUFFER,         \* conn->net->buffer_size, by which the buffer grows
  MAX_REQUEST,    \* mk_config->max_request_size
  EXTRA,          \* MK_HEADER_EXTRA_SIZE
  MaxKeepAlive    \* mk_config->max_keep_alive_request

ASSUME ParserAssumption ==
  /\ {CHUNK, BUFFER} \subseteq Nat \ {0}
  /\ {MAX_REQUEST, EXTRA, MaxKeepAlive} \subseteq Nat
  /\ \A c \in Clients : /\ c \in Seq(Range(c))
                        /\ \A f \in Range(c) : f.bytes \in Seq(STRING)

VARIABLES
  todo,     \* the flights the client has not sent
  wire,     \* bytes sent and not yet read from the socket
  asked,    \* the requests the client has sent
  served,   \* the requests mk_http_request_prepare was handed
  pc,       \* "idle" in epoll, "read" / "end" parsing on behalf of
            \* mk_http_sched_read / mk_http_request_end, "answer" being
            \* answered, "gone" removed
  cs,       \* struct mk_http_session but for its buffer
  fixed,    \* cs->body_fixed
  heap,     \* the block cs->body points to once body_fixed is too small
  p,        \* struct mk_http_parser
  sr        \* struct mk_http_request

vars == <<todo, wire, asked, served, pc, cs, fixed, heap, p, sr>>

PREFIX == <<"H", "/">>
Methods == [GET |-> <<"G", "e">>, POST |-> <<"P", "o">>, PUT |-> <<"P", "u">>]
Headers == [HOST |-> <<"h", "o">>, CONTENT_LENGTH |-> <<"c", "l">>,
            CONNECTION |-> <<"c", "n">>]
Digit == [d \in {"0", "1", "2", "3"} |->
            CASE d = "0" -> 0 [] d = "1" -> 1 [] d = "2" -> 2 [] OTHER -> 3]
NoField == [gen |-> 0, at |-> 0, len |-> 0]

ParserInit ==
  [i |-> 0, level |-> "FIRST", status |-> "METHOD", method |-> "NONE",
   start |-> 0, end |-> 0, chars |-> -1, key |-> -1, sep |-> -1, val |-> -1,
   scope |-> {}, length |-> -1, port |-> 0, connection |-> "EMPTY",
   headers |-> <<>>, extra |-> <<>>]

(* mk_http_request_init.  query_string and data keep what they were.       *)
RequestInit(r) ==
  [r EXCEPT !.linked = TRUE, !.method = "NONE", !.protocol = "UNKNOWN",
            !.uri = NoField]

(* mk_http_session_init: a transport that reads more than a chunk at once  *)
(* (TLS) gets a block of its own from the start.                           *)
OnHeap == BUFFER > CHUNK

Init ==
  /\ \E c \in Clients : todo = c
  /\ wire = <<>> /\ asked = <<>> /\ served = <<>>
  /\ pc = "idle"
  /\ cs = [size |-> IF OnHeap THEN BUFFER ELSE CHUNK, len |-> 0,
           gen |-> IF OnHeap THEN 1 ELSE 0, status |-> "INCOMPLETE",
           counter |-> 0, close |-> FALSE]
  /\ fixed = [k \in 1..CHUNK |-> "NUL"]
  /\ heap = IF OnHeap THEN [k \in 1..BUFFER |-> "NUL"] ELSE <<>>
  /\ p = ParserInit
  /\ sr = [linked |-> FALSE, method |-> "NONE", protocol |-> "UNKNOWN",
           uri |-> NoField, query |-> NoField, data |-> NoField]

-----------------------------------------------------------------------------
(* The buffer.  gen tells the blocks cs->body has pointed to apart: 0 is   *)
(* body_fixed, which lives as long as the session.                         *)

Body    == IF cs.gen = 0 THEN fixed ELSE heap
Char(k) == Body[k + 1]

Field(from, to) == [gen |-> cs.gen, at |-> from, len |-> to - from]

(* What a reader finds at a field: nobody knows in a block that was freed. *)
Content(f) ==
  LET block == IF f.gen = 0 THEN fixed
               ELSE IF f.gen = cs.gen THEN heap ELSE <<>>
  IN  [k \in 1..f.len |->
         IF f.at + k <= Len(block) THEN block[f.at + k] ELSE "FREED"]

(* The bytes s stored at offset n, and the terminator after them.          *)
Put(block, n, s) ==
  [k \in 1..Len(block) |->
     IF k > n /\ k <= n + Len(s) THEN s[k - n]
     ELSE IF k = n + Len(s) + 1 THEN "NUL" ELSE block[k]]

(* The client sends a flight, and waits for the answers before the next.   *)
Send ==
  /\ pc = "idle" /\ wire = <<>> /\ todo # <<>>
  /\ Len(served) = Len(asked)
  /\ wire' = Head(todo).bytes
  /\ asked' = asked \o Head(todo).asks
  /\ todo' = Tail(todo)
  /\ UNCHANGED <<served, pc, cs, fixed, heap, p, sr>>

Full == cs.len >= cs.size

(* In epoll, also while the answer to a request is under way.              *)
Reading == pc \in {"idle", "answer"}

(* mk_request_premature_close: the session is removed.                     *)
TooLarge ==
  /\ Reading /\ wire # <<>>
  /\ Full /\ cs.size + BUFFER > MAX_REQUEST
  /\ pc' = "gone"
  /\ UNCHANGED <<todo, wire, asked, served, cs, fixed, heap, p, sr>>

(* The block a growing buffer is in: malloc for the first, then realloc,   *)
(* which may move it.                                                      *)
Moved(gen) == IF gen = 0 THEN {1} ELSE {gen, gen + 1}

Mut_Grown == IF Full THEN cs.size + BUFFER ELSE cs.size + 1

Grown == IF Full THEN cs.size + BUFFER ELSE cs.size

(* mk_http_sched_read up to its call of the parser: read n bytes.          *)
Read(n) ==
  /\ Reading
  /\ Grown <= MAX_REQUEST \/ ~Full
  /\ n <= Len(wire) /\ n <= Grown - cs.len
  /\ LET new  == SubSeq(wire, 1, n)
         blk  == [k \in 1..Grown |->
                    IF k <= Len(Body) THEN Body[k] ELSE "NUL"]
     IN  \E g \in IF Full THEN Moved(cs.gen) ELSE {cs.gen} :
           /\ cs' = [cs EXCEPT !.size = Grown, !.len = @ + n, !.gen = g]
           /\ IF g = 0
              THEN fixed' = Put(fixed, cs.len, new) /\ UNCHANGED heap
              ELSE heap' = Put(blk, cs.len, new) /\ UNCHANGED fixed
  /\ wire' = SubSeq(wire, n + 1, Len(wire))
  /\ sr' = IF sr.linked THEN sr ELSE RequestInit(sr)
  /\ pc' = "read"
  /\ UNCHANGED <<todo, asked, served, p>>

-----------------------------------------------------------------------------
(* The parser.                                                             *)

Parsing(level, status) ==
  /\ pc \in {"read", "end"} /\ p.i < cs.len
  /\ p.level = level /\ p.status = status
Here == Char(p.i)

(* The end of a turn: the parser context is q, and the request r.  chars   *)
(* is only ever compared with -1 and 0, so it stops at 1.                  *)
Turn(q, r) ==
  /\ p' = [q EXCEPT !.i = @ + 1, !.chars = IF @ < 1 THEN @ + 1 ELSE 1]
  /\ sr' = r
  /\ UNCHANGED <<todo, wire, asked, served, pc, cs, fixed, heap>>

(* mark_end and start_next: the field ends before character j.             *)
EndField(q, j) == [q EXCEPT !.i = j, !.end = j, !.start = j + 1, !.chars = -1]
NewLine(q) == [q EXCEPT !.start = q.i + 1]

Found(c, from) == {j \in from..(cs.len - 1) : Char(j) = c}

Mut_CharLookup(c) ==
  IF Found(c, p.i) = {} THEN p.start ELSE Min(Found(c, p.i))

(* char_lookup: the first c from here on, or here when there is none.      *)
CharLookup(c) == IF Found(c, p.i) = {} THEN p.i ELSE Min(Found(c, p.i))

(* method_lookup: the method guessed from the first letter, by prefix, or  *)
(* the one with exactly this name.                                         *)
MethodLookup(w) ==
  IF p.method # "NONE" /\ IsPrefix(Tail(w), Tail(Methods[p.method]))
  THEN p.method
  ELSE LET known == {m \in DOMAIN Methods : Methods[m] = w}
       IN  IF known = {} THEN "NONE" ELSE CHOOSE m \in known : TRUE

Guess(c) == CASE c = "G" -> "GET" [] c = "P" -> "POST" [] OTHER -> "NONE"

Method ==
  /\ Parsing("FIRST", "METHOD")
  /\ \/ /\ p.chars = -1
        /\ Turn([p EXCEPT !.method = Guess(Here)], sr)
     \/ /\ p.chars # -1 /\ Here = " " /\ p.i >= 2
        /\ Turn([EndField(p, p.i) EXCEPT !.status = "URI"],
                [sr EXCEPT !.method =
                   MethodLookup(Content(Field(p.start, p.i)))])
     \/ /\ p.chars # -1 /\ Here # " " /\ p.i - p.start <= 10
        /\ Turn(p, sr)

URI ==
  /\ Parsing("FIRST", "URI")
  /\ \/ /\ Here = " " /\ p.i > p.start
        /\ Turn([EndField(p, p.i) EXCEPT !.status = "PROT_VERSION"],
                [sr EXCEPT !.uri = Field(p.start, p.i)])
     \/ /\ Here = "?"
        /\ Turn([EndField(p, p.i) EXCEPT !.status = "QUERY_STRING"],
                [sr EXCEPT !.uri = Field(p.start, p.i)])
     \/ /\ Here \notin {" ", "?", "CR", "LF"}
        /\ Turn(p, sr)

QueryString ==
  /\ Parsing("FIRST", "QUERY_STRING")
  /\ LET j == CharLookup(" ")
     IN  \/ /\ Char(j) = " "
            /\ Turn([EndField(p, j) EXCEPT !.status = "PROT_VERSION"],
                    [sr EXCEPT !.query = Field(p.start, j)])
         \/ /\ Char(j) \notin {" ", "CR", "LF"}
            /\ Turn([p EXCEPT !.i = j], sr)

Versioned == p.i >= p.start + Len(PREFIX)

ProtVersion ==
  /\ Parsing("FIRST", "PROT_VERSION")
  /\ \/ ~Versioned /\ Turn(p, sr)
     \/ /\ Versioned
        /\ Content(Field(p.start, p.start + Len(PREFIX))) = PREFIX
        /\ Turn([p EXCEPT !.status = "FIRST_CONTINUE"],
                [sr EXCEPT !.protocol =
                   IF Here \in {"0", "1"} THEN Here ELSE "UNKNOWN"])

FirstContinue ==
  /\ Parsing("FIRST", "FIRST_CONTINUE") /\ Here = "CR"
  /\ Turn([p EXCEPT !.status = "FIRST_FINALIZING"], sr)

FirstFinalizing ==
  /\ Parsing("FIRST", "FIRST_FINALIZING") /\ Here = "LF"
  /\ Turn([NewLine(p) EXCEPT !.level = "CONTINUE"], sr)

Continue ==
  /\ Parsing("CONTINUE", "FIRST_FINALIZING") /\ Here = "CR"
  /\ Turn([p EXCEPT !.level = "FIRST", !.status = "BLOCK_END"], sr)

(* header_min .. header_max, the headers that start with this letter.      *)
Scope(c) == {h \in DOMAIN Headers : Head(Headers[h]) = c}

(* The first character of a row; of the first row, seen at level CONTINUE. *)
HeaderStart ==
  /\ \/ Parsing("CONTINUE", "FIRST_FINALIZING")
     \/ Parsing("HEADERS", "HEADER_KEY") /\ p.chars = 0
  /\ Here # "CR"
  /\ Turn([p EXCEPT !.level = "HEADERS", !.status = "HEADER_KEY",
                    !.chars = 0, !.scope = Scope(Here), !.key = p.i], sr)

(* The key cannot be empty here: HeaderStart took its first character.     *)
HeaderKey ==
  /\ Parsing("HEADERS", "HEADER_KEY")
  /\ \/ /\ Here = "CR" /\ p.chars = 0
        /\ Turn([NewLine(p) EXCEPT !.level = "END"], sr)
     \/ /\ Here # "CR" /\ p.chars # 0
        /\ LET j == CharLookup(":")
           IN  \/ /\ Char(j) = ":"
                  /\ Turn([EndField(p, j) EXCEPT !.status = "HEADER_VALUE",
                                                 !.sep = j], sr)
               \/ Char(j) # ":" /\ Turn([p EXCEPT !.i = j], sr)

HeaderValue ==
  /\ Parsing("HEADERS", "HEADER_VALUE") /\ Here \notin {"CR", "LF"}
  /\ Turn(IF Here = " " THEN p
          ELSE [p EXCEPT !.status = "HEADER_VAL_STARTS",
                         !.start = p.i, !.val = p.i], sr)

(* header_lookup: the row that ends here, and the known header it is.      *)
Row   == [key |-> Field(p.key, p.sep), val |-> Field(p.val, p.i)]
Value == Content(Row.val)

Known ==
  {h \in p.scope : /\ Len(Headers[h]) = p.sep - p.key
                   /\ Tail(Headers[h]) = Content(Field(p.key + 1, p.sep))}

Number(digits) == FoldLeft(LAMBDA n, d : 10 * n + Digit[d], 0, digits)
Digits(s) == \* strtol: the digits s starts with
  LET ends == {k \in 0..Len(s) : k = Len(s) \/ s[k + 1] \notin DOMAIN Digit}
  IN  SubSeq(s, 1, Min(ends))

Colons   == {k \in 1..(Len(Value) - 1) : Value[k + 1] = ":"}
PortText == SubSeq(Value, Max(Colons) + 2, Len(Value))

Acceptable(h) ==
  CASE h = "HOST" ->
         IF Colons = {} THEN TRUE
         ELSE Len(PortText) \in 1..5 /\ Digits(PortText) = PortText
    [] h = "CONTENT_LENGTH" -> Digits(Value) # <<>>
    [] OTHER -> TRUE

HeaderFits ==
  IF Known = {} THEN Len(p.extra) < EXTRA ELSE \A h \in Known : Acceptable(h)

WithHeader(h, f) == [x \in DOMAIN p.headers \cup {h} |->
                       IF x = h THEN f ELSE p.headers[x]]

(* A value as long as one of the three names, but another, is ignored.     *)
Connection(v, before) ==
  CASE v = <<"k">> -> "KA"
    [] v = <<"z">> -> "CLOSE"
    [] v = <<"u">> -> "UPGRADE"
    [] Len(v) # 1 -> "UNKNOWN"
    [] OTHER -> before

HeaderLookup ==
  IF Known = {} THEN [p EXCEPT !.extra = Append(@, Row)]
  ELSE LET h == CHOOSE x \in Known : TRUE
           q == [p EXCEPT !.headers = WithHeader(h, Row.val)]
       IN  CASE h = "CONTENT_LENGTH" ->
                  [q EXCEPT !.length = Number(Digits(Value))]
             [] h = "CONNECTION" ->
                  [q EXCEPT !.connection = Connection(Value, @)]
             [] h = "HOST" /\ Colons # {} ->
                  [q EXCEPT !.port = Number(PortText),
                            !.headers[h].len = Max(Colons)]
             [] OTHER -> q

(* "Try to catch next LF": both characters, when both have arrived.        *)
RowEnd(q) ==
  IF q.i + 1 < cs.len /\ Char(q.i + 1) = "LF"
  THEN [EndField(q, q.i + 1) EXCEPT !.end = q.i, !.status = "HEADER_KEY"]
  ELSE [EndField(q, q.i) EXCEPT !.status = "HEADER_END"]

HeaderValStarts ==
  /\ Parsing("HEADERS", "HEADER_VAL_STARTS")
  /\ \/ Here = "CR" /\ p.i > p.start /\ HeaderFits
        /\ Turn(RowEnd(HeaderLookup), sr)
     \/ Here \notin {"CR", "LF"} /\ Turn(p, sr)

HeaderEnd ==
  /\ Parsing("HEADERS", "HEADER_END") /\ Here = "LF"
  /\ Turn([NewLine(p) EXCEPT !.status = "HEADER_KEY", !.chars = -1], sr)

HeadersEnd ==
  /\ Parsing("END", p.status) /\ Here = "LF" /\ p.length > 0
  /\ Turn([NewLine(p) EXCEPT !.level = "BODY", !.chars = -1], sr)

Received == cs.len - p.start

Mut_BodyComplete == Received > p.length

BodyComplete == Received >= p.length

(* Whether this turn ends the request, and whether it does so well.        *)
Ended ==
  \/ Parsing("FIRST", "BLOCK_END") /\ Here = "LF"
  \/ Parsing("END", p.status) /\ Here = "LF" /\ p.length <= 0
  \/ Parsing("BODY", p.status) /\ BodyComplete

(* mk_http_parser_ok.                                                      *)
Valid ==
  /\ sr.protocol # "UNKNOWN"
  /\ sr.method \in {"POST", "PUT"} => "CONTENT_LENGTH" \in DOMAIN p.headers

(* MK_HTTP_PARSER_PENDING: all that has arrived is parsed, or the body is  *)
(* incomplete.                                                             *)
Pending ==
  /\ pc \in {"read", "end"}
  /\ p.i >= cs.len \/ (p.level = "BODY" /\ ~BodyComplete)
  /\ pc' = "idle"
  /\ UNCHANGED <<todo, wire, asked, served, cs, fixed, heap, p, sr>>

Malformed ==
  LET In(status) == Parsing("FIRST", status)
      Hd(status) == Parsing("HEADERS", status)
  IN  \/ In("METHOD") /\ p.chars # -1
         /\ IF Here = " " THEN p.i < 2 ELSE p.i - p.start > 10
      \/ In("URI") /\ (Here \in {"CR", "LF"} \/ (Here = " " /\ p.i = p.start))
      \/ In("QUERY_STRING") /\ Char(CharLookup(" ")) \in {"CR", "LF"}
      \/ In("PROT_VERSION") /\ Versioned
         /\ Content(Field(p.start, p.start + Len(PREFIX))) # PREFIX
      \/ In("FIRST_CONTINUE") /\ Here # "CR"
      \/ In("FIRST_FINALIZING") /\ Here # "LF"
      \/ In("BLOCK_END") /\ Here # "LF"
      \/ Hd("HEADER_KEY") /\ p.chars # 0 /\ Here = "CR"
      \/ Hd("HEADER_VALUE") /\ Here \in {"CR", "LF"}
      \/ Hd("HEADER_VAL_STARTS")
         /\ (Here = "LF" \/ (Here = "CR" /\ ~HeaderFits))
      \/ Hd("HEADER_END") /\ Here # "LF"
      \/ Parsing("END", p.status) /\ Here # "LF"

(* MK_HTTP_PARSER_ERROR: both callers remove the session.                  *)
ParserError ==
  /\ Malformed \/ (Ended /\ ~Valid)
  /\ pc' = "gone"
  /\ UNCHANGED <<todo, wire, asked, served, cs, fixed, heap, p, sr>>

-----------------------------------------------------------------------------
(* The request is complete.                                                *)

Host(r) == IF "HOST" \in DOMAIN p.headers
           THEN Content(p.headers["HOST"]) ELSE <<>>

(* The request as the rest of the server reads it through its pointers.    *)
Seen(r) ==
  [method |-> r.method, protocol |-> r.protocol, uri |-> Content(r.uri),
   query |-> Content(r.query), data |-> Content(r.data), host |-> Host(r),
   port |-> p.port, connection |-> p.connection,
   extra |-> [k \in DOMAIN p.extra |->
                <<Content(p.extra[k].key), Content(p.extra[k].val)>>]]

(* mk_http_request_prepare answers these with mk_http_error.               *)
Refused(r) ==
  \/ Content(r.uri) = <<>> \/ Head(Content(r.uri)) # "/"
  \/ r.protocol = "1" /\ "HOST" \notin DOMAIN p.headers

(* mk_http_keepalive_check.                                                *)
CloseAfter(r) ==
  \/ cs.counter >= MaxKeepAlive
  \/ p.connection = "CLOSE"
  \/ p.connection # "KA" /\ r.protocol = "0"

(* The body is whatever has arrived after the headers.                     *)
BodyTaken == IF p.level = "BODY" THEN [p EXCEPT !.i = @ + Received] ELSE p

WithData ==
  IF p.level = "BODY"
  THEN [sr EXCEPT !.data = Field(p.start, p.start + Received)] ELSE sr

(* mk_http_status_completed, which only mk_http_sched_read asks.           *)
AlreadyCompleted == pc = "read" /\ cs.status = "COMPLETED"

(* MK_HTTP_PARSER_OK.  A refused request is answered at once, and may be   *)
(* over without mk_http_request_end (see MkWorker, HttpError).             *)
Prepare ==
  /\ Ended /\ Valid /\ ~AlreadyCompleted
  /\ p' = BodyTaken /\ sr' = WithData
  /\ served' = Append(served, Seen(WithData))
  /\ cs' = [cs EXCEPT !.status = "COMPLETED",
                      !.close = IF Refused(WithData) THEN @
                                ELSE CloseAfter(WithData)]
  /\ pc' \in IF Refused(WithData) THEN {"answer", "idle"} ELSE {"answer"}
  /\ UNCHANGED <<todo, wire, asked, fixed, heap>>

(* "HTTP Completed but already completed, aborting conx".                  *)
Abort ==
  /\ Ended /\ Valid /\ AlreadyCompleted
  /\ pc' = "gone"
  /\ UNCHANGED <<todo, wire, asked, served, cs, fixed, heap, p, sr>>

-----------------------------------------------------------------------------
(* mk_http_request_end, once the answer has been written.                  *)

(* mk_http_parser_more: the bytes after the request.                       *)
Rest == cs.len - p.i - 1

LimitReached == MaxKeepAlive <= cs.counter

Mut_Shifted(block) == block

(* memmove: the rest to the front, with nothing cleared behind it.         *)
Shifted(block) ==
  [k \in 1..Len(block) |->
     IF k <= Rest THEN block[k + p.i + 1] ELSE block[k]]

NextPipelined ==
  /\ pc = "answer" /\ ~LimitReached /\ Rest > 0
  /\ IF cs.gen = 0 THEN fixed' = Shifted(fixed) /\ UNCHANGED heap
                   ELSE heap' = Shifted(heap) /\ UNCHANGED fixed
  /\ cs' = [cs EXCEPT !.len = Rest, !.counter = @ + 1]
  /\ p' = ParserInit
  /\ sr' = RequestInit(sr)
  /\ pc' = "end"
  /\ UNCHANGED <<todo, wire, asked, served>>

(* mk_http_request_ka_next.                                                *)
NextKeepAlive ==
  /\ pc = "answer" /\ ~LimitReached /\ Rest <= 0 /\ ~cs.close
  /\ cs' = [cs EXCEPT !.len = 0, !.counter = @ + 1,
                      !.status = "INCOMPLETE"]
  /\ p' = ParserInit
  /\ sr' = [sr EXCEPT !.linked = FALSE]
  /\ pc' = "idle"
  /\ UNCHANGED <<todo, wire, asked, served, fixed, heap>>

LastOne ==
  /\ pc = "answer" /\ (LimitReached \/ (Rest <= 0 /\ cs.close))
  /\ pc' = "gone"
  /\ UNCHANGED <<todo, wire, asked, served, cs, fixed, heap, p, sr>>

(* The client hangs up, or the timer closes the connection.                *)
SchedClose ==
  /\ Reading
  /\ pc' = "gone"
  /\ UNCHANGED <<todo, wire, asked, served, cs, fixed, heap, p, sr>>

ReadSome == \E n \in 1..Len(wire) : Read(n)

ParserTurn ==
  \/ Method \/ URI \/ QueryString \/ ProtVersion \/ FirstContinue
  \/ FirstFinalizing \/ Continue \/ HeaderStart \/ HeaderKey \/ HeaderValue
  \/ HeaderValStarts \/ HeaderEnd \/ HeadersEnd \/ Pending \/ ParserError
  \/ Prepare \/ Abort

Next ==
  \/ Send \/ TooLarge \/ ReadSome \/ ParserTurn
  \/ NextPipelined \/ NextKeepAlive \/ LastOne \/ SchedClose

Spec == Init /\ [][Next]_vars /\ WF_vars(ParserTurn)

-----------------------------------------------------------------------------
(* In the first n bytes of cs->body, or anywhere in body_fixed.            *)
FieldWithin(f, n) ==
  /\ f.len >= 0 /\ f.at >= 0
  /\ f.gen = cs.gen => f.at + f.len <= n
  /\ f.gen = 0 => f.at + f.len <= CHUNK

(* The size of the first block malloc returns: up to it, nothing moves.    *)
FirstBlock == IF OnHeap THEN BUFFER ELSE CHUNK + BUFFER

(* What the parser and the request point to, and whether the session still *)
(* has the block it is in.                                                 *)
Fields ==
  {p.headers[h] : h \in DOMAIN p.headers}
  \cup (UNION {{p.extra[k].key, p.extra[k].val} : k \in DOMAIN p.extra})
  \cup {sr.query, sr.data} \cup {u \in {sr.uri} : sr.linked}
Held(f) == f.gen \in {0, cs.gen}

(* Every index mk_http_parser keeps between two turns lies in the bytes    *)
(* received, in the order the parts of a row have: the parser never looks  *)
(* outside cs->body, whatever a client sends and however it arrives.  So   *)
(* does every field found so far in the block cs->body points to, and what *)
(* an earlier request left in query_string and data lies in the block.     *)
(* Until realloc is first called no field is in any other block but        *)
(* body_fixed.  From then on (mk_http.c:313) a field may point into a      *)
(* block that was freed, of which this says nothing.                       *)
IndicesInside ==
  /\ cs.len \in 0..cs.size /\ cs.size = Len(Body)
  /\ p.i \in 0..cs.len /\ p.start \in 0..p.i
  /\ p.status \in {"HEADER_VALUE", "HEADER_VAL_STARTS"} =>
       0 <= p.key /\ p.key < p.sep /\ p.sep < p.i
  /\ p.status = "HEADER_VAL_STARTS" => p.sep < p.val /\ p.val < p.i
  /\ sr.linked => FieldWithin(sr.uri, cs.len)
  /\ \A h \in DOMAIN p.headers : FieldWithin(p.headers[h], cs.len)
  /\ \A k \in DOMAIN p.extra : /\ FieldWithin(p.extra[k].key, cs.len)
                               /\ FieldWithin(p.extra[k].val, cs.len)
  /\ FieldWithin(sr.query, cs.size) /\ FieldWithin(sr.data, cs.size)
  /\ cs.size <= FirstBlock => \A f \in Fields : Held(f)

(* The requests handed to mk_http_request_prepare are the ones the client  *)
(* sent, in order and field for field, wherever the network cut the bytes, *)
(* whatever was left in the buffer by an earlier request, and though the   *)
(* buffer grew or was compacted under the pointers.                        *)
RequestsAsSent == IsPrefix(served, asked)

(* A session that waits for the client has nothing left to parse: when all *)
(* that was sent has been read, every complete request has been handed on  *)
(* (mk_http_parser never answers PENDING on a complete request, and        *)
(* mk_http_request_end never leaves one behind in the buffer).             *)
NeverStuck == pc = "idle" /\ wire = <<>> => Len(served) >= Len(asked)

(* The loop of mk_http_parser ends on every input.                         *)
ParserReturns == pc \in {"read", "end"} ~> pc \notin {"read", "end"}
=============================================================================
