------------------------ MODULE MkHttpParser_proofs ------------------------
(***************************************************************************)
(* Proofs about MkHttpParser, for any clients, buffer sizes and limits:    *)
(* mk_http_parser never looks outside the bytes it was given, whatever     *)
(* they are, however they are cut, and however the buffer grows, moves and *)
(* is compacted under the request.  That the server does not either, when  *)
(* it reads the request's fields, holds only until realloc moves a block   *)
(* the fields are in.                                                      *)
(***************************************************************************)
EXTENDS MkHttpParser, SequenceTheorems, WellFoundedInduction, TLAPS

-----------------------------------------------------------------------------
(* The inductive invariant.                                                *)

Flights == UNION {Range(c) : c \in Clients}

FieldType == [gen : Nat, at : Int, len : Int]
RowType   == [key : FieldType, val : FieldType]

(* The fields of the three structures.                                     *)
Shapes ==
  /\ DOMAIN cs = {"size", "len", "gen", "status", "counter", "close"}
  /\ DOMAIN sr = {"linked", "method", "protocol", "uri", "query", "data"}

PShape(q) ==
  DOMAIN q = {"i", "level", "status", "method", "start", "end", "chars",
              "key", "sep", "val", "scope", "length", "port", "connection",
              "headers", "extra"}

(* The buffer: body_fixed until it is full, then a block of the size the   *)
(* session has noted; and no second block before the first is full.        *)
BufferOK ==
  /\ todo \in Seq(Flights) /\ wire \in Seq(STRING)
  /\ cs.size \in Nat /\ cs.len \in 0..cs.size /\ cs.gen \in Nat
  /\ DOMAIN fixed = 1..CHUNK
  /\ cs.gen = 0 => cs.size = CHUNK /\ ~OnHeap
  /\ cs.gen # 0 => DOMAIN heap = 1..cs.size /\ FirstBlock <= cs.size
  /\ cs.size <= FirstBlock => cs.gen <= 1

(* A field in a block that no longer grows, or in the first n bytes.       *)
FieldOK(f, n) ==
  f \in FieldType /\ f.gen <= cs.gen /\ FieldWithin(f, n)

(* Where the parser is when n bytes are received, and what it has found.   *)
(* The index of a key is good from its first character on (chars # 0).     *)
Place(q, n) ==
  /\ q.i \in 0..n /\ q.start \in 0..q.i
  /\ q.chars \in Int /\ q.key \in Int /\ q.sep \in Int /\ q.val \in Int
  /\ q.level = "HEADERS" /\ q.status = "HEADER_KEY" /\ q.chars # 0 =>
       0 <= q.key /\ q.key < q.i
  /\ q.status \in {"HEADER_VALUE", "HEADER_VAL_STARTS"} =>
       0 <= q.key /\ q.key < q.sep /\ q.sep < q.i
  /\ q.status = "HEADER_VAL_STARTS" => q.sep < q.val /\ q.val < q.i

Finds(q, n) ==
  /\ q.headers \in [DOMAIN q.headers -> FieldType]
  /\ \A h \in DOMAIN q.headers : FieldOK(q.headers[h], n)
  /\ q.extra \in Seq(RowType)
  /\ \A k \in DOMAIN q.extra :
       FieldOK(q.extra[k].key, n) /\ FieldOK(q.extra[k].val, n)

(* A body begins where the parser stands, unless it has been taken.        *)
BodyOK ==
  p.level = "BODY" =>
    p.i = p.start \/ (cs.status = "COMPLETED" /\ pc # "end")

(* What the request points to; an earlier one's fields are in the block.   *)
RequestOK(r, n) ==
  /\ r.uri \in FieldType /\ r.linked \in BOOLEAN
  /\ r.linked => FieldOK(r.uri, n)
  /\ FieldOK(r.query, cs.size) /\ FieldOK(r.data, cs.size)

ParserInv ==
  /\ Shapes /\ PShape(p) /\ BufferOK
  /\ Place(p, cs.len) /\ Finds(p, cs.len) /\ BodyOK
  /\ RequestOK(sr, cs.len)

-----------------------------------------------------------------------------
(* Facts about numbers and sequences.                                      *)

(* A set of numbers that is not empty has a least one.                     *)
LEMMA Least ==
  ASSUME NEW T, T \subseteq Nat, T # {}
  PROVE  Min(T) \in T /\ \A y \in T : Min(T) <= y
<1> DEFINE R == {ss \in Nat \X Nat : ss[1] < ss[2]}
<1>1. IsWellFoundedOn(R, Nat)
  BY NatLessThanWellFounded, Zenon DEF OpToRel
<1> HIDE DEF R
<1>2. PICK x \in T : \A y \in T : ~(<<y, x>> \in R)
  BY <1>1, WFMin
<1>3. \A y \in T : x <= y
  <2> SUFFICES ASSUME NEW y \in T, ~(x <= y) PROVE FALSE
    OBVIOUS
  <2>1. x \in Nat /\ y \in Nat
    OBVIOUS
  <2>2. y < x
    BY <2>1
  <2>3. <<y, x>> \in R
    BY <2>1, <2>2 DEF R
  <2> QED BY <1>2, <2>3
<1> QED BY <1>3 DEF Min

(* A bounded set of numbers that is not empty has a largest one.           *)
LEMMA Largest ==
  ASSUME NEW n \in Nat, NEW T, T \subseteq 1..n, T # {}
  PROVE  Max(T) \in T
<1> DEFINE D == {d \in Nat : n - d \in T}
<1>1. D \subseteq Nat /\ D # {}
  <2>1. PICK x \in T : TRUE
    OBVIOUS
  <2>2. x \in 1..n
    OBVIOUS
  <2>3. n - x \in Nat /\ n - (n - x) = x
    BY <2>2
  <2>4. n - x \in D
    BY <2>3
  <2> QED BY <2>4
<1> HIDE DEF D
<1>2. PICK m : m = Min(D)
  OBVIOUS
<1>3. m \in D /\ \A y \in D : m <= y
  BY <1>1, <1>2, Least
<1>4. m \in Nat /\ n - m \in T
  BY <1>3 DEF D
<1>5. \A x \in T : n - m >= x
  <2> SUFFICES ASSUME NEW x \in T PROVE n - m >= x
    OBVIOUS
  <2>1. x \in 1..n
    OBVIOUS
  <2>2. n - x \in Nat /\ n - (n - x) = x
    BY <2>1
  <2>3. n - x \in D
    BY <2>2 DEF D
  <2>4. m <= n - x
    BY <1>3, <2>3
  <2> QED BY <1>4, <2>1, <2>2, <2>4
<1> QED BY <1>4, <1>5 DEF Max

(* char_lookup never goes back, nor past the bytes received.               *)
LEMMA LooksAhead ==
  ASSUME NEW c, p.i \in Nat, cs.len \in Nat, p.i < cs.len
  PROVE  CharLookup(c) \in p.i..(cs.len - 1)
<1>1. PICK T : T = Found(c, p.i)
  OBVIOUS
<1>2. T \subseteq p.i..(cs.len - 1) /\ T \subseteq Nat
  BY <1>1 DEF Found
<1>3. CASE T = {}
  BY <1>1, <1>3 DEF CharLookup
<1>4. CASE T # {}
  <2>1. Min(T) \in T
    BY <1>2, <1>4, Least
  <2> QED BY <1>1, <1>2, <1>4, <2>1 DEF CharLookup
<1> QED BY <1>3, <1>4

(* The bytes from one index to a later one are a field of the buffer.      *)
LEMMA GoodField ==
  ASSUME BufferOK, NEW a \in Nat, NEW b \in Nat, a <= b,
         NEW n \in Nat, b <= n, n <= cs.size
  PROVE  /\ Field(a, b) \in FieldType /\ Field(a, b).at = a
         /\ Field(a, b).len = b - a /\ FieldOK(Field(a, b), n)
<1>1. CHUNK \in Nat
  BY ParserAssumption
<1>2. PICK f : f = Field(a, b)
  OBVIOUS
<1>3. /\ f \in FieldType /\ f.gen = cs.gen /\ f.at = a /\ f.len = b - a
  BY <1>2 DEF Field, FieldType, BufferOK
<1>4. FieldWithin(f, n)
  BY <1>1, <1>3 DEF FieldWithin, BufferOK
<1> QED BY <1>2, <1>3, <1>4 DEF FieldOK, BufferOK

(* No field at all is one of any buffer.                                   *)
LEMMA NoFieldOK ==
  ASSUME BufferOK, NEW n \in Nat
  PROVE  NoField \in FieldType /\ FieldOK(NoField, n)
BY ParserAssumption DEF NoField, FieldType, FieldOK, FieldWithin, BufferOK

-----------------------------------------------------------------------------
(* The turns of the parser.                                                *)

(* A turn that ends at context q and request r: what q must satisfy before *)
(* the index moves on.                                                     *)
TurnOK(q, r) ==
  /\ PShape(q) /\ q.i \in 0..(cs.len - 1) /\ q.start \in 0..(q.i + 1)
  /\ q.chars \in Int /\ q.key \in Int /\ q.sep \in Int /\ q.val \in Int
  /\ q.level = "HEADERS" /\ q.status = "HEADER_KEY" /\ q.chars # -1 =>
       0 <= q.key /\ q.key <= q.i
  /\ q.status \in {"HEADER_VALUE", "HEADER_VAL_STARTS"} =>
       0 <= q.key /\ q.key < q.sep /\ q.sep <= q.i
  /\ q.status = "HEADER_VAL_STARTS" => q.sep < q.val /\ q.val <= q.i
  /\ q.level = "BODY" => q.start = q.i + 1
  /\ Finds(q, cs.len)
  /\ DOMAIN r = {"linked", "method", "protocol", "uri", "query", "data"}
  /\ RequestOK(r, cs.len)

(* A turn of mk_http_parser that ends well keeps the invariant.            *)
LEMMA TurnKeeps ==
  ASSUME ParserInv, NEW q, NEW r, TurnOK(q, r), Turn(q, r)
  PROVE  ParserInv'
<1>1. UNCHANGED <<todo, wire, pc, cs, fixed, heap>> /\ sr' = r
  BY DEF Turn
<1>2. /\ PShape(p') /\ p'.i = q.i + 1
      /\ p'.chars = IF q.chars < 1 THEN q.chars + 1 ELSE 1
      /\ p'.level = q.level /\ p'.status = q.status /\ p'.start = q.start
      /\ p'.key = q.key /\ p'.sep = q.sep /\ p'.val = q.val
      /\ p'.headers = q.headers /\ p'.extra = q.extra
  BY DEF Turn, TurnOK, PShape
<1>3. Shapes' /\ BufferOK'
  BY <1>1 DEF ParserInv, Shapes, BufferOK, TurnOK
<1>4. cs.len \in Nat
  BY DEF ParserInv, BufferOK
<1>5. Place(p, cs.len)'
  BY <1>1, <1>2, <1>4 DEF Place, TurnOK
<1>6. Finds(p, cs.len)'
  BY <1>1, <1>2 DEF Finds, TurnOK, FieldOK, FieldWithin
<1>7. BodyOK'
  BY <1>2 DEF BodyOK, TurnOK
<1>8. RequestOK(sr, cs.len)'
  BY <1>1 DEF RequestOK, TurnOK, FieldOK, FieldWithin
<1>9. PShape(p)'
  BY <1>2 DEF PShape
<1> QED BY <1>3, <1>5, <1>6, <1>7, <1>8, <1>9 DEF ParserInv

(* What holds while the parser looks at a character.                       *)
LEMMA Standing ==
  ASSUME ParserInv, NEW l, NEW s, Parsing(l, s)
  PROVE  /\ PShape(p) /\ p.i \in Nat /\ cs.len \in Nat /\ p.i < cs.len
         /\ p.start \in 0..p.i /\ p.level = l /\ p.status = s
         /\ p.chars \in Int /\ p.key \in Int /\ p.sep \in Int
         /\ p.val \in Int /\ cs.size \in Nat /\ cs.len <= cs.size
         /\ Finds(p, cs.len) /\ RequestOK(sr, cs.len) /\ BufferOK
         /\ DOMAIN sr = {"linked", "method", "protocol", "uri", "query",
                         "data"}
BY DEF ParserInv, Place, BufferOK, Parsing, Shapes

(* Nothing found, nothing lost.                                            *)
LEMMA SameFinds ==
  ASSUME NEW q, Finds(p, cs.len), q.headers = p.headers, q.extra = p.extra
  PROVE  Finds(q, cs.len)
BY DEF Finds

(* METHOD.                                                                 *)
LEMMA MethodKeeps ==
  ASSUME ParserInv, Method
  PROVE  ParserInv'
<1>1. Parsing("FIRST", "METHOD")
  BY DEF Method
<1>2. /\ PShape(p) /\ p.i \in Nat /\ cs.len \in Nat /\ p.i < cs.len
      /\ p.start \in 0..p.i /\ p.level = "FIRST" /\ p.status = "METHOD"
      /\ p.chars \in Int /\ p.key \in Int /\ p.sep \in Int /\ p.val \in Int
      /\ Finds(p, cs.len) /\ RequestOK(sr, cs.len)
      /\ DOMAIN sr = {"linked", "method", "protocol", "uri", "query",
                      "data"}
  BY <1>1, Standing
<1>3. CASE Turn([p EXCEPT !.method = Guess(Here)], sr)
  <2>1. PICK q : q = [p EXCEPT !.method = Guess(Here)]
    OBVIOUS
  <2>2. Finds(q, cs.len)
    BY <1>2, <2>1, SameFinds DEF PShape
  <2>3. TurnOK(q, sr)
    BY <1>2, <2>1, <2>2 DEF TurnOK, PShape
  <2> QED BY <1>3, <2>1, <2>3, TurnKeeps
<1>4. CASE Turn([EndField(p, p.i) EXCEPT !.status = "URI"],
                [sr EXCEPT !.method =
                   MethodLookup(Content(Field(p.start, p.i)))])
  <2>1. PICK q : q = [EndField(p, p.i) EXCEPT !.status = "URI"]
    OBVIOUS
  <2>2. PICK m : m = MethodLookup(Content(Field(p.start, p.i)))
    OBVIOUS
  <2>3. PICK r : r = [sr EXCEPT !.method = m]
    OBVIOUS
  <2>4. Finds(q, cs.len)
    BY <1>2, <2>1, SameFinds DEF PShape, EndField
  <2>5. RequestOK(r, cs.len)
    BY <1>2, <2>3 DEF RequestOK
  <2>6. TurnOK(q, r)
    BY <1>2, <2>1, <2>3, <2>4, <2>5 DEF TurnOK, PShape, EndField
  <2> QED BY <1>4, <2>1, <2>2, <2>3, <2>6, TurnKeeps
<1>5. CASE Turn(p, sr)
  <2>1. TurnOK(p, sr)
    BY <1>2 DEF TurnOK
  <2> QED BY <1>5, <2>1, TurnKeeps
<1> QED BY <1>3, <1>4, <1>5 DEF Method

(* URI.                                                                    *)
LEMMA URIKeeps ==
  ASSUME ParserInv, URI
  PROVE  ParserInv'
<1>1. Parsing("FIRST", "URI")
  BY DEF URI
<1>2. /\ PShape(p) /\ p.i \in Nat /\ cs.len \in Nat /\ p.i < cs.len
      /\ p.start \in 0..p.i /\ p.level = "FIRST" /\ p.status = "URI"
      /\ p.chars \in Int /\ p.key \in Int /\ p.sep \in Int /\ p.val \in Int
      /\ cs.size \in Nat /\ cs.len <= cs.size /\ BufferOK
      /\ Finds(p, cs.len) /\ RequestOK(sr, cs.len)
      /\ DOMAIN sr = {"linked", "method", "protocol", "uri", "query",
                      "data"}
  BY <1>1, Standing
<1>3. ASSUME NEW st \in {"PROT_VERSION", "QUERY_STRING"},
             Turn([EndField(p, p.i) EXCEPT !.status = st],
                  [sr EXCEPT !.uri = Field(p.start, p.i)])
      PROVE  ParserInv'
  <2>1. PICK q : q = [EndField(p, p.i) EXCEPT !.status = st]
    OBVIOUS
  <2>2. PICK f : f = Field(p.start, p.i)
    OBVIOUS
  <2>3. f \in FieldType /\ FieldOK(f, cs.len)
    BY <1>2, <2>2, GoodField
  <2>4. PICK r : r = [sr EXCEPT !.uri = f]
    OBVIOUS
  <2>5. Finds(q, cs.len)
    BY <1>2, <2>1, SameFinds DEF PShape, EndField
  <2>6. RequestOK(r, cs.len)
    BY <1>2, <2>3, <2>4 DEF RequestOK
  <2>7. TurnOK(q, r)
    BY <1>2, <2>1, <2>4, <2>5, <2>6 DEF TurnOK, PShape, EndField
  <2> QED BY <1>3, <2>1, <2>2, <2>4, <2>7, TurnKeeps
<1>4. CASE Turn(p, sr)
  <2>1. TurnOK(p, sr)
    BY <1>2 DEF TurnOK
  <2> QED BY <1>4, <2>1, TurnKeeps
<1> QED BY <1>3, <1>4 DEF URI

(* QUERY_STRING.                                                           *)
LEMMA QueryStringKeeps ==
  ASSUME ParserInv, QueryString
  PROVE  ParserInv'
<1>1. Parsing("FIRST", "QUERY_STRING")
  BY DEF QueryString
<1>2. /\ PShape(p) /\ p.i \in Nat /\ cs.len \in Nat /\ p.i < cs.len
      /\ p.start \in 0..p.i /\ p.level = "FIRST"
      /\ p.status = "QUERY_STRING"
      /\ p.chars \in Int /\ p.key \in Int /\ p.sep \in Int /\ p.val \in Int
      /\ cs.size \in Nat /\ cs.len <= cs.size /\ BufferOK
      /\ Finds(p, cs.len) /\ RequestOK(sr, cs.len)
      /\ DOMAIN sr = {"linked", "method", "protocol", "uri", "query",
                      "data"}
  BY <1>1, Standing
<1>3. PICK j : j = CharLookup(" ")
  OBVIOUS
<1>4. j \in p.i..(cs.len - 1)
  BY <1>2, <1>3, LooksAhead
<1>5. CASE Turn([EndField(p, j) EXCEPT !.status = "PROT_VERSION"],
                [sr EXCEPT !.query = Field(p.start, j)])
  <2>1. PICK q : q = [EndField(p, j) EXCEPT !.status = "PROT_VERSION"]
    OBVIOUS
  <2>2. PICK f : f = Field(p.start, j)
    OBVIOUS
  <2>3. f \in FieldType /\ FieldOK(f, cs.size)
    <3>1. p.start \in Nat /\ j \in Nat /\ p.start <= j /\ j <= cs.size
      BY <1>2, <1>4
    <3> QED BY <1>2, <2>2, <3>1, GoodField
  <2>4. PICK r : r = [sr EXCEPT !.query = f]
    OBVIOUS
  <2>5. Finds(q, cs.len)
    BY <1>2, <2>1, SameFinds DEF PShape, EndField
  <2>6. RequestOK(r, cs.len)
    BY <1>2, <2>3, <2>4 DEF RequestOK
  <2>7. TurnOK(q, r)
    BY <1>2, <1>4, <2>1, <2>4, <2>5, <2>6 DEF TurnOK, PShape, EndField
  <2> QED BY <1>5, <2>1, <2>2, <2>4, <2>7, TurnKeeps
<1>6. CASE Turn([p EXCEPT !.i = j], sr)
  <2>1. PICK q : q = [p EXCEPT !.i = j]
    OBVIOUS
  <2>2. Finds(q, cs.len)
    BY <1>2, <2>1, SameFinds DEF PShape
  <2>3. TurnOK(q, sr)
    BY <1>2, <1>4, <2>1, <2>2 DEF TurnOK, PShape
  <2> QED BY <1>6, <2>1, <2>3, TurnKeeps
<1> QED BY <1>3, <1>5, <1>6 DEF QueryString

(* PROT_VERSION, and the end of the request line.                          *)
LEMMA ProtVersionKeeps ==
  ASSUME ParserInv, ProtVersion
  PROVE  ParserInv'
<1>1. Parsing("FIRST", "PROT_VERSION")
  BY DEF ProtVersion
<1>2. /\ PShape(p) /\ p.i \in Nat /\ cs.len \in Nat /\ p.i < cs.len
      /\ p.start \in 0..p.i /\ p.level = "FIRST"
      /\ p.status = "PROT_VERSION"
      /\ p.chars \in Int /\ p.key \in Int /\ p.sep \in Int /\ p.val \in Int
      /\ Finds(p, cs.len) /\ RequestOK(sr, cs.len)
      /\ DOMAIN sr = {"linked", "method", "protocol", "uri", "query",
                      "data"}
  BY <1>1, Standing
<1>3. CASE Turn(p, sr)
  <2>1. TurnOK(p, sr)
    BY <1>2 DEF TurnOK
  <2> QED BY <1>3, <2>1, TurnKeeps
<1>4. ASSUME NEW v, Turn([p EXCEPT !.status = "FIRST_CONTINUE"],
                         [sr EXCEPT !.protocol = v])
      PROVE  ParserInv'
  <2>1. PICK q : q = [p EXCEPT !.status = "FIRST_CONTINUE"]
    OBVIOUS
  <2>2. PICK r : r = [sr EXCEPT !.protocol = v]
    OBVIOUS
  <2>3. Finds(q, cs.len)
    BY <1>2, <2>1, SameFinds DEF PShape
  <2>4. RequestOK(r, cs.len)
    BY <1>2, <2>2 DEF RequestOK
  <2>5. TurnOK(q, r)
    BY <1>2, <2>1, <2>2, <2>3, <2>4 DEF TurnOK, PShape
  <2> QED BY <1>4, <2>1, <2>2, <2>5, TurnKeeps
<1> QED BY <1>3, <1>4, Zenon DEF ProtVersion

(* FIRST_CONTINUE, FIRST_FINALIZING and what follows a request line.       *)
LEMMA FirstLineKeeps ==
  ASSUME ParserInv, FirstContinue \/ FirstFinalizing \/ Continue
  PROVE  ParserInv'
<1>1. CASE FirstContinue
  <2>1. Parsing("FIRST", "FIRST_CONTINUE")
    BY <1>1 DEF FirstContinue
  <2>2. PICK q : q = [p EXCEPT !.status = "FIRST_FINALIZING"]
    OBVIOUS
  <2>3. Finds(q, cs.len)
    BY <2>1, <2>2, Standing, SameFinds DEF PShape
  <2>4. TurnOK(q, sr)
    BY <2>1, <2>2, <2>3, Standing DEF TurnOK, PShape
  <2> QED BY <1>1, <2>2, <2>4, TurnKeeps DEF FirstContinue
<1>2. CASE FirstFinalizing
  <2>1. Parsing("FIRST", "FIRST_FINALIZING")
    BY <1>2 DEF FirstFinalizing
  <2>2. PICK q : q = [NewLine(p) EXCEPT !.level = "CONTINUE"]
    OBVIOUS
  <2>3. Finds(q, cs.len)
    BY <2>1, <2>2, Standing, SameFinds DEF PShape, NewLine
  <2>4. TurnOK(q, sr)
    BY <2>1, <2>2, <2>3, Standing DEF TurnOK, PShape, NewLine
  <2> QED BY <1>2, <2>2, <2>4, TurnKeeps DEF FirstFinalizing
<1>3. CASE Continue
  <2>1. Parsing("CONTINUE", "FIRST_FINALIZING")
    BY <1>3 DEF Continue
  <2>2. PICK q : q = [p EXCEPT !.level = "FIRST", !.status = "BLOCK_END"]
    OBVIOUS
  <2>3. Finds(q, cs.len)
    BY <2>1, <2>2, Standing, SameFinds DEF PShape
  <2>4. TurnOK(q, sr)
    BY <2>1, <2>2, <2>3, Standing DEF TurnOK, PShape
  <2> QED BY <1>3, <2>2, <2>4, TurnKeeps DEF Continue
<1> QED BY <1>1, <1>2, <1>3

(* The first character of a header row: the key begins here.               *)
LEMMA HeaderStartKeeps ==
  ASSUME ParserInv, HeaderStart
  PROVE  ParserInv'
<1>1. PICK l, s : Parsing(l, s)
  BY DEF HeaderStart
<1>2. PICK q : q = [p EXCEPT !.level = "HEADERS", !.status = "HEADER_KEY",
                    !.chars = 0, !.scope = Scope(Here), !.key = p.i]
  OBVIOUS
<1>3. Finds(q, cs.len)
  BY <1>1, <1>2, Standing, SameFinds DEF PShape
<1>4. TurnOK(q, sr)
  BY <1>1, <1>2, <1>3, Standing DEF TurnOK, PShape
<1> QED BY <1>2, <1>4, TurnKeeps DEF HeaderStart

(* HEADER_KEY: the separator is found after the key's first character.     *)
LEMMA HeaderKeyKeeps ==
  ASSUME ParserInv, HeaderKey
  PROVE  ParserInv'
<1>1. Parsing("HEADERS", "HEADER_KEY")
  BY DEF HeaderKey
<1>2. /\ PShape(p) /\ p.i \in Nat /\ cs.len \in Nat /\ p.i < cs.len
      /\ p.start \in 0..p.i /\ p.level = "HEADERS"
      /\ p.status = "HEADER_KEY"
      /\ p.chars \in Int /\ p.key \in Int /\ p.sep \in Int /\ p.val \in Int
      /\ Finds(p, cs.len) /\ RequestOK(sr, cs.len)
      /\ DOMAIN sr = {"linked", "method", "protocol", "uri", "query",
                      "data"}
  BY <1>1, Standing
<1>3. CASE Turn([NewLine(p) EXCEPT !.level = "END"], sr)
  <2>1. PICK q : q = [NewLine(p) EXCEPT !.level = "END"]
    OBVIOUS
  <2>2. Finds(q, cs.len)
    BY <1>2, <2>1, SameFinds DEF PShape, NewLine
  <2>3. TurnOK(q, sr)
    BY <1>2, <2>1, <2>2 DEF TurnOK, PShape, NewLine
  <2> QED BY <1>3, <2>1, <2>3, TurnKeeps
<1>4. PICK j : j = CharLookup(":")
  OBVIOUS
<1>5. j \in p.i..(cs.len - 1)
  BY <1>2, <1>4, LooksAhead
<1>6. p.chars # 0 => 0 <= p.key /\ p.key < p.i
  BY <1>2 DEF ParserInv, Place
<1>7. CASE /\ p.chars # 0
           /\ Turn([EndField(p, j) EXCEPT !.status = "HEADER_VALUE",
                                          !.sep = j], sr)
  <2>1. PICK q : q = [EndField(p, j) EXCEPT !.status = "HEADER_VALUE",
                                            !.sep = j]
    OBVIOUS
  <2>2. Finds(q, cs.len)
    BY <1>2, <2>1, SameFinds DEF PShape, EndField
  <2>3. TurnOK(q, sr)
    BY <1>2, <1>5, <1>6, <1>7, <2>1, <2>2 DEF TurnOK, PShape, EndField
  <2> QED BY <1>7, <2>1, <2>3, TurnKeeps
<1>8. CASE p.chars # 0 /\ Turn([p EXCEPT !.i = j], sr)
  <2>1. PICK q : q = [p EXCEPT !.i = j]
    OBVIOUS
  <2>2. Finds(q, cs.len)
    BY <1>2, <2>1, SameFinds DEF PShape
  <2>3. TurnOK(q, sr)
    BY <1>2, <1>5, <1>6, <1>8, <2>1, <2>2 DEF TurnOK, PShape
  <2> QED BY <1>8, <2>1, <2>3, TurnKeeps
<1> QED BY <1>3, <1>4, <1>7, <1>8 DEF HeaderKey

(* HEADER_VALUE: the value begins at the first character that is no blank. *)
LEMMA HeaderValueKeeps ==
  ASSUME ParserInv, HeaderValue
  PROVE  ParserInv'
<1>1. Parsing("HEADERS", "HEADER_VALUE")
  BY DEF HeaderValue
<1>2. /\ PShape(p) /\ p.i \in Nat /\ cs.len \in Nat /\ p.i < cs.len
      /\ p.start \in 0..p.i /\ p.level = "HEADERS"
      /\ p.status = "HEADER_VALUE"
      /\ p.chars \in Int /\ p.key \in Int /\ p.sep \in Int /\ p.val \in Int
      /\ Finds(p, cs.len) /\ RequestOK(sr, cs.len)
      /\ DOMAIN sr = {"linked", "method", "protocol", "uri", "query",
                      "data"}
  BY <1>1, Standing
<1>3. 0 <= p.key /\ p.key < p.sep /\ p.sep < p.i
  BY <1>2 DEF ParserInv, Place
<1>4. CASE Turn(p, sr)
  <2>1. TurnOK(p, sr)
    BY <1>2, <1>3 DEF TurnOK
  <2> QED BY <1>4, <2>1, TurnKeeps
<1>5. CASE Turn([p EXCEPT !.status = "HEADER_VAL_STARTS",
                          !.start = p.i, !.val = p.i], sr)
  <2>1. PICK q : q = [p EXCEPT !.status = "HEADER_VAL_STARTS",
                               !.start = p.i, !.val = p.i]
    OBVIOUS
  <2>2. Finds(q, cs.len)
    BY <1>2, <2>1, SameFinds DEF PShape
  <2>3. TurnOK(q, sr)
    BY <1>2, <1>3, <2>1, <2>2 DEF TurnOK, PShape
  <2> QED BY <1>5, <2>1, <2>3, TurnKeeps
<1> QED BY <1>4, <1>5 DEF HeaderValue

(* HEADER_END, and the blank line before a body.                           *)
LEMMA LineEndKeeps ==
  ASSUME ParserInv, HeaderEnd \/ HeadersEnd
  PROVE  ParserInv'
<1>1. CASE HeaderEnd
  <2>1. Parsing("HEADERS", "HEADER_END")
    BY <1>1 DEF HeaderEnd
  <2>2. PICK q : q = [NewLine(p) EXCEPT !.status = "HEADER_KEY",
                                        !.chars = -1]
    OBVIOUS
  <2>3. Finds(q, cs.len)
    BY <2>1, <2>2, Standing, SameFinds DEF PShape, NewLine
  <2>4. TurnOK(q, sr)
    BY <2>1, <2>2, <2>3, Standing DEF TurnOK, PShape, NewLine
  <2> QED BY <1>1, <2>2, <2>4, TurnKeeps DEF HeaderEnd
<1>2. CASE HeadersEnd
  <2>1. Parsing("END", p.status)
    BY <1>2 DEF HeadersEnd
  <2>2. PICK q : q = [NewLine(p) EXCEPT !.level = "BODY", !.chars = -1]
    OBVIOUS
  <2>3. Finds(q, cs.len)
    BY <2>1, <2>2, Standing, SameFinds DEF PShape, NewLine
  <2>4. Place(p, cs.len)
    BY DEF ParserInv
  <2>5. TurnOK(q, sr)
    BY <2>1, <2>2, <2>3, <2>4, Standing DEF TurnOK, PShape, NewLine, Place
  <2> QED BY <1>2, <2>2, <2>5, TurnKeeps DEF HeadersEnd
<1> QED BY <1>1, <1>2

(* A shorter field at the same place is a field too.                       *)
LEMMA Shorter ==
  ASSUME NEW f, NEW n \in Nat, FieldOK(f, n), cs.gen \in Nat,
         NEW m \in 0..f.len
  PROVE  FieldOK([f EXCEPT !.len = m], n)
<1>1. f \in FieldType /\ f.gen <= cs.gen /\ FieldWithin(f, n)
  BY DEF FieldOK
<1>2. PICK g : g = [f EXCEPT !.len = m]
  OBVIOUS
<1>3. f.len \in Int /\ f.at \in Int /\ f.gen \in Nat /\ m \in Int
  BY <1>1 DEF FieldType
<1>4. g \in FieldType /\ g.gen = f.gen /\ g.at = f.at /\ g.len = m
  BY <1>1, <1>2, <1>3 DEF FieldType
<1>5. FieldWithin(g, n)
  BY <1>1, <1>3, <1>4, ParserAssumption, SMTT(30) DEF FieldWithin
<1> QED BY <1>1, <1>2, <1>4, <1>5 DEF FieldOK

(* What a row that ends here is made of, and how much is read of it.       *)
LEMMA RowOK ==
  ASSUME ParserInv, Parsing("HEADERS", "HEADER_VAL_STARTS")
  PROVE  /\ Row \in RowType
         /\ FieldOK(Row.key, cs.len) /\ FieldOK(Row.val, cs.len)
         /\ Row.val.len \in Nat /\ Len(Value) = Row.val.len
<1>1. /\ PShape(p) /\ p.i \in Nat /\ cs.len \in Nat /\ p.i < cs.len
      /\ p.status = "HEADER_VAL_STARTS" /\ cs.size \in Nat
      /\ p.key \in Int /\ p.sep \in Int /\ p.val \in Int
      /\ cs.len <= cs.size /\ BufferOK
  BY Standing
<1>2. /\ 0 <= p.key /\ p.key < p.sep /\ p.sep < p.i
      /\ p.sep < p.val /\ p.val < p.i
  BY <1>1 DEF ParserInv, Place
<1>3. PICK k : k = Field(p.key, p.sep)
  OBVIOUS
<1>4. PICK v : v = Field(p.val, p.i)
  OBVIOUS
<1>5. p.key \in Nat /\ p.sep \in Nat /\ p.val \in Nat
  BY <1>1, <1>2
<1>6. k \in FieldType /\ FieldOK(k, cs.len)
  BY <1>1, <1>2, <1>3, <1>5, GoodField
<1>7. v \in FieldType /\ FieldOK(v, cs.len) /\ v.len = p.i - p.val
  BY <1>1, <1>2, <1>4, <1>5, GoodField
<1>8. Row = [key |-> k, val |-> v]
  BY <1>3, <1>4 DEF Row
<1>9. Row \in RowType /\ Row.key = k /\ Row.val = v
  BY <1>6, <1>7, <1>8 DEF RowType
<1>10. v.len \in Nat
  BY <1>1, <1>2, <1>7
<1>11. PICK w : w = Content(v)
  OBVIOUS
<1>12. DOMAIN w = 1..v.len
  BY <1>11 DEF Content
<1>13. Len(w) = v.len
  BY <1>10, <1>12
<1> QED BY <1>6, <1>7, <1>9, <1>10, <1>11, <1>13 DEF Value

(* A header noted with a good field.                                       *)
LEMMA NotesHeader ==
  ASSUME Finds(p, cs.len), NEW h, NEW f, FieldOK(f, cs.len),
         NEW q, q.headers = WithHeader(h, f), q.extra = p.extra
  PROVE  Finds(q, cs.len)
<1>1. DOMAIN q.headers = DOMAIN p.headers \cup {h}
  BY DEF WithHeader
<1>2. \A x \in DOMAIN q.headers :
        q.headers[x] = IF x = h THEN f ELSE p.headers[x]
  BY DEF WithHeader
<1>3. \A x \in DOMAIN q.headers : FieldOK(q.headers[x], cs.len)
  BY <1>1, <1>2 DEF Finds
<1>4. f \in FieldType
  BY DEF FieldOK
<1>5. q.headers \in [DOMAIN q.headers -> FieldType]
  BY <1>1, <1>4 DEF Finds, WithHeader
<1> QED BY <1>3, <1>5 DEF Finds

(* header_lookup changes what was found, and not where the parser stands.  *)
LEMMA LookupOK ==
  ASSUME ParserInv, Parsing("HEADERS", "HEADER_VAL_STARTS"),
         NEW q, q = HeaderLookup
  PROVE  /\ PShape(q) /\ q.i = p.i /\ q.start = p.start
         /\ q.level = p.level /\ q.status = p.status /\ q.chars = p.chars
         /\ q.key = p.key /\ q.sep = p.sep /\ q.val = p.val
         /\ Finds(q, cs.len)
<1>0. PShape(p) /\ Finds(p, cs.len) /\ cs.len \in Nat /\ cs.gen \in Nat
  BY Standing DEF BufferOK
<1>1. PICK row : row = Row
  OBVIOUS
<1>2. /\ row \in RowType
      /\ FieldOK(row.key, cs.len) /\ FieldOK(row.val, cs.len)
      /\ row.val.len \in Nat /\ Len(Value) = row.val.len
  BY <1>1, RowOK
<1>3. CASE Known = {}
  <2>1. q = [p EXCEPT !.extra = Append(p.extra, row)]
    BY <1>1, <1>3 DEF HeaderLookup
  <2>2. PICK e : e = Append(p.extra, row)
    OBVIOUS
  <2>3. p.extra \in Seq(RowType)
    BY <1>0 DEF Finds
  <2>4. /\ e \in Seq(RowType) /\ Len(e) = Len(p.extra) + 1
        /\ \A k \in 1..Len(p.extra) : e[k] = p.extra[k]
        /\ e[Len(p.extra) + 1] = row
    BY <1>2, <2>2, <2>3, AppendProperties
  <2>5. \A k \in DOMAIN e :
          FieldOK(e[k].key, cs.len) /\ FieldOK(e[k].val, cs.len)
    <3> SUFFICES ASSUME NEW k \in DOMAIN e
                 PROVE  FieldOK(e[k].key, cs.len) /\ FieldOK(e[k].val, cs.len)
      OBVIOUS
    <3>1. k \in 1..Len(p.extra) \/ k = Len(p.extra) + 1
      BY <2>3, <2>4, LenProperties
    <3>2. CASE k \in 1..Len(p.extra)
      <4>1. k \in DOMAIN p.extra /\ e[k] = p.extra[k]
        BY <2>3, <2>4, <3>2, LenProperties
      <4> QED BY <1>0, <4>1 DEF Finds
    <3>3. CASE k = Len(p.extra) + 1
      BY <1>2, <2>4, <3>3
    <3> QED BY <3>1, <3>2, <3>3
  <2>6. /\ PShape(q) /\ q.i = p.i /\ q.start = p.start
        /\ q.level = p.level /\ q.status = p.status /\ q.chars = p.chars
        /\ q.key = p.key /\ q.sep = p.sep /\ q.val = p.val
        /\ q.headers = p.headers /\ q.extra = e
    BY <1>0, <2>1, <2>2 DEF PShape
  <2>7. Finds(q, cs.len)
    BY <1>0, <2>4, <2>5, <2>6 DEF Finds
  <2> QED BY <2>6, <2>7
<1>4. CASE Known # {}
  <2>1. PICK h : h = CHOOSE x \in Known : TRUE
    OBVIOUS
  <2>2. PICK g : g = WithHeader(h, row.val)
    OBVIOUS
  <2>3. PICK b : b = [p EXCEPT !.headers = g]
    OBVIOUS
  <2>4. /\ PShape(b) /\ b.i = p.i /\ b.start = p.start
        /\ b.level = p.level /\ b.status = p.status /\ b.chars = p.chars
        /\ b.key = p.key /\ b.sep = p.sep /\ b.val = p.val
        /\ b.headers = g /\ b.extra = p.extra
    BY <1>0, <2>3 DEF PShape
  <2>5. \/ \E n : q = [b EXCEPT !.length = n]
        \/ \E c : q = [b EXCEPT !.connection = c]
        \/ /\ h = "HOST" /\ Colons # {}
           /\ \E n : q = [b EXCEPT !.port = n,
                                   !.headers[h].len = Max(Colons)]
        \/ q = b
    <3>1. q = CASE h = "CONTENT_LENGTH" ->
                     [b EXCEPT !.length = Number(Digits(Value))]
                [] h = "CONNECTION" ->
                     [b EXCEPT !.connection = Connection(Value, @)]
                [] h = "HOST" /\ Colons # {} ->
                     [b EXCEPT !.port = Number(PortText),
                               !.headers[h].len = Max(Colons)]
                [] OTHER -> b
      BY <1>1, <1>4, <2>1, <2>2, <2>3 DEF HeaderLookup
    <3>2. PICK n1 : n1 = Number(Digits(Value))
      OBVIOUS
    <3>3. PICK n2 : n2 = Number(PortText)
      OBVIOUS
    <3>4. CASE h = "CONTENT_LENGTH"
      <4>1. q = [b EXCEPT !.length = n1]
        BY <3>1, <3>2, <3>4
      <4> QED BY <4>1, Zenon
    <3>5. CASE h = "CONNECTION"
      <4>1. PICK c : c = Connection(Value, b.connection)
        OBVIOUS
      <4>2. q = [b EXCEPT !.connection = c]
        BY <3>1, <3>5, <4>1
      <4> QED BY <4>2, Zenon
    <3>6. CASE h = "HOST" /\ Colons # {}
      <4>1. q = [b EXCEPT !.port = n2, !.headers[h].len = Max(Colons)]
        BY <3>1, <3>3, <3>6
      <4> QED BY <3>6, <4>1, Zenon
    <3>7. CASE /\ h # "CONTENT_LENGTH" /\ h # "CONNECTION"
               /\ ~(h = "HOST" /\ Colons # {})
      BY <3>1, <3>7
    <3> QED BY <3>4, <3>5, <3>6, <3>7
  <2>6. CASE \E n : q = [b EXCEPT !.length = n]
    <3>1. /\ PShape(q) /\ q.i = p.i /\ q.start = p.start
          /\ q.level = p.level /\ q.status = p.status /\ q.chars = p.chars
          /\ q.key = p.key /\ q.sep = p.sep /\ q.val = p.val
          /\ q.headers = g /\ q.extra = p.extra
      BY <2>4, <2>6 DEF PShape
    <3> QED BY <1>0, <1>2, <2>2, <3>1, NotesHeader
  <2>7. CASE \E c : q = [b EXCEPT !.connection = c]
    <3>1. /\ PShape(q) /\ q.i = p.i /\ q.start = p.start
          /\ q.level = p.level /\ q.status = p.status /\ q.chars = p.chars
          /\ q.key = p.key /\ q.sep = p.sep /\ q.val = p.val
          /\ q.headers = g /\ q.extra = p.extra
      BY <2>4, <2>7 DEF PShape
    <3> QED BY <1>0, <1>2, <2>2, <3>1, NotesHeader
  <2>8. CASE q = b
    BY <1>0, <1>2, <2>2, <2>4, <2>8, NotesHeader
  <2>9. CASE /\ h = "HOST" /\ Colons # {}
             /\ \E n : q = [b EXCEPT !.port = n,
                                     !.headers[h].len = Max(Colons)]
    <3>1. PICK n : q = [b EXCEPT !.port = n,
                                 !.headers[h].len = Max(Colons)]
      BY <2>9
    <3>2. PICK m : m = Max(Colons)
      OBVIOUS
    <3>3. m \in 0..row.val.len
      <4>1. Colons \subseteq 1..row.val.len
        BY <1>2 DEF Colons
      <4>2. m \in Colons
        BY <1>2, <2>9, <3>2, <4>1, Largest
      <4> QED BY <1>2, <4>1, <4>2
    <3>4. PICK f : f = [row.val EXCEPT !.len = m]
      OBVIOUS
    <3>5. FieldOK(f, cs.len)
      BY <1>0, <1>2, <3>3, <3>4, Shorter
    <3>6. /\ PShape(q) /\ q.i = p.i /\ q.start = p.start
          /\ q.level = p.level /\ q.status = p.status /\ q.chars = p.chars
          /\ q.key = p.key /\ q.sep = p.sep /\ q.val = p.val
          /\ q.headers = [g EXCEPT ![h].len = m] /\ q.extra = p.extra
      BY <2>4, <3>1, <3>2 DEF PShape
    <3>7. g[h] = row.val /\ DOMAIN g = DOMAIN p.headers \cup {h}
      BY <2>2 DEF WithHeader
    <3>8. [g EXCEPT ![h].len = m] = WithHeader(h, f)
      BY <2>2, <3>4, <3>7 DEF WithHeader
    <3>9. q.headers = WithHeader(h, f)
      BY <3>6, <3>8
    <3>10. Finds(q, cs.len)
      BY <1>0, <3>5, <3>6, <3>9, NotesHeader
    <3> QED BY <3>6, <3>10
  <2> QED BY <2>5, <2>6, <2>7, <2>8, <2>9
<1> QED BY <1>3, <1>4

(* HEADER_VAL_STARTS.                                                      *)
LEMMA HeaderValStartsKeeps ==
  ASSUME ParserInv, HeaderValStarts
  PROVE  ParserInv'
<1>1. Parsing("HEADERS", "HEADER_VAL_STARTS")
  BY DEF HeaderValStarts
<1>2. /\ PShape(p) /\ p.i \in Nat /\ cs.len \in Nat /\ p.i < cs.len
      /\ p.start \in 0..p.i /\ p.level = "HEADERS"
      /\ p.status = "HEADER_VAL_STARTS"
      /\ p.chars \in Int /\ p.key \in Int /\ p.sep \in Int /\ p.val \in Int
      /\ Finds(p, cs.len) /\ RequestOK(sr, cs.len)
      /\ DOMAIN sr = {"linked", "method", "protocol", "uri", "query",
                      "data"}
  BY <1>1, Standing
<1>3. /\ 0 <= p.key /\ p.key < p.sep /\ p.sep < p.i
      /\ p.sep < p.val /\ p.val < p.i
  BY <1>2 DEF ParserInv, Place
<1>4. CASE Turn(p, sr)
  <2>1. TurnOK(p, sr)
    BY <1>2, <1>3 DEF TurnOK
  <2> QED BY <1>4, <2>1, TurnKeeps
<1>5. CASE Turn(RowEnd(HeaderLookup), sr)
  <2>1. PICK q : q = HeaderLookup
    OBVIOUS
  <2>2. /\ PShape(q) /\ q.i = p.i /\ q.start = p.start
        /\ q.level = p.level /\ q.status = p.status /\ q.chars = p.chars
        /\ q.key = p.key /\ q.sep = p.sep /\ q.val = p.val
        /\ Finds(q, cs.len)
    BY <1>1, <2>1, LookupOK
  <2>3. PICK z : z = RowEnd(q)
    OBVIOUS
  <2>4. z.headers = q.headers /\ z.extra = q.extra
    BY <2>2, <2>3 DEF RowEnd, EndField, PShape
  <2>5. Finds(z, cs.len)
    BY <2>2, <2>4 DEF Finds
  <2>6. TurnOK(z, sr)
    <3>1. CASE q.i + 1 < cs.len /\ Char(q.i + 1) = "LF"
      <4>1. z = [EndField(q, q.i + 1) EXCEPT !.end = q.i,
                                             !.status = "HEADER_KEY"]
        BY <2>3, <3>1 DEF RowEnd
      <4> QED BY <1>2, <2>2, <2>5, <3>1, <4>1 DEF TurnOK, PShape, EndField
    <3>2. CASE ~(q.i + 1 < cs.len /\ Char(q.i + 1) = "LF")
      <4>1. z = [EndField(q, q.i) EXCEPT !.status = "HEADER_END"]
        BY <2>3, <3>2, Zenon DEF RowEnd
      <4> QED BY <1>2, <2>2, <2>5, <4>1 DEF TurnOK, PShape, EndField
    <3> QED BY <3>1, <3>2
  <2> QED BY <1>5, <2>1, <2>3, <2>6, TurnKeeps
<1> QED BY <1>4, <1>5 DEF HeaderValStarts

-----------------------------------------------------------------------------
(* The buffer under the parser.                                            *)

(* A field stays good while the block it is in keeps its bytes, and when   *)
(* the session moves on to another block.                                  *)
LEMMA Ages ==
  ASSUME NEW f, NEW n \in Int, NEW m \in Int, n <= m, FieldOK(f, n),
         cs.gen \in Nat, cs'.gen \in Nat, cs.gen <= cs'.gen
  PROVE  FieldOK(f, m)'
<1>1. f \in FieldType /\ f.gen <= cs.gen /\ FieldWithin(f, n)
  BY DEF FieldOK
<1>2. f.gen \in Nat /\ f.at \in Int /\ f.len \in Int
  BY <1>1 DEF FieldType
<1>3. f.gen <= cs'.gen
  BY <1>1, <1>2
<1>4. f.gen = cs'.gen => f.at + f.len <= m
  BY <1>1, <1>2 DEF FieldWithin
<1> QED BY <1>1, <1>3, <1>4 DEF FieldOK, FieldWithin

(* The same for all that was found.                                        *)
LEMMA FindsAge ==
  ASSUME ParserInv, cs'.gen \in Nat, cs.gen <= cs'.gen, cs'.len \in Nat,
         cs.len <= cs'.len, p'.headers = p.headers, p'.extra = p.extra
  PROVE  Finds(p, cs.len)'
<1>1. cs.gen \in Nat /\ cs.len \in Nat /\ Finds(p, cs.len)
  BY DEF ParserInv, BufferOK
<1>2. PICK n : n = cs.len
  OBVIOUS
<1>3. PICK m : m = cs'.len
  OBVIOUS
<1>4. ASSUME NEW h \in DOMAIN p.headers PROVE FieldOK(p.headers[h], cs.len)'
  <2>1. PICK f : f = p.headers[h]
    OBVIOUS
  <2>2. FieldOK(f, n)
    BY <1>1, <1>2, <2>1 DEF Finds
  <2>3. FieldOK(f, m)'
    BY <1>1, <1>2, <1>3, <2>2, Ages
  <2> QED BY <1>3, <2>1, <2>3 DEF FieldOK, FieldWithin
<1>5. ASSUME NEW k \in DOMAIN p.extra
      PROVE  /\ FieldOK(p.extra[k].key, cs.len)'
             /\ FieldOK(p.extra[k].val, cs.len)'
  <2>1. PICK f : f = p.extra[k].key
    OBVIOUS
  <2>2. PICK g : g = p.extra[k].val
    OBVIOUS
  <2>3. FieldOK(f, n) /\ FieldOK(g, n)
    BY <1>1, <1>2, <2>1, <2>2 DEF Finds
  <2>4. FieldOK(f, m)'
    BY <1>1, <1>2, <1>3, <2>3, Ages
  <2>5. FieldOK(g, m)'
    BY <1>1, <1>2, <1>3, <2>3, Ages
  <2> QED BY <1>3, <2>1, <2>2, <2>4, <2>5 DEF FieldOK, FieldWithin
<1>6. p.headers \in [DOMAIN p.headers -> FieldType] /\ p.extra \in Seq(RowType)
  BY <1>1 DEF Finds
<1> QED BY <1>4, <1>5, <1>6 DEF Finds, FieldOK, FieldWithin

(* And for the request, whose uri is forgotten or kept.                    *)
LEMMA RequestAges ==
  ASSUME ParserInv, BufferOK', cs.gen <= cs'.gen, cs.size <= cs'.size,
         sr'.query = sr.query, sr'.data = sr.data, sr'.linked \in BOOLEAN,
         \/ sr'.uri = NoField
         \/ sr'.uri = sr.uri /\ ~sr'.linked
         \/ sr'.uri = sr.uri /\ sr.linked /\ cs.len <= cs'.len
  PROVE  RequestOK(sr, cs.len)'
<1>1. /\ cs.gen \in Nat /\ cs.len \in Nat /\ cs.size \in Nat
      /\ RequestOK(sr, cs.len)
  BY DEF ParserInv, BufferOK
<1>2. cs'.gen \in Nat /\ cs'.len \in Nat /\ cs'.size \in Nat
  BY DEF BufferOK
<1>3. PICK u, a, d, n, m, s, t :
        /\ u = sr'.uri /\ a = sr.query /\ d = sr.data
        /\ n = cs.len /\ m = cs'.len /\ s = cs.size /\ t = cs'.size
  OBVIOUS
<1>4. FieldOK(a, s) /\ FieldOK(d, s)
  BY <1>1, <1>3 DEF RequestOK
<1>5. FieldOK(a, t)'
  BY <1>1, <1>2, <1>3, <1>4, Ages
<1>6. FieldOK(d, t)'
  BY <1>1, <1>2, <1>3, <1>4, Ages
<1>7. u \in FieldType /\ (sr'.linked => FieldOK(u, m)')
  <2>1. CASE u = NoField
    <3>1. NoField \in FieldType /\ NoField.gen = 0 /\ NoField.at = 0
          /\ NoField.len = 0
      BY DEF NoField, FieldType
    <3>2. FieldOK(NoField, m)'
      BY <1>2, <1>3, <3>1, ParserAssumption DEF FieldOK, FieldWithin
    <3> QED BY <2>1, <3>1, <3>2
  <2>2. CASE u = sr.uri /\ ~sr'.linked
    BY <1>1, <2>2 DEF RequestOK
  <2>3. CASE u = sr.uri /\ sr.linked /\ cs.len <= cs'.len
    <3>1. u \in FieldType /\ FieldOK(u, n)
      BY <1>1, <1>3, <2>3 DEF RequestOK
    <3>2. FieldOK(u, m)'
      BY <1>1, <1>2, <1>3, <2>3, <3>1, Ages
    <3> QED BY <3>1, <3>2
  <2> QED BY <1>3, <2>1, <2>2, <2>3
<1>8. FieldOK(sr.query, cs.size)' /\ FieldOK(sr.data, cs.size)'
  BY <1>3, <1>5, <1>6 DEF FieldOK, FieldWithin
<1>9. sr'.linked => FieldOK(sr.uri, cs.len)'
  BY <1>3, <1>7 DEF FieldOK, FieldWithin
<1> QED BY <1>3, <1>7, <1>8, <1>9 DEF RequestOK

(* A context that was reset has found nothing and stands at the front.     *)
LEMMA Reset ==
  ASSUME p' = ParserInit, cs'.len \in Nat
  PROVE  PShape(p)' /\ Place(p, cs.len)' /\ Finds(p, cs.len)' /\ BodyOK'
<1>1. /\ PShape(p') /\ p'.i = 0 /\ p'.start = 0 /\ p'.level = "FIRST"
      /\ p'.status = "METHOD" /\ p'.chars = -1 /\ p'.key = -1
      /\ p'.sep = -1 /\ p'.val = -1 /\ p'.headers = <<>>
      /\ p'.extra = <<>>
  BY DEF ParserInit, PShape
<1>2. <<>> \in Seq(RowType) /\ DOMAIN <<>> = {}
  OBVIOUS
<1>3. Finds(p, cs.len)'
  BY <1>1, <1>2 DEF Finds
<1> QED BY <1>1, <1>3 DEF PShape, Place, BodyOK

(* The client sends a flight.                                              *)
LEMMA SendKeeps ==
  ASSUME ParserInv, Send
  PROVE  ParserInv'
<1>1. UNCHANGED <<pc, cs, fixed, heap, p, sr>>
  BY DEF Send
<1>2. todo \in Seq(Flights) /\ todo # <<>>
  BY DEF Send, ParserInv, BufferOK
<1>3. todo' \in Seq(Flights) /\ Head(todo) \in Flights
  BY <1>2, HeadTailProperties DEF Send
<1>4. wire' \in Seq(STRING)
  BY <1>3, ParserAssumption DEF Send, Flights
<1>5. BufferOK'
  BY <1>1, <1>3, <1>4 DEF ParserInv, BufferOK
<1> QED BY <1>1, <1>5 DEF ParserInv, Shapes, PShape, Place, Finds, BodyOK,
                          RequestOK, FieldOK, FieldWithin

(* Steps after which nobody asks the parser.                               *)
LEMMA IdleKeeps ==
  ASSUME ParserInv, pc' # "end",
         UNCHANGED <<todo, wire, cs, fixed, heap, p, sr>>
  PROVE  ParserInv'
BY DEF ParserInv, BufferOK, Shapes, PShape, Place, Finds, BodyOK, RequestOK,
       FieldOK, FieldWithin

(* mk_http_sched_read: the bytes fit, and a block that grew keeps them.    *)
LEMMA ReadKeeps ==
  ASSUME ParserInv, NEW n \in 1..Len(wire), Read(n)
  PROVE  ParserInv'
<1>0. /\ cs.gen \in Nat /\ cs.len \in Nat /\ cs.size \in Nat
      /\ cs.len <= cs.size /\ wire \in Seq(STRING) /\ Len(wire) \in Nat
      /\ BufferOK /\ Shapes /\ PShape(p) /\ Place(p, cs.len) /\ BodyOK
      /\ RequestOK(sr, cs.len)
  BY DEF ParserInv, BufferOK
<1>1. /\ BUFFER \in Nat /\ CHUNK \in Nat /\ BUFFER # 0
  BY ParserAssumption
<1>2. PICK g \in IF Full THEN Moved(cs.gen) ELSE {cs.gen} :
        /\ cs' = [cs EXCEPT !.size = Grown, !.len = @ + n, !.gen = g]
        /\ IF g = 0
           THEN /\ fixed' = Put(fixed, cs.len, SubSeq(wire, 1, n))
                /\ UNCHANGED heap
           ELSE /\ heap' = Put([k \in 1..Grown |->
                                  IF k <= Len(Body) THEN Body[k] ELSE "NUL"],
                               cs.len, SubSeq(wire, 1, n))
                /\ UNCHANGED fixed
  BY DEF Read
<1>3. /\ todo' = todo /\ p' = p /\ pc' = "read" /\ n <= Grown - cs.len
      /\ wire' = SubSeq(wire, n + 1, Len(wire))
      /\ sr' = IF sr.linked THEN sr ELSE RequestInit(sr)
  BY DEF Read
<1>4. PICK w : w = Grown
  OBVIOUS
<1>5. w \in Nat /\ cs.size <= w /\ (~Full => w = cs.size)
  BY <1>0, <1>1, <1>4 DEF Grown
<1>6. g \in Nat /\ cs.gen <= g /\ (g = 0 => ~Full /\ cs.gen = 0)
      /\ (~Full => g = cs.gen)
  BY <1>0, <1>2 DEF Moved
<1>7. /\ DOMAIN cs' = DOMAIN cs /\ cs'.size = w /\ cs'.len = cs.len + n
      /\ cs'.gen = g /\ cs'.status = cs.status
  BY <1>0, <1>2, <1>4 DEF Shapes
<1>8. cs'.len \in Nat /\ cs.len <= cs'.len /\ cs'.len <= w
  BY <1>0, <1>3, <1>4, <1>5, <1>7
<1>9. wire' \in Seq(STRING)
  <2>1. \A i \in (n + 1)..Len(wire) : wire[i] \in STRING
    BY <1>0
  <2> QED BY <1>0, <1>3, <2>1, SubSeqProperties
<1>10. DOMAIN fixed' = 1..CHUNK
  <2>1. DOMAIN fixed = 1..CHUNK
    BY <1>0 DEF BufferOK
  <2>2. Len(fixed) = CHUNK
    BY <1>1, <2>1
  <2>3. g = 0 => DOMAIN fixed' = 1..Len(fixed)
    BY <1>2 DEF Put
  <2>4. g # 0 => fixed' = fixed
    BY <1>2
  <2> QED BY <2>1, <2>2, <2>3, <2>4
<1>11. g # 0 => DOMAIN heap' = 1..w
  <2>1. SUFFICES ASSUME g # 0 PROVE DOMAIN heap' = 1..w
    OBVIOUS
  <2>2. PICK blk : blk = [k \in 1..w |->
                            IF k <= Len(Body) THEN Body[k] ELSE "NUL"]
    OBVIOUS
  <2>3. Len(blk) = w
    BY <1>5, <2>2
  <2>4. heap' = Put(blk, cs.len, SubSeq(wire, 1, n))
    BY <1>2, <1>4, <2>1, <2>2
  <2> QED BY <2>3, <2>4 DEF Put
<1>12. g = 0 => w = CHUNK
  BY <1>0, <1>5, <1>6 DEF BufferOK
<1>b. /\ g # 0 => FirstBlock <= w
      /\ w <= FirstBlock => g <= 1
  <2>1. FirstBlock \in Nat /\ (~OnHeap => FirstBlock = CHUNK + BUFFER)
    BY <1>1 DEF FirstBlock
  <2>2. /\ cs.gen = 0 => cs.size = CHUNK /\ ~OnHeap
        /\ cs.gen # 0 => FirstBlock <= cs.size
        /\ cs.size <= FirstBlock => cs.gen <= 1
    BY <1>0 DEF BufferOK
  <2>3. CASE ~Full
    BY <1>5, <1>6, <2>2, <2>3
  <2>4. CASE Full /\ cs.gen = 0
    <3>1. g = 1 /\ w = CHUNK + BUFFER
      BY <1>2, <1>4, <2>2, <2>4 DEF Moved, Grown
    <3> QED BY <1>1, <2>1, <2>2, <2>4, <3>1
  <2>5. CASE Full /\ cs.gen # 0
    <3>1. w = cs.size + BUFFER
      BY <1>4, <2>5 DEF Grown
    <3> QED BY <1>0, <1>1, <2>1, <2>2, <2>5, <3>1
  <2> QED BY <2>3, <2>4, <2>5
<1>13. BufferOK'
  <2>1. g = 0 => ~OnHeap
    BY <1>0, <1>6 DEF BufferOK
  <2> QED BY <1>0, <1>3, <1>5, <1>6, <1>7, <1>8, <1>9, <1>10, <1>11, <1>12,
             <1>b, <2>1 DEF BufferOK
<1>14. Place(p, cs.len)'
  BY <1>0, <1>3, <1>8 DEF Place
<1>15. Finds(p, cs.len)'
  BY <1>3, <1>6, <1>7, <1>8, FindsAge
<1>16. BodyOK'
  BY <1>0, <1>3, <1>7 DEF BodyOK
<1>17. /\ DOMAIN sr' = DOMAIN sr /\ sr'.query = sr.query
       /\ sr'.data = sr.data /\ sr'.linked \in BOOLEAN
       /\ sr'.uri = NoField \/ (sr'.uri = sr.uri /\ sr.linked)
  BY <1>0, <1>3 DEF RequestInit, Shapes, RequestOK
<1>18. RequestOK(sr, cs.len)'
  BY <1>5, <1>6, <1>7, <1>8, <1>13, <1>17, RequestAges
<1>19. Shapes' /\ PShape(p)'
  BY <1>0, <1>3, <1>7, <1>17 DEF Shapes, PShape
<1> QED BY <1>13, <1>14, <1>15, <1>16, <1>18, <1>19 DEF ParserInv

-----------------------------------------------------------------------------
(* The end of a request.                                                   *)

(* mk_http_request_prepare.  A body is taken once, from where it begins,   *)
(* so taking it ends exactly at the last byte received.                    *)
LEMMA PrepareKeeps ==
  ASSUME ParserInv, Prepare
  PROVE  ParserInv'
<1>0. /\ cs.gen \in Nat /\ cs.len \in Nat /\ cs.size \in Nat
      /\ cs.len <= cs.size
      /\ BufferOK /\ Shapes /\ PShape(p) /\ Place(p, cs.len) /\ BodyOK
      /\ RequestOK(sr, cs.len) /\ p.i \in Nat /\ p.start \in Nat
      /\ p.start <= p.i /\ p.i <= cs.len
  BY DEF ParserInv, BufferOK, Place
<1>1. /\ p' = BodyTaken /\ sr' = WithData
      /\ UNCHANGED <<todo, wire, fixed, heap>> /\ ~AlreadyCompleted
      /\ \E c : cs' = [cs EXCEPT !.status = "COMPLETED", !.close = c]
      /\ pc' \in {"answer", "idle"}
  BY Zenon DEF Prepare
<1>2. /\ DOMAIN cs' = DOMAIN cs /\ cs'.size = cs.size /\ cs'.len = cs.len
      /\ cs'.gen = cs.gen /\ cs'.status = "COMPLETED"
  BY <1>0, <1>1 DEF Shapes
<1>3. BufferOK'
  BY <1>0, <1>1, <1>2 DEF BufferOK
<1>4. BodyOK'
  BY <1>1, <1>2 DEF BodyOK
<1>5. CASE p.level = "BODY"
  <2>1. pc \in {"read", "end"}
    BY <1>5 DEF Prepare, Ended, Parsing
  <2>2. p.i = p.start
    BY <1>0, <1>1, <1>5, <2>1 DEF BodyOK, AlreadyCompleted
  <2>3. /\ PShape(p') /\ p'.i = cs.len /\ p'.level = "BODY"
        /\ p'.status = p.status /\ p'.start = p.start
        /\ p'.chars = p.chars /\ p'.key = p.key /\ p'.sep = p.sep
        /\ p'.val = p.val /\ p'.headers = p.headers /\ p'.extra = p.extra
    BY <1>0, <1>1, <1>5, <2>2 DEF BodyTaken, Received, PShape
  <2>4. PICK f : f = Field(p.start, cs.len)
    OBVIOUS
  <2>5. f \in FieldType /\ FieldOK(f, cs.size)
    <3>1. p.start <= cs.len /\ cs.size <= cs.size
      BY <1>0
    <3> QED BY <1>0, <2>4, <3>1, GoodField
  <2>6. sr' = [sr EXCEPT !.data = f]
    <3>1. p.start + (cs.len - p.start) = cs.len
      BY <1>0
    <3> QED BY <1>1, <1>5, <2>4, <3>1 DEF WithData, Received
  <2>7. RequestOK(sr, cs.len)'
    <3>1. /\ DOMAIN sr' = DOMAIN sr /\ sr'.uri = sr.uri /\ sr'.data = f
          /\ sr'.query = sr.query /\ sr'.linked = sr.linked
      BY <1>0, <2>6 DEF Shapes
    <3> QED BY <1>0, <1>2, <2>5, <3>1 DEF RequestOK, FieldOK, FieldWithin
  <2>8. Place(p, cs.len)'
    BY <1>0, <1>2, <2>3 DEF Place
  <2>9. Finds(p, cs.len)'
    BY <1>0, <1>2, <2>3, FindsAge
  <2>10. Shapes' /\ PShape(p)'
    BY <1>0, <1>2, <2>3, <2>6 DEF Shapes, PShape
  <2> QED BY <1>3, <1>4, <2>7, <2>8, <2>9, <2>10 DEF ParserInv
<1>6. CASE p.level # "BODY"
  <2>1. p' = p /\ sr' = sr
    BY <1>1, <1>6 DEF BodyTaken, WithData
  <2>2. Place(p, cs.len)' /\ PShape(p)'
    BY <1>0, <1>2, <2>1 DEF Place, PShape
  <2>3. Finds(p, cs.len)'
    BY <1>0, <1>2, <2>1, FindsAge
  <2>4. Shapes' /\ RequestOK(sr, cs.len)'
    BY <1>0, <1>2, <2>1 DEF Shapes, RequestOK, FieldOK, FieldWithin
  <2> QED BY <1>3, <1>4, <2>2, <2>3, <2>4 DEF ParserInv
<1> QED BY <1>5, <1>6

(* mk_http_request_end with more in the buffer: the rest fits in front.    *)
LEMMA NextPipelinedKeeps ==
  ASSUME ParserInv, NextPipelined
  PROVE  ParserInv'
<1>0. /\ cs.gen \in Nat /\ cs.len \in Nat /\ cs.size \in Nat
      /\ cs.len <= cs.size /\ BufferOK /\ Shapes
      /\ RequestOK(sr, cs.len) /\ p.i \in Nat /\ p.i <= cs.len
  BY DEF ParserInv, BufferOK, Place
<1>1. /\ cs' = [cs EXCEPT !.len = Rest, !.counter = @ + 1] /\ Rest > 0
      /\ p' = ParserInit /\ sr' = RequestInit(sr)
      /\ UNCHANGED <<todo, wire>>
      /\ cs.gen = 0 => fixed' = Shifted(fixed) /\ heap' = heap
      /\ cs.gen # 0 => heap' = Shifted(heap) /\ fixed' = fixed
  BY DEF NextPipelined
<1>2. /\ DOMAIN cs' = DOMAIN cs /\ cs'.size = cs.size /\ cs'.len = Rest
      /\ cs'.gen = cs.gen
  BY <1>0, <1>1 DEF Shapes
<1>3. Rest \in Nat /\ Rest <= cs.size
  BY <1>0, <1>1 DEF Rest
<1>4. CHUNK \in Nat /\ DOMAIN fixed = 1..CHUNK
  BY <1>0, ParserAssumption DEF BufferOK
<1>5. DOMAIN fixed' = 1..CHUNK
  <2>1. Len(fixed) = CHUNK
    BY <1>4
  <2> QED BY <1>1, <1>4, <2>1 DEF Shifted
<1>6. cs.gen # 0 => DOMAIN heap' = 1..cs.size
  <2>1. cs.gen # 0 => Len(heap) = cs.size
    BY <1>0 DEF BufferOK
  <2> QED BY <1>1, <2>1 DEF Shifted
<1>7. BufferOK'
  BY <1>0, <1>1, <1>2, <1>3, <1>5, <1>6 DEF BufferOK
<1>8. PShape(p)' /\ Place(p, cs.len)' /\ Finds(p, cs.len)' /\ BodyOK'
  BY <1>1, <1>2, <1>3, Reset
<1>9. /\ DOMAIN sr' = DOMAIN sr /\ sr'.query = sr.query
      /\ sr'.data = sr.data /\ sr'.linked = TRUE /\ sr'.uri = NoField
  BY <1>0, <1>1 DEF RequestInit, Shapes
<1>10. RequestOK(sr, cs.len)'
  <2>1. cs.gen <= cs'.gen /\ cs.size <= cs'.size
    BY <1>0, <1>2
  <2>2. sr'.linked \in BOOLEAN
    BY <1>9, Zenon
  <2> QED BY <1>7, <1>9, <2>1, <2>2, RequestAges
<1>11. Shapes'
  BY <1>0, <1>2, <1>9 DEF Shapes
<1> QED BY <1>7, <1>8, <1>10, <1>11 DEF ParserInv

(* mk_http_request_ka_next: the buffer is empty again.                     *)
LEMMA NextKeepAliveKeeps ==
  ASSUME ParserInv, NextKeepAlive
  PROVE  ParserInv'
<1>0. /\ cs.gen \in Nat /\ cs.size \in Nat /\ BufferOK /\ Shapes
  BY DEF ParserInv, BufferOK
<1>1. /\ cs' = [cs EXCEPT !.len = 0, !.counter = @ + 1,
                          !.status = "INCOMPLETE"]
      /\ p' = ParserInit /\ sr' = [sr EXCEPT !.linked = FALSE]
      /\ UNCHANGED <<todo, wire, fixed, heap>>
  BY DEF NextKeepAlive
<1>2. /\ DOMAIN cs' = DOMAIN cs /\ cs'.size = cs.size /\ cs'.len = 0
      /\ cs'.gen = cs.gen
  BY <1>0, <1>1 DEF Shapes
<1>3. BufferOK'
  BY <1>0, <1>1, <1>2 DEF BufferOK
<1>4. PShape(p)' /\ Place(p, cs.len)' /\ Finds(p, cs.len)' /\ BodyOK'
  BY <1>1, <1>2, Reset
<1>5. /\ DOMAIN sr' = DOMAIN sr /\ sr'.query = sr.query
      /\ sr'.data = sr.data /\ sr'.linked = FALSE /\ sr'.uri = sr.uri
  BY <1>0, <1>1 DEF Shapes
<1>6. RequestOK(sr, cs.len)'
  <2>1. cs.gen <= cs'.gen /\ cs.size <= cs'.size
    BY <1>0, <1>2
  <2>2. sr'.linked \in BOOLEAN /\ ~sr'.linked
    BY <1>5, Zenon
  <2> QED BY <1>3, <1>5, <2>1, <2>2, RequestAges
<1>7. Shapes'
  BY <1>0, <1>2, <1>5 DEF Shapes
<1> QED BY <1>3, <1>4, <1>6, <1>7 DEF ParserInv

-----------------------------------------------------------------------------
(* The theorem.                                                            *)

(* A new session.                                                          *)
LEMMA ParserInitInv == Init => ParserInv
<1> SUFFICES ASSUME Init PROVE ParserInv
  OBVIOUS
<1>1. PICK c \in Clients : todo = c
  BY DEF Init
<1>2. todo \in Seq(Flights)
  <2>1. c \in Seq(Range(c)) /\ Range(c) \subseteq Flights
    BY ParserAssumption DEF Flights
  <2> QED BY <1>1, <2>1, SeqMonotonic
<1>3. CHUNK \in Nat /\ BUFFER \in Nat
  BY ParserAssumption
<1>4. /\ DOMAIN cs = {"size", "len", "gen", "status", "counter", "close"}
      /\ cs.len = 0
      /\ OnHeap => cs.size = BUFFER /\ cs.gen = 1 /\ DOMAIN heap = 1..BUFFER
      /\ ~OnHeap => cs.size = CHUNK /\ cs.gen = 0
  BY DEF Init
<1>5. BufferOK
  <2>0. FirstBlock \in Nat /\ (OnHeap => FirstBlock = BUFFER)
    BY <1>3 DEF FirstBlock
  <2>1. wire \in Seq(STRING)
    BY DEF Init
  <2>2. DOMAIN fixed = 1..CHUNK
    BY DEF Init
  <2> QED BY <1>2, <1>3, <1>4, <2>0, <2>1, <2>2 DEF BufferOK
<1>6. /\ PShape(p) /\ p.i = 0 /\ p.start = 0 /\ p.level = "FIRST"
      /\ p.status = "METHOD" /\ p.chars = -1 /\ p.key = -1
      /\ p.sep = -1 /\ p.val = -1 /\ p.headers = <<>>
      /\ p.extra = <<>>
  BY DEF Init, ParserInit, PShape
<1>7. Place(p, cs.len) /\ BodyOK
  BY <1>4, <1>6 DEF Place, BodyOK
<1>8. <<>> \in Seq(RowType) /\ DOMAIN <<>> = {}
  OBVIOUS
<1>9. Finds(p, cs.len)
  BY <1>6, <1>8 DEF Finds
<1>10. /\ DOMAIN sr = {"linked", "method", "protocol", "uri", "query",
                       "data"}
       /\ sr.linked = FALSE /\ sr.uri = NoField /\ sr.query = NoField
       /\ sr.data = NoField
  BY DEF Init
<1>11. RequestOK(sr, cs.len)
  BY <1>3, <1>4, <1>5, <1>10, NoFieldOK DEF RequestOK
<1> QED BY <1>4, <1>5, <1>6, <1>7, <1>9, <1>10, <1>11 DEF ParserInv, Shapes

(* Every step keeps the invariant.                                         *)
LEMMA ParserNextInv == ParserInv /\ [Next]_vars => ParserInv'
<1> SUFFICES ASSUME ParserInv, [Next]_vars PROVE ParserInv'
  OBVIOUS
<1>1. CASE Send
  BY <1>1, SendKeeps
<1>2. CASE TooLarge \/ LastOne \/ SchedClose
  BY <1>2, IdleKeeps DEF TooLarge, LastOne, SchedClose
<1>3. CASE ReadSome
  BY <1>3, ReadKeeps DEF ReadSome
<1>4. CASE NextPipelined
  BY <1>4, NextPipelinedKeeps
<1>5. CASE NextKeepAlive
  BY <1>5, NextKeepAliveKeeps
<1>6. CASE Pending \/ ParserError \/ Abort
  BY <1>6, IdleKeeps DEF Pending, ParserError, Abort
<1>7. CASE Method \/ URI \/ QueryString \/ ProtVersion
  BY <1>7, MethodKeeps, URIKeeps, QueryStringKeeps, ProtVersionKeeps
<1>8. CASE FirstContinue \/ FirstFinalizing \/ Continue
  BY <1>8, FirstLineKeeps
<1>9. CASE HeaderStart \/ HeaderKey \/ HeaderValue \/ HeaderValStarts
  BY <1>9, HeaderStartKeeps, HeaderKeyKeeps, HeaderValueKeeps,
     HeaderValStartsKeeps
<1>10. CASE HeaderEnd \/ HeadersEnd
  BY <1>10, LineEndKeeps
<1>11. CASE Prepare
  BY <1>11, PrepareKeeps
<1>12. CASE UNCHANGED vars
  BY <1>12 DEF vars, ParserInv, BufferOK, Shapes, PShape, Place, Finds,
     BodyOK, RequestOK, FieldOK, FieldWithin
<1> QED BY <1>1, <1>2, <1>3, <1>4, <1>5, <1>6, <1>7, <1>8, <1>9, <1>10,
           <1>11, <1>12 DEF Next, ParserTurn

(* The invariant says what IndicesInside promises.                         *)
LEMMA InvInside == ParserInv => IndicesInside
<1> SUFFICES ASSUME ParserInv PROVE IndicesInside
  OBVIOUS
<1>1. /\ cs.size \in Nat /\ cs.len \in 0..cs.size /\ BufferOK
      /\ Place(p, cs.len) /\ Finds(p, cs.len) /\ RequestOK(sr, cs.len)
  BY DEF ParserInv, BufferOK
<1>2. cs.size = Len(Body)
  BY <1>1, ParserAssumption DEF Body, BufferOK
<1>3. /\ \A h \in DOMAIN p.headers : FieldWithin(p.headers[h], cs.len)
      /\ \A k \in DOMAIN p.extra : /\ FieldWithin(p.extra[k].key, cs.len)
                                   /\ FieldWithin(p.extra[k].val, cs.len)
  BY <1>1 DEF Finds, FieldOK
<1>4. /\ sr.linked => FieldWithin(sr.uri, cs.len)
      /\ FieldWithin(sr.query, cs.size) /\ FieldWithin(sr.data, cs.size)
  BY <1>1 DEF RequestOK, FieldOK
<1>5. /\ p.i \in 0..cs.len /\ p.start \in 0..p.i
      /\ p.status \in {"HEADER_VALUE", "HEADER_VAL_STARTS"} =>
           0 <= p.key /\ p.key < p.sep /\ p.sep < p.i
      /\ p.status = "HEADER_VAL_STARTS" => p.sep < p.val /\ p.val < p.i
  BY <1>1 DEF Place
<1>6. cs.size <= FirstBlock => \A f \in Fields : Held(f)
  <2> SUFFICES ASSUME cs.size <= FirstBlock, NEW f \in Fields PROVE Held(f)
    OBVIOUS
  <2>1. cs.gen \in Nat /\ cs.gen <= 1
    BY <1>1 DEF BufferOK
  <2>2. \E n : FieldOK(f, n)
    <3>1. CASE \E h \in DOMAIN p.headers : f = p.headers[h]
      BY <1>1, <3>1 DEF Finds
    <3>2. CASE \E k \in DOMAIN p.extra : f \in {p.extra[k].key, p.extra[k].val}
      BY <1>1, <3>2 DEF Finds
    <3>3. CASE f \in {sr.query, sr.data} \/ (sr.linked /\ f = sr.uri)
      BY <1>1, <3>3 DEF RequestOK
    <3> QED BY <3>1, <3>2, <3>3 DEF Fields
  <2>3. f.gen \in Nat /\ f.gen <= cs.gen
    BY <2>2 DEF FieldOK, FieldType
  <2> QED BY <2>1, <2>3 DEF Held
<1> QED BY <1>1, <1>2, <1>3, <1>4, <1>5, <1>6 DEF IndicesInside

(* mk_http_parser never keeps an index outside the bytes it was given, and *)
(* no field lies outside the block it was found in as far as the session   *)
(* still has that block, which it has of every field until realloc is      *)
(* first called: for any clients, sizes of the buffer and limits, TLS's    *)
(* included, and wherever the network cuts the bytes.                      *)
THEOREM IndicesAlwaysInside == Spec => []IndicesInside
<1>1. Spec => []ParserInv
  BY ParserInitInv, ParserNextInv, PTL DEF Spec
<1> QED BY <1>1, InvInside, PTL
============================================================================
