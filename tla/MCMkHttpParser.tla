--------------------------- MODULE MCMkHttpParser ---------------------------
(* MkHttpParser with a few clients, for TLC.                               *)
EXTENDS MkHttpParser

CRLF == <<"CR", "LF">>
Line(name, value) == name \o <<":">> \o value \o CRLF
HostLine   == Line(Headers.HOST, <<" ", "a">>)
PortLine   == Line(Headers.HOST, <<"a", ":", "2">>)
ExtraLine  == Line(<<"x", "e">>, <<"v">>)
CloseLine  == Line(Headers.CONNECTION, <<"z">>)
KeepLine   == Line(Headers.CONNECTION, <<"k">>)
LengthLine == Line(Headers.CONTENT_LENGTH, <<"2">>)

Bytes(method, target, minor, lines) ==
  Methods[method] \o <<" ">> \o target \o <<" ">> \o PREFIX \o <<minor>>
    \o CRLF \o FlattenSeq(lines) \o CRLF

Plain == [method |-> "GET", protocol |-> "1", uri |-> <<"/">>,
          query |-> <<>>, data |-> <<>>, host |-> <<"a">>, port |-> 0,
          connection |-> "EMPTY", extra |-> <<>>]

Flight(bytes, asks) == [bytes |-> bytes, asks |-> asks]
Both(f, g) == Flight(f.bytes \o g.bytes, f.asks \o g.asks)

Get   == Flight(Bytes("GET", <<"/">>, "1", <<HostLine>>), <<Plain>>)
Ask   == Flight(Bytes("GET", <<"/", "?", "q">>, "1", <<PortLine>>),
                <<[Plain EXCEPT !.query = <<"q">>, !.port = 2]>>)
More  == Flight(Bytes("GET", <<"/", "b">>, "1", <<ExtraLine, HostLine>>),
                <<[Plain EXCEPT !.uri = <<"/", "b">>,
                                !.extra = <<<<<<"x", "e">>, <<"v">>>>>>]>>)
Old   == Flight(Bytes("GET", <<"/">>, "0", <<>>),
                <<[Plain EXCEPT !.protocol = "0", !.host = <<>>]>>)
Kept  == Flight(Bytes("GET", <<"/">>, "0", <<KeepLine>>),
                <<[Plain EXCEPT !.protocol = "0", !.host = <<>>,
                                !.connection = "KA"]>>)
Final == Flight(Bytes("GET", <<"/">>, "1", <<HostLine, CloseLine>>),
                <<[Plain EXCEPT !.connection = "CLOSE"]>>)
Odd   == Flight(Bytes("GET", <<"/">>, "1",
                      <<HostLine, Line(Headers.CONNECTION, <<"w">>)>>),
                <<Plain>>)
Other == Flight(Bytes("GET", <<"/">>, "1",
                      <<Line(Headers.CONNECTION, <<"u", "k">>), HostLine>>),
                <<[Plain EXCEPT !.connection = "UNKNOWN"]>>)
Post  == Flight(Bytes("POST", <<"/">>, "1", <<HostLine, LengthLine>>)
                  \o <<"d", "CR">>,
                <<[Plain EXCEPT !.method = "POST", !.data = <<"d", "CR">>]>>)
Put2  == Flight(Bytes("PUT", <<"/">>, "1", <<LengthLine, HostLine>>)
                  \o <<"e", ":">>,
                <<[Plain EXCEPT !.method = "PUT", !.data = <<"e", ":">>]>>)

NoHost == Flight(Bytes("GET", <<"/">>, "1", <<>>),
                 <<[Plain EXCEPT !.host = <<>>]>>)
Good == {Get, Ask, More, Old, Kept, Final, Post, Put2, NoHost}

(* Clients that send one flight, wait and send another, and that pipeline. *)
Shapes ==
  {<<f, g>> : f, g \in Good}
  \cup {<<Both(f, g)>> : f \in Good \ {Post, Put2, NoHost}, g \in Good}
  \cup {<<Both(f, Both(f, f))>> : f \in {Get, Ask}}
  \cup {<<Both(f, Get)>> : f \in {Odd, Other}}

(* Left out: a field that only an earlier request of the connection has.   *)
Fresh(c) ==
  LET asks == FlattenSeq([k \in DOMAIN c |-> c[k].asks])
  IN  \A k \in 2..Len(asks) :
        /\ asks[k - 1].query # <<>> => asks[k].query # <<>>
        /\ asks[k - 1].data # <<>> => asks[k].data # <<>>

GoodClients == {c \in Shapes : Fresh(c)}

(* Clients that never send a whole request.                                *)
Wrong(bytes) == <<Flight(bytes, <<>>)>>
LateLF == <<"G", "e", " ", "/", " ">> \o PREFIX \o <<"1", "CR">>

BadClients ==
  {Wrong(<<"G", " ">>), Wrong([k \in 1..12 |-> "G"]),
   Wrong(<<"G", "e", " ", " ">>), Wrong(<<"G", "e", " ", "/", "CR">>),
   Wrong(<<"G", "e", " ", "/", "?", "LF", " ">>),
   Wrong(<<"G", "e", " ", "/", " ", "F", "/", "1">>),
   Wrong(LateLF \o <<"a">>), Wrong(SubSeq(LateLF, 1, 8) \o <<"a">>),
   Wrong(LateLF \o <<"LF", "CR", "a">>),
   Wrong(LateLF \o <<"LF", "h", "CR">>),
   Wrong(LateLF \o <<"LF", "h", ":", "CR">>),
   Wrong(LateLF \o <<"LF", "h", ":", "a", "LF">>),
   Wrong(LateLF \o <<"LF", "h", "o", ":", "a", "CR", "a">>),
   Wrong(LateLF \o <<"LF", "h", "o", ":", "a", "CR", "LF", "CR", "a">>),
   Wrong(LateLF \o <<"LF">> \o Line(Headers.HOST, <<"a", ":", "b">>)),
   Wrong(LateLF \o <<"LF">> \o Line(Headers.CONTENT_LENGTH, <<"b">>)),
   Wrong(LateLF \o <<"LF">> \o ExtraLine \o ExtraLine),
   Wrong(Bytes("GET", <<"/">>, "2", <<>>)),
   Wrong(Bytes("POST", <<"/">>, "1", <<HostLine>>)),
   Wrong([k \in 1..70 |-> IF k = 1 THEN "G" ELSE IF k = 3 THEN " " ELSE "b"])}

(* Three characters of anything where a row is expected.                   *)
Junk == {Wrong(LateLF \o <<"LF">> \o j) :
           j \in {x \in [1..3 -> {"h", ":", " ", "a", "CR", "LF"}] :
                   ~(x[1] = "CR" /\ x[2] = "LF")}}

MCClients == GoodClients \cup BadClients \cup Junk

(* A client that asks with a query string first and without one later.     *)
StaleClients == {<<Ask, Get>>}

(* A client whose request is larger than two blocks.                       *)
LongClients == {<<More>>}
=============================================================================
