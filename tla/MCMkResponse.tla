---------------------------- MODULE MCMkResponse ----------------------------
(* MkResponse with a few clients, for TLC.                                 *)
EXTENDS MkResponse

Get(size) == [method |-> "GET", size |-> size, time |-> size,
              fresh |-> FALSE, range |-> <<>>]
Ranged(size, a, b) == [Get(size) EXCEPT !.range = <<a, b>>]
Fresh   == [Get(2) EXCEPT !.fresh = TRUE]
HeadOf  == [Get(3) EXCEPT !.method = "HEAD"]
Missing == Get(0)

Numbers == {None} \cup 0..4
Ranges  == {Ranged(3, a, b) : a, b \in Numbers}

(* One client alone asks for every range; or it pipelines two requests or  *)
(* sends two flights while another connection is answered.                 *)
MCClients ==
  {<<<<<<q>>>>, <<>>>> : q \in Ranges \cup {Fresh, HeadOf, Missing}}
  \cup {<<<<<<Get(1), Missing>>, <<Get(2)>>>>, <<>>>>,
        <<<<<<Get(1), Fresh>>>>, <<<<HeadOf>>>>>>,
        <<<<<<Missing, Get(1)>>>>, <<<<Fresh>>>>>>,
        <<<<<<Fresh>>, <<Ranged(2, 1, None)>>>>, <<<<Missing>>>>>>}
=============================================================================
