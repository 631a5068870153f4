------------------------------ MODULE MCAgent ------------------------------
(* Agent with every source: two TCP connections, one with a CR and an      *)
(* unfinished line; two Unix connections of which one may be served; two   *)
(* datagrams; three lines on stdin; HTTP bodies of each kind.              *)
EXTENDS Agent

MCWire == <<<<1, CR, NL, 2, NL, 3>>, <<5, NL>>, <<6, NL>>, <<NL>>>>
MCVia == <<"tcp", "tcp", "unix", "unix">>
MCDatagram == <<<<7>>, <<8>>>>
MCInput == <<<<9>>, <<10>>, <<11>>>>

Json(kind, text) == [kind |-> kind, text |-> text]

Bodies ==
  {NoBody,
   [bytes |-> 9, array |-> TRUE, items |-> <<>>, text |-> <<12>>],
   [bytes |-> 2, array |-> TRUE, text |-> <<12>>,
    items |-> <<Json("object", <<13>>), Json("object", <<14>>), Json("unclosed", <<15>>)>>],
   [bytes |-> 2, array |-> TRUE, text |-> <<12>>,
    items |-> <<Json("object", <<13>>), Json("other", <<14>>)>>]}

MCOptions ==
  {[sources |-> {"tcp"}, sink |-> FALSE, limit |-> 0, max_lines |-> 1, bodies |-> {}, starts |-> 1],
   [sources |-> {"unix"}, sink |-> FALSE, limit |-> 1, max_lines |-> 2, bodies |-> {}, starts |-> 1],
   [sources |-> {"stdin", "udp"}, sink |-> FALSE, limit |-> 0, max_lines |-> 2, bodies |-> {}, starts |-> 1],
   [sources |-> {"udp"}, sink |-> FALSE, limit |-> 0, max_lines |-> 2, bodies |-> Bodies, starts |-> 1],
   [sources |-> {"file", "udp"}, sink |-> TRUE, limit |-> 0, max_lines |-> 2, bodies |-> {}, starts |-> 2]}

ASSUME MCMarked == Marked
=============================================================================
