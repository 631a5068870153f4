---------------------------- MODULE MCFileSource ----------------------------
(* FileSource over two shards with the agent's default of round robin.  The *)
(* source runs on shard 0.                                                  *)
EXTENDS FileSource

CONSTANTS source

MCHome == [c \in Callers |-> 0]
MCKeyHash == [k \in {} |-> 0]
MCOnePath == <<"a.log">>
MCGauges == <<"disk_quota", "sink_backlog">>

Plain == [multiline |-> FALSE, max_lines |-> 0, max_message |-> 0, max_buffer |-> 0]

(* Plain lines; records of several lines; a buffer limit that drops the    *)
(* second record of a batch.                                               *)
MCOptions == {Plain, [Plain EXCEPT !.multiline = TRUE], [Plain EXCEPT !.max_buffer = 1]}
=============================================================================
