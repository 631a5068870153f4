------------------------------ MODULE MCQuery ------------------------------
(* Query with payloads of each kind: text with a tab in it, text that      *)
(* looks like a field, an envelope of the agent.                           *)
EXTENDS Query

MCPayload == <<
  <<Field("", <<"a">>, NaN), Field("payload", <<"b">>, NaN)>>,
  <<Field("{", <<"message", "c", "agent_id", "me", "source_id", "s">>, NaN)>>,
  <<Field("seq", <<"7">>, 7)>>>>

MCConfigs ==
  {[codec |-> c.codec, compress |-> c.compress, retention |-> c.retention] :
     c \in {[codec |-> [crc |-> "full", fields |-> {"seq"}], compress |-> TRUE, retention |-> 1],
            [codec |-> [crc |-> "payload_hash", fields |-> {"ts", "seq"}], compress |-> FALSE, retention |-> 0],
            [codec |-> [crc |-> "header", fields |-> {"seq", "level"}], compress |-> FALSE, retention |-> 1],
            [codec |-> [crc |-> "header", fields |-> {}], compress |-> FALSE, retention |-> 0],
            [codec |-> [crc |-> "none", fields |-> {}], compress |-> FALSE, retention |-> 0]}}

Any == [via |-> "http", seq_from |-> NaN, seq_to |-> NaN, time_from |-> NaN, time_to |-> NaN,
        source_id |-> "", agent_id |-> "", limit |-> NaN, include_archive |-> TRUE]
Recent == [Any EXCEPT !.include_archive = FALSE]
MCQueries ==
  {Any, [Recent EXCEPT !.seq_to = 1, !.limit = 1],
   [Recent EXCEPT !.source_id = "s", !.agent_id = "me", !.via = "grpc", !.limit = 0, !.time_from = 2]}

(* The payloads are such as the theorems about replies speak of.           *)
ASSUME MCEnvelopes == Envelopes
=============================================================================
