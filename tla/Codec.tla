------------------------------- MODULE Codec -------------------------------
(***************************************************************************)
(* The record codec (record_codec.cc): encode_record_buffer and, on the    *)
(* way back, parse_record_line (queries, delivery) and verify_record_line  *)
(* with extract_sequence (recovery).                                       *)
(*                                                                         *)
(* A line is a sequence of fields between tabs, after an optional checksum *)
(* prefix.  A field is its key, its text as a sequence of words, and the   *)
(* number its text spells (NaN when it spells none).  A field without key  *)
(* has the key "".  A payload is a sequence of such pieces between tabs    *)
(* and line ends, as the caller may hand it in, and the envelope of the    *)
(* agent is a piece with key "{" whose words are its keys and values in    *)
(* turn.  A checksum is the very thing it is computed over: collisions are *)
(* left out.                                                               *)
(***************************************************************************)
EXTENDS Integers, Sequences

NaN == -1
CrcClass == {"none", "header", "payload_hash", "full"}
CodecConfig == [crc : CrcClass, fields : SUBSET {"ts", "shard", "seq", "level"}]

Piece == [key : STRING, text : Seq(STRING), num : Nat \cup {NaN}]
Field(key, text, num) == [key |-> key, text |-> text, num |-> num]
NoPrefix == [class |-> "none", sum |-> <<>>, hash |-> <<>>]

Words(field) == <<field.key>> \o field.text

(* append_sanitized_payload: tabs and line ends become spaces.             *)
Sanitized(payload) ==
  LET upto[n \in 1..Len(payload)] ==
        IF n = 1 THEN Words(payload[1]) ELSE upto[n - 1] \o <<" ">> \o Words(payload[n])
  IN  upto[Len(payload)]

Structured(config) == config.crc # "none" \/ config.fields # {}

Metadata(config, rec) ==
  LET wanted(key) == IF key \in config.fields THEN <<Field(key, <<>>, rec[key])>> ELSE <<>>
  IN  wanted("ts") \o wanted("shard") \o wanted("seq") \o wanted("level")

(* The bytes a checksum of the class is computed over, on encoding.        *)
Covered(class, metadata, body) ==
  CASE class = "full" -> body
    [] class \in {"header", "payload_hash"} -> metadata
    [] OTHER -> <<>>

(* A line without any structure is the sanitized payload: what it looks    *)
(* like is up to its first piece.                                          *)
Bare(payload) ==
  LET first == payload[1]
      field == Field(first.key, Tail(Sanitized(payload)), IF Len(payload) = 1 THEN first.num ELSE NaN)
  IN  [prefix |-> [NoPrefix EXCEPT !.class = IF first.key = "crc" THEN "malformed" ELSE "none"],
       body   |-> <<field>>]

(* encode_record_buffer                                                    *)
Encode(config, rec) ==
  LET metadata == Metadata(config, rec)
      text     == Sanitized(rec.payload)
      body     == metadata \o <<Field("payload", text, NaN)>>
  IN  IF ~Structured(config) THEN Bare(rec.payload)
      ELSE [prefix |-> [class |-> config.crc,
                        sum   |-> Covered(config.crc, metadata, body),
                        hash  |-> IF config.crc = "payload_hash" THEN text ELSE <<>>],
            body   |-> body]

-----------------------------------------------------------------------------
PayloadAt(body) == {i \in DOMAIN body : body[i].key = "payload"}
FirstPayload(body) == CHOOSE i \in PayloadAt(body) : \A j \in PayloadAt(body) : i <= j

(* What follows "payload=" to the end of the line, tabs included.          *)
Rest(body, from) ==
  LET upto[n \in from..Len(body)] ==
        IF n = from THEN body[n].text ELSE upto[n - 1] \o <<"\t">> \o Words(body[n])
  IN  upto[Len(body)]

(* split_payload_field and the comparison of both sums ("crc=x:").         *)
HashMatches(line) ==
  /\ PayloadAt(line.body) # {}
  /\ LET at == FirstPayload(line.body) IN
     /\ Rest(line.body, at) = line.prefix.hash
     /\ SubSeq(line.body, 1, at - 1) = line.prefix.sum

(* "crc=h:" covers the fields before a "\tpayload=": a payload field that  *)
(* comes first has no tab before it and counts as metadata.                *)
HeaderMatches(line) ==
  LET at == {i \in PayloadAt(line.body) : i > 1}
      metadata == IF at = {} THEN line.body
                  ELSE SubSeq(line.body, 1, (CHOOSE i \in at : \A j \in at : i <= j) - 1)
  IN  metadata = line.prefix.sum

FullMatches(line) == line.body = line.prefix.sum

(* Mutant of Checks: any line with a checksum is taken for granted.        *)
ChecksNothing(line) == line.prefix.class # "malformed"

(* The part verify_record_line and parse_record_line share.  A prefix that *)
(* is cut short, or that no sum can be read from, is malformed.            *)
Checks(line) ==
  CASE line.prefix.class = "payload_hash" -> HashMatches(line)
    [] line.prefix.class = "header"       -> HeaderMatches(line)
    [] line.prefix.class = "full"         -> FullMatches(line)
    [] line.prefix.class = "none"         -> TRUE
    [] OTHER                              -> FALSE

(* extract_field: the first field with the key.                            *)
Has(body, key) == \E i \in DOMAIN body : body[i].key = key
Extract(body, key) ==
  body[CHOOSE i \in DOMAIN body :
         body[i].key = key /\ \A j \in 1..(i - 1) : body[j].key # key]

NumberOr(body, key, default) == IF Has(body, key) THEN Extract(body, key).num ELSE default

(* extract_json_string in an envelope: the value after the first colon     *)
(* that follows the key's first occurrence, be it as a key or as a value.  *)
JsonHas(words, key) ==
  \E i \in 1..(Len(words) - 1) :
    words[i] = key /\ (\A j \in 1..(i - 1) : words[j] # key) /\ (i % 2 = 1 \/ i + 2 <= Len(words))
JsonString(words, key) ==
  LET at == CHOOSE i \in DOMAIN words : words[i] = key /\ \A j \in 1..(i - 1) : words[j] # key
  IN  words[IF at % 2 = 1 THEN at + 1 ELSE at + 2]

(* populate_agent_metadata_from_payload                                    *)
InEnvelope(payload, key) ==
  payload # <<>> /\ Head(payload) = "{" /\ JsonHas(Tail(payload), key)
FromEnvelope(payload, key, default) ==
  IF InEnvelope(payload, key) THEN JsonString(Tail(payload), key) ELSE default

Level == 0..2      \* INFO, WARN, ERROR

(* parse_record_line accepts                                               *)
Parses(line) ==
  /\ Checks(line)
  /\ Has(line.body, "shard") => Extract(line.body, "shard").num # NaN
  /\ Has(line.body, "seq")   => Extract(line.body, "seq").num # NaN
  /\ Has(line.body, "level") => Extract(line.body, "level").num \in Level

(* parse_record_line: the record.                                          *)
Parsed(line) ==
  LET payload == IF Has(line.body, "payload") THEN Extract(line.body, "payload").text
                 ELSE IF line.body = <<>> THEN <<>>
                 ELSE <<line.body[1].key>> \o Rest(line.body, 1)
  IN  [ts        |-> NumberOr(line.body, "ts", NaN),
       shard     |-> NumberOr(line.body, "shard", 0),
       seq       |-> NumberOr(line.body, "seq", NaN),
       level     |-> NumberOr(line.body, "level", 0),
       payload   |-> IF InEnvelope(payload, "message") THEN
                       <<FromEnvelope(payload, "message", "")>> ELSE payload,
       agent_id  |-> FromEnvelope(payload, "agent_id", ""),
       source_id |-> FromEnvelope(payload, "source_id", "")]

(* verify_record_line: a checksum is enough; without one the line must     *)
(* parse.                                                                  *)
Verifies(line) ==
  IF line.prefix.class = "none" THEN Parses(line) ELSE Checks(line)

(* scan_log_content, scan_log_file_streaming: the lines up to the first    *)
(* one that does not verify.                                               *)
ValidLines(lines) ==
  LET bad == {i \in DOMAIN lines : ~Verifies(lines[i])}
  IN  IF bad = {} THEN Len(lines) ELSE (CHOOSE i \in bad : \A j \in bad : i <= j) - 1

(* The sequence number after them: one more than the last extract_sequence *)
(* found, and one more for every line behind it.                           *)
NextSequence(lines) ==
  LET number(i) == NumberOr(lines[i].body, "seq", NaN)
      numbered  == {i \in 1..ValidLines(lines) : number(i) # NaN}
  IN  IF numbered = {} THEN ValidLines(lines)
      ELSE LET last == CHOOSE i \in numbered : \A j \in numbered : j <= i
           IN  number(last) + 1 + ValidLines(lines) - last
=============================================================================
