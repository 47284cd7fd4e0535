-------------------------------- MODULE WireCodec --------------------------------
(***************************************************************************)
(* The closed protobuf contract of the C ABI (aurorix-ffi-c transport.rs): *)
(* every message with its fields, the bounds and the checks of its decoder,*)
(* its validation and its encoder.  The codec is one algorithm over a      *)
(* schema, which is the list of the arms of each decode function.          *)
(*                                                                         *)
(* A text is an identity and a number of bytes, and a message knows its    *)
(* size exactly, so the byte limits are those of the source.  A decoder    *)
(* that meets two errors reports the first; here it rejects the message.   *)
(***************************************************************************)
EXTENDS Integers, Sequences, FiniteSets
LOCAL INSTANCE SequencesExt

CONSTANTS
  Messages,    \* the messages somebody sends: [type, value]
  Disturbable, \* those of them that another version may have written
  NoValue,     \* None
  Rejected     \* a TransportError

VARIABLES
  sent,        \* the message that was encoded: [type, value]
  wire,        \* its fields, as the receiver gets them
  got,         \* what the decoder returned
  stage        \* where the message is: idle, refused, sent, disturbed, or received as it
               \* was sent ("received") or as it was disturbed ("guessed")

codecVars == <<sent, wire, got, stage>>
---------------------------------------------------------------------------------
(* Limits. *)

MessageBytes   == 1024 * 1024
EventBytes     == 256 * 1024
ExtensionBytes == MessageBytes - 256
CardLimit      == 64
Huge           == -1            \* 2^64 - 1, too large for uint32

\* The highest value of each enumeration; the lowest is 1.
Highest == [state |-> 5, section |-> 4, source |-> 4, availability |-> 4]

(* The schema.  A field has a number, a name, a kind, a limit (the highest   *)
(* value of an enumeration, the bytes of a text or a message, the elements   *)
(* of a list), a label, and for a message its type.                          *)

Field(no, name, kind, limit, label, type) ==
  [no |-> no, name |-> name, kind |-> kind, limit |-> limit, label |-> label,
   type |-> type, most |-> 1]

One(no, name, kind, limit)   == Field(no, name, kind, limit, "required", "")
Maybe(no, name, kind, limit) == Field(no, name, kind, limit, "optional", "")
Arm(no, name, type, limit)   == Field(no, name, "message", limit, "arm", type)
Empty(no, name)              == Field(no, name, "empty", 0, "arm", "")
Part(no, name, type, limit)  == Field(no, name, "message", limit, "required", type)
List(no, name, type, limit, most) ==
  [Field(no, name, "message", limit, "repeated", type) EXCEPT !.most = most]

Source(no) == Part(no, "source", "source", 1024)
Status(no) == Part(no, "status", "status", 1024)

StatusFields == <<One(1, "state", "enum", Highest.state), Maybe(2, "message", "text", 512),
                  One(3, "retryable", "bool", 1)>>

SourceFields == <<One(1, "kind", "enum", Highest.source), One(2, "source_id", "text", 128),
                  Maybe(3, "display_name", "text", 512),
                  One(4, "status", "enum", Highest.availability), Maybe(5, "detail", "text", 512)>>

CardFields ==
  <<One(1, "card_id", "text", 128), One(2, "title", "text", 512),
    Maybe(3, "subtitle", "text", 512), Maybe(4, "artist", "text", 512),
    Maybe(5, "album", "text", 512), Maybe(6, "artwork_key", "text", 256),
    Maybe(7, "quality_label", "text", 512), Maybe(8, "duration_ms", "u32", 0),
    Maybe(9, "route_id", "text", 256), One(10, "is_favorite", "bool", 1),
    Source(11), Status(12)>>

SectionFields ==
  <<One(1, "kind", "enum", Highest.section), Source(2), Status(3), List(4, "cards", "card", 4096, CardLimit)>>

QuickEntryFields ==
  <<One(1, "card_id", "text", 128), One(2, "title", "text", 512),
    Maybe(3, "subtitle", "text", 512), Maybe(4, "icon_ref", "text", 256),
    One(5, "route_id", "text", 256), Maybe(6, "count", "u32", 0),
    One(7, "customizable", "bool", 1), Source(8), Status(9)>>

RecommendationFields ==
  <<One(1, "card_id", "text", 128), One(2, "title", "text", 512),
    Maybe(3, "description", "text", 512), Maybe(4, "artwork_key", "text", 256),
    One(5, "route_id", "text", 256), Source(6), Status(7)>>

RecommendationSetFields ==
  <<Source(1), Status(2), List(3, "cards", "recommendation", 4096, CardLimit)>>

SnapshotFields ==
  <<One(1, "projection_version", "version", 1), One(2, "observed_event_sequence", "u64", 0),
    Source(3), Status(4), List(5, "sections", "section", 300 * 1024, 4),
    List(6, "quick_entries", "quick_entry", 2048, 32),
    Field(7, "discover", "message", 300 * 1024, "optional", "recommendation_set")>>

RouteFields  == <<One(1, "id", "text", 128), One(2, "route", "text", 256)>>
IdFields     == <<One(1, "id", "text", 128)>>
SearchFields == <<One(1, "query", "bounded", 512)>>

CommandFields ==
  <<One(1, "command_version", "version", 1), One(2, "command_id", "text", 128),
    One(3, "observed_event_sequence", "u64", 0),
    Arm(10, "open_quick_entry", "route", 1024), Arm(11, "play_track", "id", 1024),
    Arm(12, "open_recommendation", "route", 1024), Arm(13, "open_all_recent", "id", 1024),
    Empty(14, "customize"), Arm(15, "search", "search", 1024),
    Arm(16, "toggle_favorite", "id", 1024), Arm(17, "open_extension", "route", 1024)>>

ExtensionFields ==
  <<One(1, "namespace", "text", 128), One(2, "schema_version", "text", 64),
    One(3, "payload", "bytes", ExtensionBytes)>>

ErrorFields ==
  <<One(1, "code", "text", 64), One(2, "message", "text", 1024), One(3, "retryable", "bool", 1)>>

RequestFields ==
  <<One(1, "schema_version", "version", 1), One(2, "request_id", "text", 128),
    Empty(10, "ping"), Arm(11, "extension", "extension", ExtensionBytes + 256)>>

ResponseFields ==
  <<One(1, "schema_version", "version", 1), One(2, "request_id", "text", 128),
    Empty(10, "pong"), Arm(11, "error", "error", 1024 + 256)>>

Schema ==
  [status |-> StatusFields, source |-> SourceFields, card |-> CardFields,
   section |-> SectionFields, quick_entry |-> QuickEntryFields,
   recommendation |-> RecommendationFields, recommendation_set |-> RecommendationSetFields,
   snapshot |-> SnapshotFields, event |-> SnapshotFields, route |-> RouteFields,
   id |-> IdFields, search |-> SearchFields, command |-> CommandFields,
   extension |-> ExtensionFields, error |-> ErrorFields, request |-> RequestFields,
   response |-> ResponseFields]

\* The bytes a message of its own may have.
Limit(type) == IF type = "event" THEN EventBytes ELSE MessageBytes

\* The encoders of these nested messages have no limit of their own.
Unlimited == {"extension", "error"}

Fields(type) == ToSet(Schema[type])
Varints      == {"enum", "version", "u32", "u64", "bool"}
---------------------------------------------------------------------------------
(* Bytes. *)

NotUtf8 == -1

\* Some bytes: how many, which text they are, and the fields if they are a message.
Text(text, len) == [len |-> len, text |-> text, fields |-> <<>>]
NoBytes         == Text(0, 0)

VarintSize(n) == IF n = Huge THEN 10 ELSE 1 + Cardinality({k \in 1 .. 4 : n >= 2 ^ (7 * k)})

FieldSize(w) ==
  VarintSize(8 * w.no) +
    IF w.wire = "varint" THEN VarintSize(w.num) ELSE VarintSize(w.data.len) + w.data.len

Size(fields) == FoldLeft(LAMBDA sum, w : sum + FieldSize(w), 0, fields)

Packed(fields) == [len |-> Size(fields), text |-> 0, fields |-> fields]

VarintField(no, n)   == [no |-> no, wire |-> "varint", num |-> n, data |-> NoBytes]
BytesField(no, data) == [no |-> no, wire |-> "bytes", num |-> 0, data |-> data]
---------------------------------------------------------------------------------
(* Validation. *)

\* The elements of a list have identities of their own, and sections kinds.
Key(type) == IF type = "section" THEN "kind" ELSE "card_id"

Distinct(list, key) == Cardinality({list[k][key] : k \in DOMAIN list}) = Len(list)

RECURSIVE Valid(_, _)
ValidField(f, x) ==
  CASE f.kind = "version"           -> x = f.limit
    [] f.kind = "text"              -> x.len \in 1 .. f.limit
    [] f.kind \in {"bounded", "bytes"} -> x.len <= f.limit
    [] f.label = "repeated"         -> /\ Len(x) <= f.most /\ Distinct(x, Key(f.type))
                                       /\ \A k \in DOMAIN x : Valid(f.type, x[k])
    [] f.kind = "message" /\ f.label # "repeated" -> Valid(f.type, x)
    [] OTHER                        -> TRUE

Valid(type, value) ==
  \A f \in Fields(type) : value[f.name] # NoValue => ValidField(f, value[f.name])
---------------------------------------------------------------------------------
(* Encoding. *)

\* An optional field that is there is written, and so is a flag that is false;
\* the mutant leaves the default out, as protobuf libraries do.
MutantWritten(f, x) == x # NoValue /\ (f.kind = "bool" => x # 0)
Written(f, x) == x # NoValue

RECURSIVE Encoded(_, _)
EncodedField(f, x) ==
  IF f.kind \in Varints THEN VarintField(f.no, x)
  ELSE BytesField(f.no, IF f.kind = "message" THEN Packed(Encoded(f.type, x)) ELSE x)

Encoded(type, value) ==
  FlattenSeq([k \in DOMAIN Schema[type] |->
    LET f == Schema[type][k]
        x == value[f.name]
    IN IF ~Written(f, x) THEN <<>>
       ELSE IF f.label = "repeated" THEN [i \in DOMAIN x |-> EncodedField(f, x[i])]
       ELSE <<EncodedField(f, x)>>])

RECURSIVE Fits(_, _)
Fits(type, fields) ==
  \A w \in ToSet(fields), f \in Fields(type) :
    f.no = w.no /\ f.kind = "message" =>
      /\ f.type \in Unlimited \/ w.data.len <= f.limit
      /\ Fits(f.type, w.data.fields)

Encodes(type, value) ==
  LET fields == Encoded(type, value)
  IN Valid(type, value) /\ Size(fields) <= Limit(type) /\ Fits(type, fields)
---------------------------------------------------------------------------------
(* Decoding. *)

Occurrences(fields, no) == SelectSeq(fields, LAMBDA w : w.no = no)

RECURSIVE Read(_, _)
ReadField(f, w) ==
  CASE f.kind = "bool"    -> IF w.num = 0 THEN 0 ELSE 1
    [] f.kind = "message" -> Read(f.type, w.data.fields)
    [] f.kind \in Varints \ {"bool"} -> w.num
    [] OTHER              -> w.data

Read(type, fields) ==
  [name \in {f.name : f \in Fields(type)} |->
    LET f  == CHOOSE f \in Fields(type) : f.name = name
        ws == Occurrences(fields, f.no)
    IN IF f.label = "repeated" THEN [k \in DOMAIN ws |-> ReadField(f, ws[k])]
       ELSE IF ws = <<>> THEN NoValue
       ELSE ReadField(f, ws[1])]

GoodVarint(f, n) ==
  /\ f.kind = "enum" => n \in 1 .. f.limit
  /\ f.kind \in {"u32", "version"} => n # Huge

RECURSIVE Accepts(_, _)
GoodField(f, w) ==
  IF f.kind \in Varints THEN w.wire = "varint" /\ GoodVarint(f, w.num)
  ELSE /\ w.wire = "bytes" /\ w.data.len <= f.limit
       /\ f.kind \in {"text", "bounded"} => w.data.text # NotUtf8
       /\ f.kind = "message" => Accepts(f.type, w.data.fields)

Accepts(type, fields) ==
  LET times(f) == Len(Occurrences(fields, f.no))
      arms     == {f \in Fields(type) : f.label = "arm"}
  IN /\ \A w \in ToSet(fields) : \E f \in Fields(type) : f.no = w.no /\ GoodField(f, w)
     /\ \A f \in Fields(type) : times(f) <= f.most /\ (f.label = "required" => times(f) = 1)
     /\ arms # {} => Cardinality({f \in arms : times(f) = 1}) = 1
     /\ Valid(type, Read(type, fields))

Decoded(type, fields) ==
  IF Size(fields) <= Limit(type) /\ Accepts(type, fields) THEN Read(type, fields) ELSE Rejected
---------------------------------------------------------------------------------
(* What is built from messages. *)

HomeNamespace == Text(2, 12)    \* "aurorix.home"
HomeVersion   == Text(3, 1)     \* "1"

FromHomeSnapshot(snapshot) ==
  [namespace |-> HomeNamespace, schema_version |-> HomeVersion,
   payload |-> Packed(Encoded("snapshot", snapshot))]

HomeSnapshotOf(extension) ==
  IF extension.namespace = HomeNamespace /\ extension.schema_version = HomeVersion
  THEN Decoded("snapshot", extension.payload.fields)
  ELSE Rejected

\* "unsupported_operation", "bootstrap extension is not executable"
NotExecutable == [code |-> Text(4, 21), message |-> Text(5, 37), retryable |-> 0]

ResponseFor(request) ==
  [schema_version |-> 1, request_id |-> request.request_id,
   pong  |-> request.ping,
   error |-> IF request.extension = NoValue THEN NoValue ELSE NotExecutable]
---------------------------------------------------------------------------------
CodecInit ==
  /\ sent = NoValue /\ wire = <<>> /\ got = NoValue /\ stage = "idle"

\* Somebody encodes a message; it is refused or on its way.
Send(message) ==
  /\ stage = "idle"
  /\ sent' = message /\ UNCHANGED got
  /\ IF Encodes(message.type, message.value)
     THEN stage' = "sent" /\ wire' = Encoded(message.type, message.value)
     ELSE stage' = "refused" /\ UNCHANGED wire

\* What another version of the contract, or a broken sender, may make of a field.
Altered(f, w) ==
       {[w EXCEPT !.wire = "malformed"], [w EXCEPT !.no = 99]}
  \cup {[w EXCEPT !.wire = IF w.wire = "varint" THEN "bytes" ELSE "varint"]}
  \cup (IF w.wire = "varint" THEN {[w EXCEPT !.num = n] : n \in {0, 1, 2, f.limit + 1, Huge}}
        ELSE IF f.kind = "message" THEN {[w EXCEPT !.data = NoBytes]}
        ELSE IF w.data.fields = <<>>
        THEN      {[w EXCEPT !.data.len = n] : n \in {0, 1, f.limit, f.limit + 1}}
             \cup {[w EXCEPT !.data.text = NotUtf8] : k \in {"text"} \cap {f.kind}}
        ELSE {})

Disturbed(type, fields) ==
  LET firsts == {i \in DOMAIN fields : \A j \in 1 .. i - 1 : fields[j].no # fields[i].no}
  IN      {RemoveAt(fields, i) : i \in firsts}
     \cup {Append(fields, fields[i]) : i \in firsts}
     \cup {Reverse(fields), Append(fields, BytesField(99, NoBytes))}
     \cup {Append(fields, BytesField(f.no, NoBytes)) : f \in {g \in Fields(type) : g.kind = "empty"}}
     \cup UNION {{[fields EXCEPT ![i] = w] : w \in
                    UNION {Altered(f, fields[i]) : f \in {g \in Fields(type) : g.no = fields[i].no}}} :
                 i \in firsts}

Disturb ==
  /\ stage = "sent" /\ sent \in Disturbable
  /\ stage' = "disturbed"
  /\ wire' \in Disturbed(sent.type, wire)
  /\ UNCHANGED <<sent, got>>

Receive ==
  /\ stage \in {"sent", "disturbed"}
  /\ got' = Decoded(sent.type, wire)
  /\ stage' = IF stage = "sent" THEN "received" ELSE "guessed"
  /\ UNCHANGED <<sent, wire>>

\* The worker of an accepted request answers it; that the answer encodes is expected.
Answer ==
  /\ stage \in {"received", "guessed"} /\ sent.type = "request" /\ got # Rejected
  /\ sent' = [type |-> "response", value |-> ResponseFor(got)]
  /\ wire' = Encoded("response", ResponseFor(got))
  /\ stage' = "sent" /\ got' = NoValue

Discard ==
  /\ stage \in {"refused", "received", "guessed"}
  /\ sent' = NoValue /\ wire' = <<>> /\ got' = NoValue /\ stage' = "idle"

CodecNext ==
  \/ stage = "idle" /\ \E message \in Messages : Send(message)
  \/ Disturb \/ Receive \/ Answer \/ Discard
---------------------------------------------------------------------------------
(* Properties. *)

\* What arrives as it was sent is read as it was sent, also a Home snapshot in
\* an extension; what is sent without a check, the answer to a request, passes
\* every check (lib.rs:379 expects it); and whatever a decoder accepts, however
\* it was disturbed, is a value that can be sent on and read again.
MessagesSurviveTheWire ==
  /\ stage = "sent" => Encodes(sent.type, sent.value)
  /\ stage = "received" => got = sent.value
  /\ stage \in {"received", "guessed"} /\ got # Rejected =>
       /\ Encodes(sent.type, got)
       /\ Decoded(sent.type, Encoded(sent.type, got)) = got
       /\ sent.type = "snapshot" /\ Valid("extension", FromHomeSnapshot(got)) =>
            HomeSnapshotOf(FromHomeSnapshot(got)) = got
=================================================================================
