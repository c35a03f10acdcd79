-------------------------------- MODULE Codecs --------------------------------
(***************************************************************************)
(* How Boost.MQTT5 writes a packet and reads one (message_encoders,         *)
(* base_encoders, message_decoders, base_decoders).  The two are written    *)
(* apart, an encoder for every packet as parts that know their size and     *)
(* their bytes, a decoder as the fields it expects; so they are here.       *)
(*                                                                         *)
(* A byte is a number to 255, a text the sequence of its bytes.  A message  *)
(* is its code, its options (the flags), and its fields by name; properties *)
(* are a function from their numbers to the sequence of their values.       *)
(***************************************************************************)
EXTENDS Integers, Sequences, SequencesExt, TLC, Varint

CONSTANT Messages   \* the messages looked at: records [code, options, fields]

VARIABLES original,   \* the message
          packet      \* control_packet: its bytes
codecVars == <<original, packet>>

PacketCodes == <<"CONNECT", "CONNACK", "PUBLISH", "PUBACK", "PUBREC", "PUBREL", "PUBCOMP",
                 "SUBSCRIBE", "SUBACK", "UNSUBSCRIBE", "UNSUBACK", "PINGREQ", "PINGRESP",
                 "DISCONNECT", "AUTH">>
Acks == {"PUBACK", "PUBREC", "PUBREL", "PUBCOMP"}

\* The properties a message may have, in the order in which they are written.
PropertyOrder(code) ==
    CASE code = "CONNECT" -> <<17, 33, 39, 34, 25, 23, 38, 21, 22>>
      [] code = "WILL" -> <<24, 1, 2, 3, 8, 9, 38>>
      [] code = "CONNACK" -> <<17, 33, 36, 37, 39, 18, 34, 31, 38, 40, 41, 42, 19, 26, 28, 21, 22>>
      [] code = "PUBLISH" -> <<1, 2, 3, 8, 9, 11, 35, 38>>
      [] code = "SUBSCRIBE" -> <<11, 38>>
      [] code = "UNSUBSCRIBE" -> <<38>>
      [] code = "DISCONNECT" -> <<17, 31, 38, 28>>
      [] code = "AUTH" -> <<21, 22, 31, 38>>
      [] OTHER -> <<31, 38>>

\* The types of their values.
PropertyKind(id) ==
    CASE id \in {1, 23, 25, 36, 37, 40, 41, 42} -> "byte"
      [] id \in {19, 33, 34, 35} -> "word"
      [] id \in {2, 17, 24, 39} -> "dword"
      [] id = 11 -> "varint"
      [] id = 38 -> "pair"
      [] OTHER -> "text"
Repeats(id) == id \in {11, 38}

Mqtt == <<77, 81, 84, 84>>

Bit(b) == IF b THEN 1 ELSE 0
When(b, seq) == IF b THEN seq ELSE <<>>

-----------------------------------------------------------------------------
(* Sizes: byte_size *)

Size(kind, v) ==
    CASE kind = "byte" -> 1
      [] kind = "word" -> 2
      [] kind = "dword" -> 4
      [] kind = "text" -> 2 + Len(v)
      [] kind = "rest" -> Len(v)
      [] kind = "varint" -> VariableLength(v)
      [] kind = "pair" -> 4 + Len(v[1]) + Len(v[2])

Total(sizes) == FoldFunction(+, 0, sizes)

\* props_size: each value after the number of its property.
ListSize(order, props) ==
    LET Values(id) == [i \in DOMAIN props[id] |-> 1 + Size(PropertyKind(id), props[id][i])]
    IN  Total([i \in DOMAIN order |-> Total(Values(order[i]))])

\* Properties that may be omitted are, when there are none.
PropertiesSize(order, props, omit) ==
    LET size == ListSize(order, props)
    IN  IF omit /\ size = 0 THEN 0 ELSE VariableLength(size) + size

-----------------------------------------------------------------------------
(* Bytes: encode *)

Word(n) == <<n \div 256, n % 256>>
Encoded(kind, v) ==
    CASE kind = "byte" -> <<v>>
      [] kind = "word" -> Word(v)
      [] kind = "dword" -> Word(v \div 65536) \o Word(v % 65536)
      [] kind = "text" -> Word(Len(v)) \o v
      [] kind = "rest" -> v
      [] kind = "varint" -> VariableBytes(v)
      [] kind = "pair" -> Word(Len(v[1])) \o v[1] \o Word(Len(v[2])) \o v[2]

PropertyBytes(id, values) ==
    FlattenSeq([i \in DOMAIN values |-> <<id>> \o Encoded(PropertyKind(id), values[i])])

PropertiesBytes(order, props, omit) ==
    LET size == ListSize(order, props)
    IN  IF omit /\ size = 0 THEN <<>>
        ELSE VariableBytes(size) \o
             FlattenSeq([i \in DOMAIN order |-> PropertyBytes(order[i], props[order[i]])])

\* A part of a packet: its size and its bytes.
Part(kind, v) == [size |-> Size(kind, v), bytes |-> Encoded(kind, v)]
Properties(code, props) == [size |-> PropertiesSize(PropertyOrder(code), props, FALSE),
                            bytes |-> PropertiesBytes(PropertyOrder(code), props, FALSE)]
MayOmit(code, props) == [size |-> PropertiesSize(PropertyOrder(code), props, TRUE),
                         bytes |-> PropertiesBytes(PropertyOrder(code), props, TRUE)]
Each(kind, seq) == [i \in DOMAIN seq |-> Part(kind, seq[i])]

-----------------------------------------------------------------------------
(* The encoders: the parts of every packet after its fixed header *)

ConnectFlags(o) == 128 * Bit(o.user) + 64 * Bit(o.password) + 2 * Bit(o.clean) +
                   IF o.will THEN 32 * Bit(o.retain) + 8 * o.qos + 4 ELSE 0

EncodeConnect(o, f) ==
    << Part("text", Mqtt), Part("byte", 5), Part("byte", ConnectFlags(o)),
       Part("word", f.keep_alive), Properties("CONNECT", f.props), Part("text", f.client_id) >>
    \o When(o.will, << Properties("WILL", f.will_props), Part("text", f.will_topic),
                       Part("text", f.will_message) >>)
    \o When(o.user, << Part("text", f.user_name) >>)
    \o When(o.password, << Part("text", f.password) >>)

EncodeConnack(f) ==
    << Part("byte", f.session_present), Part("byte", f.reason), Properties("CONNACK", f.props) >>

PublishFlags(o) == 8 * Bit(o.dup) + 2 * o.qos + Bit(o.retain)

EncodePublish(o, f) ==
    << Part("text", f.topic) >> \o When(o.qos # 0, << Part("word", f.packet_id) >>)
    \o << Properties("PUBLISH", f.props), Part("rest", f.payload) >>

EncodeAck(f) ==
    << Part("word", f.packet_id), Part("byte", f.reason), MayOmit("PUBACK", f.props) >>

\* The options of a filter, flag after flag.
SubscribeOptions(o) == 16 * o.retain_handling + 8 * Bit(o.retain_as_published)
                       + 4 * Bit(o.no_local) + o.max_qos

EncodeSubscribe(f) ==
    << Part("word", f.packet_id), Properties("SUBSCRIBE", f.props) >> \o
    FlattenSeq([i \in DOMAIN f.topics |->
                   << Part("text", f.topics[i][1]), Part("byte", SubscribeOptions(f.topics[i][2])) >>])

EncodeUnsubscribe(f) ==
    << Part("word", f.packet_id), Properties("UNSUBSCRIBE", f.props) >> \o Each("text", f.topics)

EncodeSuback(f) ==
    << Part("word", f.packet_id), Properties("SUBACK", f.props) >> \o Each("byte", f.codes)

EncodeUnsuback(f) ==
    << Part("word", f.packet_id), Properties("UNSUBACK", f.props) >> \o Each("byte", f.codes)

EncodeReason(code, f) == << Part("byte", f.reason), Properties(code, f.props) >>

Parts(m) ==
    CASE m.code = "CONNECT" -> EncodeConnect(m.options, m.fields)
      [] m.code = "CONNACK" -> EncodeConnack(m.fields)
      [] m.code = "PUBLISH" -> EncodePublish(m.options, m.fields)
      [] m.code \in Acks -> EncodeAck(m.fields)
      [] m.code = "SUBSCRIBE" -> EncodeSubscribe(m.fields)
      [] m.code = "SUBACK" -> EncodeSuback(m.fields)
      [] m.code = "UNSUBSCRIBE" -> EncodeUnsubscribe(m.fields)
      [] m.code = "UNSUBACK" -> EncodeUnsuback(m.fields)
      [] m.code \in {"PINGREQ", "PINGRESP"} -> <<>>
      [] OTHER -> EncodeReason(m.code, m.fields)

ControlByte(m) ==
    LET number == CHOOSE n \in DOMAIN PacketCodes : PacketCodes[n] = m.code
    IN  16 * number + (IF m.code = "PUBLISH" THEN PublishFlags(m.options)
                       ELSE IF m.code \in {"PUBREL", "SUBSCRIBE", "UNSUBSCRIBE"} THEN 2 ELSE 0)

Encode(m) == LET parts == Parts(m)
             IN  <<ControlByte(m)>> \o VariableBytes(Total([i \in DOMAIN parts |-> parts[i].size]))
                 \o FlattenSeq([i \in DOMAIN parts |-> parts[i].bytes])

-----------------------------------------------------------------------------
(* Reading: a parser returns whether it succeeds, a value, and what is left *)

Got(v, s, n) == [ok |-> TRUE, value |-> v, rest |-> SubSeq(s, n + 1, Len(s))]
Number(s) == 256 * s[1] + s[2]

\* len_prefix_parser.
ParseText(s) ==
    IF Len(s) < 2 \/ Len(s) < 2 + Number(s) THEN Nothing
    ELSE Got(SubSeq(s, 3, 2 + Number(s)), s, 2 + Number(s))

\* A filter and its options, in that order.
Both(first, second) ==
    IF first.ok THEN [second EXCEPT !.value = <<first.value, @>>] ELSE Nothing

\* parse_to_prop, for the value of a property; and the filters of SUBSCRIBE.
ParseByte(s) == IF s = <<>> THEN Nothing ELSE Got(s[1], s, 1)
ParsePair(first) == Both(first, ParseText(first.rest))
ParseFilter(first) == Both(first, ParseByte(first.rest))
ParseValue(kind, s) ==
    CASE kind = "byte" -> ParseByte(s)
      [] kind = "word" -> IF Len(s) < 2 THEN Nothing ELSE Got(Number(s), s, 2)
      [] kind = "dword" -> IF Len(s) < 4 THEN Nothing
                           ELSE Got(65536 * Number(s) + 256 * s[3] + s[4], s, 4)
      [] kind = "varint" -> ParseVarint(s)
      [] kind = "text" -> ParseText(s)
      [] kind = "pair" -> ParsePair(ParseText(s))
      [] kind = "filter" -> ParseFilter(ParseText(s))

\* Mutant: of a property that may come again the last value is kept.
WithValueLast(props, id, v) == [props EXCEPT ![id] = <<v>>]

\* A property that may come once keeps the last value.
WithValue(props, id, v) == [props EXCEPT ![id] = IF Repeats(id) THEN Append(@, v) ELSE <<v>>]

\* prop_parser's loop, over what the length of the properties sets aside.
RECURSIVE ParseList(_, _)
ParseList(props, s) ==
    LET p == ParseValue(PropertyKind(s[1]), Tail(s))
    IN  IF s = <<>> THEN [ok |-> TRUE, value |-> props, rest |-> <<>>]
        ELSE IF s[1] \notin DOMAIN props \/ ~p.ok THEN Nothing
        ELSE ParseList(WithValue(props, s[1], p.value), p.rest)

NoProperties(code) == [id \in Range(PropertyOrder(code)) |-> <<>>]

Within(list, rest) == IF list.ok THEN [list EXCEPT !.rest = rest] ELSE Nothing

\* The properties are as long as the number before them says.
Limited(code, length) ==
    IF ~length.ok THEN Nothing
    ELSE Within(ParseList(NoProperties(code), SubSeq(length.rest, 1, length.value)),
                SubSeq(length.rest, length.value + 1, Len(length.rest)))

\* Mutant: the length of the properties must be there.
ParsePropertiesStrict(code, s) == Limited(code, ParseVarint(s))

\* prop_parser: nothing at all is no properties.
ParseProperties(code, s) ==
    IF s = <<>> THEN Got(NoProperties(code), s, 0) ELSE Limited(code, ParseVarint(s))

-----------------------------------------------------------------------------
(* The decoders: the fields of every packet, and when there is one *)

Field(name, kind) == [name |-> name, kind |-> kind, needs |-> 1]
If(flag, name, kind) == [name |-> name, kind |-> kind, needs |-> flag]

DecodeConnect ==
    << Field("protocol", "text"), Field("version", "byte"), Field("flags", "byte"),
       Field("keep_alive", "word"), Field("props", "CONNECT"), Field("client_id", "text"),
       If(4, "will_props", "WILL"), If(4, "will_topic", "text"), If(4, "will_message", "text"),
       If(128, "user_name", "text"), If(64, "password", "text") >>

DecodeConnack == << Field("session_present", "byte"), Field("reason", "byte"), Field("props", "CONNACK") >>

\* needs 2: either bit of the QoS.
DecodePublish == << Field("topic", "text"), If(2, "packet_id", "word"), Field("props", "PUBLISH"),
                    Field("payload", "rest") >>

DecodePacketId == << Field("packet_id", "word") >>
DecodeAck == << Field("reason", "byte"), Field("props", "PUBACK") >>
DecodeSubscribe == << Field("props", "SUBSCRIBE"), Field("topics", "filters") >>
DecodeUnsubscribe == << Field("props", "UNSUBSCRIBE"), Field("topics", "texts") >>
DecodeSuback == << Field("props", "SUBACK"), Field("codes", "bytes") >>
DecodeUnsuback == << Field("props", "UNSUBACK"), Field("codes", "bytes") >>
DecodeDisconnect == << Field("reason", "byte"), Field("props", "DISCONNECT") >>
DecodeAuth == << Field("reason", "byte"), Field("props", "AUTH") >>

\* +parser: as many as there are, at least one.
RECURSIVE ParseMany(_, _)
ParseMany(kind, s) ==
    LET one == ParseValue(kind, s)
        others == ParseMany(kind, one.rest)
    IN  IF ~one.ok THEN [ok |-> FALSE, value |-> <<>>, rest |-> s]
        ELSE [ok |-> TRUE, value |-> <<one.value>> \o others.value, rest |-> others.rest]

ParseField(kind, s) ==
    CASE kind \in {"byte", "word", "text"} -> ParseValue(kind, s)
      [] kind = "rest" -> Got(s, s, Len(s))
      [] kind = "filters" -> ParseMany("filter", s)
      [] kind = "texts" -> ParseMany("text", s)
      [] kind = "bytes" -> ParseMany("byte", s)
      [] OTHER -> ParseProperties(kind, s)

\* if_: a field that the flags announce.
Announced(needs, flags) ==
    CASE needs = 1 -> TRUE
      [] needs = 2 -> (flags \div 2) % 4 # 0
      [] OTHER -> (flags \div needs) % 2 = 1

\* The protocol's name and version are compared, flags tell what is to come; what else
\* is read is part of the message.
Taken(d, name, p) ==
    LET read == [d EXCEPT !.ok = p.ok, !.rest = p.rest]
    IN  CASE name = "protocol" -> [read EXCEPT !.ok = @ /\ p.value = Mqtt]
          [] name = "version" -> [read EXCEPT !.ok = @ /\ p.value = 5]
          [] name = "flags" -> [read EXCEPT !.flags = p.value]
          [] OTHER -> [read EXCEPT !.fields = @ @@ (name :> p.value)]

Decoding(d, field) ==
    IF d.ok /\ Announced(field.needs, d.flags)
    THEN Taken(d, field.name, ParseField(field.kind, d.rest)) ELSE d

Numbered == Acks \cup {"SUBSCRIBE", "SUBACK", "UNSUBSCRIBE", "UNSUBACK"}
MayBeShort == Acks \cup {"DISCONNECT", "AUTH"}
Grammar(code) ==
    CASE code = "CONNECT" -> DecodeConnect
      [] code = "CONNACK" -> DecodeConnack
      [] code = "PUBLISH" -> DecodePublish
      [] code \in Acks -> DecodeAck
      [] code = "SUBSCRIBE" -> DecodeSubscribe
      [] code = "SUBACK" -> DecodeSuback
      [] code = "UNSUBSCRIBE" -> DecodeUnsubscribe
      [] code = "UNSUBACK" -> DecodeUnsuback
      [] code \in {"PINGREQ", "PINGRESP"} -> <<>>
      [] code = "DISCONNECT" -> DecodeDisconnect
      [] code = "AUTH" -> DecodeAuth

\* An acknowledgment, DISCONNECT or AUTH that ends where the reason would be: success.
Short(d, code) ==
    IF code \in MayBeShort /\ d.ok /\ d.rest = <<>>
    THEN [d EXCEPT !.fields = @ @@ [reason |-> 0, props |-> NoProperties(code)]]
    ELSE FoldLeft(Decoding, d, Grammar(code))

DecodeBody(code, flags, body) ==
    LET start == [ok |-> TRUE, rest |-> body, flags |-> flags, fields |-> <<>>]
    IN  Short(FoldLeft(Decoding, start, IF code \in Numbered THEN DecodePacketId ELSE <<>>), code)

\* decode_fixed_header.
Header(bytes) == [ParseVarint(Tail(bytes)) EXCEPT !.value = <<bytes[1], @>>]

\* What the flags say of a packet.
OptionsOf(code, flags) ==
    LET Has(b) == (flags \div b) % 2 = 1
    IN  CASE code = "PUBLISH" -> [dup |-> Has(8), qos |-> (flags \div 2) % 4, retain |-> Has(1)]
          [] code = "CONNECT" -> [user |-> Has(128), password |-> Has(64), retain |-> Has(32),
                                  qos |-> (flags \div 8) % 4, will |-> Has(4), clean |-> Has(2)]
          [] OTHER -> <<>>

Decoded(code, d) ==
    IF d.ok THEN {[code |-> code, options |-> OptionsOf(code, d.flags), fields |-> d.fields]}
    ELSE {}
DecodeMessage(control, body) ==
    LET code == PacketCodes[control \div 16]
    IN  Decoded(code, DecodeBody(code, control % 16, body))
Decode(bytes) == DecodeMessage(bytes[1], Header(bytes).rest)

-----------------------------------------------------------------------------
CodecsInit == original \in Messages /\ packet = Encode(original)

\* set_dup, before a publication is sent again.
SetDup == /\ original.code = "PUBLISH"
          /\ packet' = [packet EXCEPT ![1] = IF (@ \div 8) % 2 = 1 THEN @ ELSE @ + 8]
          /\ original' = [original EXCEPT !.options.dup = TRUE]

CodecsNext == SetDup

\* What MQTT says the bits of a filter's options mean: the decoder leaves them a byte.
FilterOptions(b) == [max_qos |-> b % 4, no_local |-> (b \div 4) % 2 = 1,
                     retain_as_published |-> (b \div 8) % 2 = 1, retain_handling |-> b \div 16]
Understood(m) ==
    IF m.code # "SUBSCRIBE" THEN m
    ELSE [m EXCEPT !.fields.topics = [i \in DOMAIN @ |-> <<@[i][1], FilterOptions(@[i][2])>>]]

\* What is written is read back, field by field and property by property, also when it
\* is marked as sent before.
ReadsWhatIsWritten == {Understood(m) : m \in Decode(packet)} = {original}

\* The length a packet announces, which is added up before it is written, is that of
\* what follows.
LengthAnnounced == LET header == Header(packet)
                   IN  header.ok /\ header.value[2] = Len(header.rest)

\* A broker may leave out the properties when there are none, and the reason too when
\* it is success: the packet means the same.
ShortMeansTheSame ==
    LET body == Header(packet).rest
        NoProps == original.fields.props = NoProperties(original.code)
        Cut(n) == DecodeBody(original.code, packet[1] % 16, SubSeq(body, 1, n))
        Same(d) == d.ok /\ d.fields = original.fields
        ends == IF original.code \in Acks THEN 3 ELSE 1
    IN  original.code \in MayBeShort /\ NoProps =>
           Same(Cut(ends)) /\ (original.fields.reason = 0 => Same(Cut(ends - 1)))

\* Encoders and decoders agree, on the packets the library writes and on the short
\* forms it may be sent.
CodecsAgree == ReadsWhatIsWritten /\ LengthAnnounced /\ ShortMeansTheSame
=============================================================================
