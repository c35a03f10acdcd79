-------------------------------- MODULE MCMqtt5 --------------------------------
(***************************************************************************)
(* The parts of Boost.MQTT5 and the host's use of it, each looked at by     *)
(* itself: a behaviour is one of one part, chosen at the start.             *)
(***************************************************************************)
EXTENDS Delivery, Connection, PacketIds, Topics, Codecs, Framing, MqttSession

CONSTANTS Parts5,      \* the parts to look at
          Exchanges    \* which requests meet which messages of the broker

VARIABLE part

mcVars == <<part, vars, deliveryVars, connectionVars, idVars, text, codecVars, framingVars>>

-----------------------------------------------------------------------------
(* Instances: MqttSession, Delivery, Connection *)

MCAnyGrant == SUBSET {"test", "alarms"}

\* Every kind of request, and a message of either QoS beside them.
MCExchanges == { <<[a |-> "qos2", b |-> "qos1", c |-> "unsubscribe"], [m |-> "qos2"]>>,
                 <<[a |-> "qos0", b |-> "subscribe", c |-> "qos2"], [m |-> "qos1"]>> }
MCKinds == {e[1] : e \in MCExchanges}
MCLevels == {e[2] : e \in MCExchanges}
MCThen == [r \in {"a", "b", "c"} |-> IF r = "a" THEN "c" ELSE "nobody"]

\* Two publications of QoS 0 beside a message of QoS 1 and one of QoS 2.
MCCutKinds == {[a |-> "qos0", b |-> "qos0"]}
MCCutThen == [r \in {"a", "b"} |-> "nobody"]
MCCutLevels == {[m |-> "qos1", n |-> "qos2"]}
MCCutExchanges == {<<[a |-> "qos0", b |-> "qos0"], [m |-> "qos1", n |-> "qos2"]>>}

\* A broker that does not accept, and one at the second of its addresses; only the
\* first of them; no broker.
MCServerLists == {<<1, 2>>, <<1>>, <<>>}
MCAccepting == {<<2, 2>>}

-----------------------------------------------------------------------------
(* The packets that are framed: whole, as long as the buffer and one byte longer,      *)
(* with bytes that look like a beginning, wrong flags, no end of the length, no code.  *)

MCGarbled == {<<48, 1, 48>>}
MCFrames == MCGarbled \cup
    { <<208, 0>>, <<64, 2, 0, 1>>, <<224, 0>>,
      <<48, 5, 1, 48, 1, 0, 0, 0>>, <<48, 6, 1, 48, 1, 0, 0, 0, 0>>,
      <<65, 0>>, <<48, 4, 4, 4, 4>>, <<0, 0>> }

-----------------------------------------------------------------------------
(* The messages that are encoded.  The sizes of the texts and payloads are those around *)
(* 4, 16 and 64, where lengths to the base 4 become longer.                            *)

MCTexts == {<<>>, [i \in 1 .. 12 |-> 98], [i \in 1 .. 13 |-> 38]}
MCValues(id) ==
    CASE PropertyKind(id) = "byte" -> {1}
      [] PropertyKind(id) = "word" -> {259}
      [] PropertyKind(id) = "dword" -> {16909060}
      [] PropertyKind(id) = "varint" -> {1, 17}
      [] PropertyKind(id) = "text" -> MCTexts
      [] PropertyKind(id) = "pair" -> {<<<<97>>, <<98, 38>>>>}

\* None, one value, two of one property or one each of two.
MCProps(code) ==
    LET none == NoProperties(code)
        ids == Range(PropertyOrder(code))
        ones == UNION {{[none EXCEPT ![id] = <<v>>] : v \in MCValues(id)} : id \in ids}
    IN  {none} \cup ones
        \cup UNION {{[p EXCEPT ![id] = Append(@, v)] : v \in MCValues(id), p \in ones} :
                       id \in {id \in ids : Repeats(id)}}
        \cup UNION {UNION {{[p EXCEPT ![id] = <<v>>] : v \in MCValues(id)} :
                              id \in {id \in ids : p[id] = <<>>}} : p \in ones}

MCMessage(code, options, fields) ==
    {[code |-> code, options |-> o, fields |-> f] : o \in options, f \in fields}

MCConnects ==
    LET options == [user : BOOLEAN, password : BOOLEAN, will : BOOLEAN, qos : 0 .. 2,
                    retain : BOOLEAN, clean : BOOLEAN]
        Sound(o) == ~o.will => o.qos = 0 /\ ~o.retain
        Will(ps) == [will_props : ps, will_topic : {<<97>>}, will_message : {<<>>, <<98>>}]
        Fields(o, ps, ws) ==
            {f @@ w @@ u @@ p : f \in [keep_alive : {60}, props : ps, client_id : {<<>>, <<97, 98>>}],
                                w \in IF o.will THEN Will(ws) ELSE {<<>>},
                                u \in IF o.user THEN [user_name : {<<97>>}] ELSE {<<>>},
                                p \in IF o.password THEN [password : {<<98>>}] ELSE {<<>>}}
        One == CHOOSE o \in options : o.will /\ ~o.user /\ o.password
        None(code) == {NoProperties(code)}
    IN  UNION {MCMessage("CONNECT", {o}, Fields(o, None("CONNECT"), None("WILL"))) :
                  o \in {o \in options : Sound(o)}}
        \cup MCMessage("CONNECT", {One}, Fields(One, MCProps("CONNECT"), None("WILL"))
                                         \cup Fields(One, None("CONNECT"), MCProps("WILL")))

MCPublishes ==
    LET Fields(qos) ==
            {f @@ n : f \in [topic : {<<97>>}, props : MCProps("PUBLISH"), payload : {<<>>, <<38, 38>>}]
                            \cup [topic : {<<97>>}, props : {NoProperties("PUBLISH")},
                                  payload : {[i \in 1 .. n |-> 97] : n \in 0 .. 70}],
                      n \in IF qos = 0 THEN {<<>>} ELSE [packet_id : {1, 256}]}
    IN  UNION {MCMessage("PUBLISH", [dup : {FALSE}, qos : {qos}, retain : BOOLEAN], Fields(qos)) : qos \in 0 .. 2}

MCFilterOptions == [max_qos : 0 .. 2, no_local : BOOLEAN, retain_as_published : BOOLEAN,
                    retain_handling : 0 .. 2]

MCMessages ==
    LET Simple(code, fields) == MCMessage(code, {<<>>}, fields)
    IN  MCConnects \cup MCPublishes
        \cup Simple("CONNACK", [session_present : {0, 1}, reason : {0, 138}, props : MCProps("CONNACK")])
        \cup UNION {Simple(code, [packet_id : {1, 256}, reason : {0, 16}, props : MCProps(code)]) : code \in Acks}
        \cup Simple("SUBSCRIBE", [packet_id : {256}, props : MCProps("SUBSCRIBE"),
                                 topics : {<<<<<<97>>, o>>>> : o \in MCFilterOptions}
                                          \cup {<<<<<<97>>, o>>, <<<<98, 98>>, o>>>> : o \in MCFilterOptions}])
        \cup Simple("UNSUBSCRIBE", [packet_id : {256}, props : MCProps("UNSUBSCRIBE"),
                                   topics : {<<<<97>>>>, <<<<97>>, <<>>>>}])
        \cup UNION {Simple(code, [packet_id : {256}, props : MCProps(code), codes : {<<0>>, <<0, 128>>}]) :
                       code \in {"SUBACK", "UNSUBACK"}}
        \cup Simple("PINGREQ", {<<>>}) \cup Simple("PINGRESP", {<<>>})
        \cup UNION {Simple(code, [reason : {0, 129}, props : MCProps(code)]) : code \in {"DISCONNECT", "AUTH"}}

MCNoMessages == {[code |-> "PINGREQ", options |-> <<>>, fields |-> <<>>]}

-----------------------------------------------------------------------------
MCInit ==
    /\ part \in Parts5
    /\ Init /\ (part # "session" => connectionStatus = 0)
    /\ DeliveryInit /\ (part = "delivery" => <<kind, level>> \in Exchanges)
    /\ (part # "delivery" => /\ kind = CHOOSE k \in Kinds : TRUE
                             /\ level = CHOOSE l \in Levels : TRUE
                             /\ svc.last = CHOOSE n \in Serials : TRUE)
    /\ ConnectionInit /\ (part # "connection" => cn.servers = <<>>)
    /\ IdsInit /\ TopicsInit /\ FramingInit
    /\ IF part = "codecs" THEN CodecsInit
       ELSE original \in MCNoMessages /\ packet = Encode(original)

MCNext ==
    /\ part' = part
    /\ \/ /\ part = "session" /\ Next
          /\ UNCHANGED <<deliveryVars, connectionVars, idVars, text, codecVars, framingVars>>
       \/ /\ part = "delivery" /\ DeliveryNext
          /\ UNCHANGED <<vars, connectionVars, idVars, text, codecVars, framingVars>>
       \/ /\ part = "connection" /\ ConnectionNext
          /\ UNCHANGED <<vars, deliveryVars, idVars, text, codecVars, framingVars>>
       \/ /\ part = "ids" /\ IdsNext
          /\ UNCHANGED <<vars, deliveryVars, connectionVars, text, codecVars, framingVars>>
       \/ /\ part = "topics" /\ TopicsNext
          /\ UNCHANGED <<vars, deliveryVars, connectionVars, idVars, codecVars, framingVars>>
       \/ /\ part = "codecs" /\ CodecsNext
          /\ UNCHANGED <<vars, deliveryVars, connectionVars, idVars, text, framingVars>>
       \/ /\ part = "framing" /\ FramingNext
          /\ UNCHANGED <<vars, deliveryVars, connectionVars, idVars, text, codecVars>>

\* The fairness of MqttSession, Connection, Framing and Delivery, each where its part
\* runs.
MCFairness ==
    /\ WF_vars(part = "session" /\ Connect) /\ WF_vars(part = "session" /\ SendSubscribe)
    /\ WF_vars(part = "session" /\ Broker) /\ WF_vars(part = "session" /\ SubAck)
    /\ WF_vars(part = "session" /\ Receive) /\ WF_vars(part = "session" /\ SetConnectionStatus)
    /\ \A a \in Actor : WF_connectionVars(part = "connection" /\ Progress(a))
    /\ WF_connectionVars(part = "connection" /\ WriteEnds)
    /\ WF_connectionVars(part = "connection" /\ DisconnectTimer)
    /\ WF_connectionVars(part = "connection" /\ PingEnds)
    /\ WF_connectionVars(part = "connection" /\ SentryEnds)
    /\ WF_connectionVars(part = "connection" /\ ReaderEnds)
    /\ WF_framingVars(part = "framing" /\ Reader)
    /\ <>[](part = "delivery" /\ Busy) => []<><<part = "delivery" /\ ClientStep>>_deliveryVars

\* When connections are no longer lost the client connects again, if a broker can be
\* reached, and the host receives its messages again, or its coroutine has ended.
ConnectsAgain ==
    /\ part = "connection" => StaysConnected
    /\ part = "session" => Recovers

\* Every request of the program ends, whatever replies and connections are lost, and
\* every packet that came whole over a connection that stays is handled.
NothingPending ==
    /\ part = "delivery" => EveryRequestEnds
    /\ part = "framing" => AllHandled

\* Once the client is cancelled no stream is put in place, the run ends and nobody holds
\* the lock; and async_disconnect cancels it, also behind a write that is stuck.
CancelIsFinal == [][StaysCancelled]_connectionVars /\ (part = "connection" => RunEnds /\ DisconnectEnds)

MCSpec == MCInit /\ [][MCNext]_mcVars /\ MCFairness
MCCutSpec == MCInit /\ [][MCNext]_mcVars
=============================================================================
