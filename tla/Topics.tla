-------------------------------- MODULE Topics --------------------------------
(***************************************************************************)
(* The topics and topic filters that Boost.MQTT5 lets the program use       *)
(* (topic_validation, validate_topic, validate_unsubscribe).  A text is a   *)
(* sequence of characters, of which those that mean nothing here stand for  *)
(* all their like: "bad" for one that the library refuses, "$share" for     *)
(* those of that word.  Which characters it refuses is not checked: they    *)
(* are those that MQTT forbids and all others whose number ends in FE or FF *)
(* (utf8_mqtt.hpp:65), while bytes that are no character's may pass (:24).  *)
(***************************************************************************)
EXTENDS Integers, Sequences, FiniteSets

CONSTANTS Alphabet,       \* the characters: "/", "+", "#", "bad", "$share" and others
          MaxTopicSize,   \* the longest topic, 65535
          MaxTextSize     \* bound on the texts looked at

ASSUME TopicsAssumption ==
       /\ {"/", "+", "#", "bad", "$share"} \subseteq Alphabet
       /\ MaxTopicSize \in Nat /\ MaxTextSize \in Nat

VARIABLE text   \* what the program passes, a character after the other

TopicsInit == text = <<>>
TopicsNext == \E c \in Alphabet : Len(text) < MaxTextSize /\ text' = Append(text, c)

TopicsSpec == TopicsInit /\ [][TopicsNext]_text

-----------------------------------------------------------------------------
Wildcards == {"+", "#"}
IsTopicSize(str) == str # <<>> /\ Len(str) <= MaxTopicSize

\* validate_mqtt_utf8_char.
CharResult(c) == IF c \in Wildcards THEN "wildcard" ELSE IF c = "bad" THEN "invalid" ELSE "valid"

\* validate_impl: the result of the first character that is not valid.
FirstResult(str) ==
    LET odd == {i \in DOMAIN str : CharResult(str[i]) # "valid"}
    IN  IF odd = {} THEN "valid"
        ELSE CharResult(str[CHOOSE i \in odd : \A j \in odd : i <= j])

ValidateTopicName(str) == IF IsTopicSize(str) THEN FirstResult(str) ELSE "invalid"

\* Mutant: a "+" may follow anything.
ValidateTopicFilterLoose(str) ==
    LET multi == str # <<>> /\ str[Len(str)] = "#"
        rest == IF multi THEN SubSeq(str, 1, Len(str) - 1) ELSE str
        SingleLevel(i) == rest[i] = "+" /\ (i = Len(rest) \/ rest[i + 1] = "/")
    IN  IF /\ IsTopicSize(str)
           /\ multi /\ rest # <<>> => rest[Len(rest)] = "/"
           /\ \A i \in DOMAIN rest : CharResult(rest[i]) = "valid" \/ SingleLevel(i)
        THEN "valid" ELSE "invalid"

\* A "#" at the end, alone or after a "/"; "+" between slashes; no other wildcards.
ValidateTopicFilter(str) ==
    LET multi == str # <<>> /\ str[Len(str)] = "#"
        rest == IF multi THEN SubSeq(str, 1, Len(str) - 1) ELSE str
        SingleLevel(i) == /\ rest[i] = "+"
                          /\ i = Len(rest) \/ rest[i + 1] = "/"
                          /\ i = 1 \/ rest[i - 1] = "/"
    IN  IF /\ IsTopicSize(str)
           /\ multi /\ rest # <<>> => rest[Len(rest)] = "/"
           /\ \A i \in DOMAIN rest : CharResult(rest[i]) = "valid" \/ SingleLevel(i)
        THEN "valid" ELSE "invalid"

IsShared(str) == Len(str) >= 2 /\ str[1] = "$share" /\ str[2] = "/"

\* Mutant: what follows the share name is not looked at.
ValidateSharedTopicFilterHasty(str, wildcards) ==
    IF IsTopicSize(str) /\ IsShared(str) THEN "valid" ELSE "invalid"

\* $share, a name without wildcards, and a filter.
ValidateSharedTopicFilter(str, wildcards) ==
    LET named == SubSeq(str, 3, Len(str))
        slashes == {i \in DOMAIN named : named[i] = "/"}
        end == CHOOSE i \in slashes : \A j \in slashes : i <= j
        name == SubSeq(named, 1, end - 1)
        filter == SubSeq(named, end + 1, Len(named))
    IN  IF ~IsTopicSize(str) \/ ~IsShared(str) \/ slashes = {} THEN "invalid"
        ELSE IF name = <<>> \/ FirstResult(name) # "valid" THEN "invalid"
        ELSE IF wildcards THEN ValidateTopicFilter(filter) ELSE ValidateTopicName(filter)

\* validate_topic of subscribe_op, for a broker with and without wildcards and shared
\* subscriptions.
SubscribeResult(str, wildcards, shared) ==
    LET result == IF IsShared(str) THEN ValidateSharedTopicFilter(str, wildcards)
                  ELSE IF wildcards THEN ValidateTopicFilter(str) ELSE ValidateTopicName(str)
    IN  IF IsShared(str) /\ ~shared THEN "shared_subscription_not_available"
        ELSE IF result = "invalid" THEN "invalid_topic"
        ELSE IF ~wildcards /\ result # "valid" THEN "wildcard_subscription_not_available"
        ELSE "success"

\* validate_unsubscribe.
UnsubscribeResult(str) ==
    IF ValidateTopicFilter(str) = "valid" THEN "success" ELSE "invalid_topic"

-----------------------------------------------------------------------------
\* The levels of a text, between its slashes.
LevelsOf(str) ==
    LET cuts == {0, Len(str) + 1} \cup {i \in DOMAIN str : str[i] = "/"}
        After(i) == CHOOSE j \in cuts : j > i /\ \A k \in cuts : k > i => j <= k
    IN  {[last |-> After(i) = Len(str) + 1, level |-> SubSeq(str, i + 1, After(i) - 1)] :
            i \in cuts \ {Len(str) + 1}}

Plain(level) == \A i \in DOMAIN level : level[i] \notin Wildcards \cup {"bad"}

\* What MQTT says of the levels of a topic filter: each is "+" or has no wildcard, but
\* the last may be "#".  Of its characters it says what the library takes.
IsFilter(str) ==
    /\ IsTopicSize(str)
    /\ \A l \in LevelsOf(str) : Plain(l.level) \/ l.level = <<"+">> \/ (l.level = <<"#">> /\ l.last)

\* Of texts made of characters that the library takes the checks let pass those whose
\* levels MQTT allows in a filter, though they are made character by character.
FiltersAreLevels == ValidateTopicFilter(text) = "valid" <=> IsFilter(text)

\* Whatever can be subscribed to can be unsubscribed from, and a filter that needs no
\* wildcards can be used with a broker that has none.
CanUnsubscribe ==
    \A wildcards, shared \in BOOLEAN :
       SubscribeResult(text, wildcards, shared) = "success" =>
          /\ UnsubscribeResult(text) = "success"
          /\ SubscribeResult(text, TRUE, TRUE) = "success"

\* The checks of topic filters agree with MQTT on levels and wildcards (not on which
\* characters there may be), and with each other.
TopicsChecked == FiltersAreLevels /\ CanUnsubscribe
=============================================================================
