------------------------------- MODULE KeyValue -------------------------------
(* The texts of the protocol, "?key=value,value&key=value": the clients put  *)
(* them together by hand, and the server reads them with getKeyValuePair     *)
(* (utility.hpp). A text is a sequence of symbols; a whole word, such as a   *)
(* key, is one symbol.                                                       *)
EXTENDS SequencesExt, Integers

(* std::string::find, from a place on; 0 if there is none.                   *)
Find(s, c, from) ==
    LET at == {i \in from..Len(s) : s[i] = c} IN IF at = {} THEN 0 ELSE Min(at)

Before(s, from, n) == SubSeq(s, from, n - 1)
From(s, n) == SubSeq(s, n, Len(s))

(* A bug that would show: divided at one comma only.                         *)
InnerDivOnce(s) ==
    LET n == Find(s, ",", 1) IN IF n = 0 THEN <<s>> ELSE <<Before(s, 1, n), From(s, n + 1)>>

(* inner_div: the values between the commas; there is always one.            *)
inner_div(s) ==
    LET values[i \in 1..Len(s) + 1] ==
            LET n == Find(s, ",", i)
            IN  IF n = 0 THEN <<From(s, i)>> ELSE <<Before(s, i, n)>> \o values[n + 1]
    IN  values[1]

(* The pairs of the rest of the text, and before them one more: the last one *)
(* of a key counts.                                                          *)
Pair(key, values, rest) ==
    [k \in {key} \cup DOMAIN rest |-> IF k \in DOMAIN rest THEN rest[k] ELSE values]

(* A key goes up to the next "=", its values from there to the next "&".     *)
KeyEnd(s, i) == Find(s, "=", i)
ValuesEnd(s, i) == Find(s, "&", KeyEnd(s, i) + 1)
Key(s, i) == Before(s, i, KeyEnd(s, i))
Values(s, i) ==
    inner_div(IF ValuesEnd(s, i) = 0 THEN From(s, KeyEnd(s, i) + 1)
              ELSE Before(s, KeyEnd(s, i) + 1, ValuesEnd(s, i)))

(* The pairs after the "?", as long as there is a key.                       *)
getKeyValuePair(s) ==
    LET out[i \in 1..Len(s) + 1] ==
            IF KeyEnd(s, i) = 0 THEN <<>>
            ELSE Pair(Key(s, i), Values(s, i),
                      IF ValuesEnd(s, i) = 0 THEN <<>> ELSE out[ValuesEnd(s, i) + 1])
        start == Find(s, "?", 1)
    IN  IF start = 0 THEN <<>> ELSE out[start + 1]

-----------------------------------------------------------------------------
(* What the clients put together: the address they connect to, and their     *)
(* command, from a name of their own and the names typed for the targets.    *)
Uri(name) == <<"/", "?", "Alias", "=">> \o name

Command(name, to) ==
    <<"?", "SysSetMethod", "=", "ImgRetransmission", "&", "FromAlisa", "=">> \o name
        \o <<"&", "ToAlisa", "=">> \o to

(* What the server takes from them: the first value of a key, and the        *)
(* targets, if it finds both keys.                                           *)
First(text, key) == Head(getKeyValuePair(text)[key])

Targets(command) ==
    LET pairs == getKeyValuePair(command)
    IN  IF {<<"FromAlisa">>, <<"ToAlisa">>} \subseteq DOMAIN pairs
        THEN pairs[<<"ToAlisa">>] ELSE <<>>

=============================================================================
