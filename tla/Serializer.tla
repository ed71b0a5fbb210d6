----------------------------- MODULE Serializer -----------------------------
(***************************************************************************)
(* How a value is stored in the job's hash and read back.  A field is a    *)
(* path or the symbol that stands for it; so may a value be.  A string is  *)
(* <<mark, colons, kind, of>>: a type mark such as '/d', or ""; how many   *)
(* colons it begins with; and what follows, which may happen to be a path, *)
(* a path symbol (three letters), a value symbol (two letters), the value  *)
(* one stands for, or nothing.  A value is <<type, of>>.                   *)
(***************************************************************************)
EXTENDS Integers, TLC

Text(kind, of) == <<"", 0, kind, of>>

Marked(mark, of) == <<mark, 0, "text", of>>

IsValue(x) ==
    CASE x[1] = "string" -> /\ x = <<"string", <<x[2][1], x[2][2], x[2][3], x[2][4]>>>>
                            /\ x[2][2] \in Nat
      [] x[1] = "boolean" -> x = <<"boolean", x[2]>> /\ x[2] \in BOOLEAN
      [] x[1] \in {"number", "object"} -> x = <<x[1], x[2]>>
      [] OTHER -> x = <<"null">>

\* toString, fromString: numbers and the like are marked; no string is, so one
\* that begins like a mark is read as something else.
ToText(x) ==
    CASE x[1] = "string" -> x[2]
      [] x[1] = "boolean" -> Marked(IF x[2] THEN "/t" ELSE "/f", "")
      [] x[1] = "number" -> Marked("/d", x[2])
      [] x[1] = "null" -> Marked("/n", "")
      [] x[1] = "object" -> Marked("/s", x[2])

FromText(s) ==
    CASE s[1] = "" -> <<"string", s>>
      [] s[1] = "/t" -> <<"boolean", TRUE>>
      [] s[1] = "/f" -> <<"boolean", FALSE>>
      [] s[1] = "/d" -> <<"number", s[4]>>
      [] s[1] = "/n" -> <<"null">>
      [] s[1] = "/s" -> <<"object", s[4]>>

Undefined == <<"undefined">>

TwoLetters(s) == s[1] = "" /\ s[3] = "value symbol"

WithColons(s, n) == <<s[1], n, s[3], s[4]>>

KeepTwoLetters(s) == s   \* variant: two letters are stored as they are

\* Two letters are told from a symbol by one more colon.
EscapeTwoLetters(s) == WithColons(s, s[2] + 1)

\* getReverseKeyMap, getReverseValueMap.
ReverseKeyMap(keys) ==
    [s \in {keys[p] : p \in DOMAIN keys} |-> CHOOSE p \in DOMAIN keys : keys[p] = s]

ReverseValueMap(vals) ==
    [x \in {vals[i] : i \in DOMAIN vals} |-> CHOOSE i \in DOMAIN vals : vals[i] = x]

\* stringify, for a value that is not empty; vals: what value symbols stand for.
Stringify(x, vals) ==
    LET s == ToText(x)
        symbolOf == ReverseValueMap(vals)
    IN  IF TwoLetters(s) THEN EscapeTwoLetters(s)
        ELSE IF s = Text("value", s[4]) /\ s[4] \in DOMAIN symbolOf
        THEN Text("value symbol", symbolOf[s[4]])
        ELSE s

Parse(s, vals) ==
    IF TwoLetters(s) /\ s[2] > 0 THEN <<"string", WithColons(s, s[2] - 1)>>
    ELSE IF TwoLetters(s) /\ s[4] \in DOMAIN vals THEN <<"string", Text("value", vals[s[4]])>>
    ELSE FromText(s)

\* compress, decompress of a value; keys: the symbols of the paths.
Compress(s, keys) ==
    IF s[1] = "" /\ s[2] = 0 /\ s[3] = "path" /\ s[4] \in DOMAIN keys
    THEN Text("symbol", keys[s[4]]) ELSE s

Decompress(s, keys) ==
    LET pathOf == ReverseKeyMap(keys)
    IN  IF s = Text("symbol", s[4]) /\ s[4] \in DOMAIN pathOf THEN Text("path", pathOf[s[4]])
        ELSE s

\* The field a value of path p is stored in, and looked for.
Field(p, keys) == IF p \in DOMAIN keys THEN <<"symbol", keys[p]>> ELSE <<"path", p>>

\* setState by one engine and getState by another.  An empty string is not
\* stored; a value is found if both look in the same field.
IsEmpty(x) == x = <<"string", Text("text", "")>>

Package(x, keys, vals) == Compress(Stringify(x, vals), keys)

Unpackage(s, keys, vals) == Parse(Decompress(s, keys), vals)

ReadBack(x, keys, vals, theirKeys, theirVals) ==
    IF IsEmpty(x) THEN Undefined ELSE Unpackage(Package(x, keys, vals), theirKeys, theirVals)

\* The strings no reader can tell from what they look like.
LooksLikeMark(x) == x[1] = "string" /\ x[2][1] # ""

LooksLikeSymbol(x, keys) ==
    x[1] = "string" /\ \E p \in DOMAIN keys : x[2] = Text("symbol", keys[p])
=============================================================================
