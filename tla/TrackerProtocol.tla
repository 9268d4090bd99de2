---------------------------- MODULE TrackerProtocol ----------------------------
(*****************************************************************************)
(* The lines a client and a tracker exchange (src/src/tracker.c): the list   *)
(* of request parameters, the url encoding, the request line, the receive    *)
(* loop's test for the end of a line, and the parser of replies.             *)
(*                                                                           *)
(* A line is a sequence of tokens.  The names the code writes ("domain",     *)
(* "path", a command, "OK") are one token each; a value is a sequence of     *)
(* characters, and each of its encoded characters is a token, as is each     *)
(* digit of a number.  Lengths are counted in tokens.                        *)
(*****************************************************************************)
EXTENDS Naturals, Sequences, FiniteSets, SequencesExt

CONSTANT NULL       \* a pointer to nothing

Digit == <<"0", "1", "2", "3", "4", "5", "6", "7", "8", "9">>
IsDigit(c) == \E d \in 1 .. 10 : Digit[d] = c

\* A number as "%d" prints it.
Decimal(number) ==
    LET digits[n \in 0 .. number] ==
            IF n < 10 THEN <<Digit[n + 1]>> ELSE Append(digits[n \div 10], Digit[(n % 10) + 1])
    IN  digits[number]

\* Characters url encoding replaces by "%" and two hexadecimal digits.
Hex == [c \in {"&", "=", "%", "+", "CR", "LF"} |->
           CASE c = "&" -> <<"2", "6">> [] c = "=" -> <<"3", "d">> [] c = "%" -> <<"2", "5">>
             [] c = "+" -> <<"2", "b">> [] c = "CR" -> <<"0", "d">> [] c = "LF" -> <<"0", "a">>]
Special == DOMAIN Hex

\* What a character is written as.
Code(c) ==
    CASE c \in Special -> <<"%", Hex[c][1], Hex[c][2]>> [] c = "SP" -> <<"+">> [] OTHER -> <<c>>

mfs_tracker_url_encode(raw) == FlattenSeq([i \in DOMAIN raw |-> Code(raw[i])])

\* The length url_encode hands back, counted apart from the buffer it fills.
url_encode_length(raw) == Len(raw) + 2 * Cardinality({i \in DOMAIN raw : raw[i] \in Special})

\* A "%" with fewer than two characters after it is dropped.
mfs_tracker_url_decode(encoded) ==
    LET n == Len(encoded)
        rest[i \in 1 .. n + 3] ==
            CASE i > n -> << >>
              [] i <= n /\ encoded[i] = "%" /\ i + 2 <= n ->
                    <<CHOOSE c \in Special : Hex[c] = <<encoded[i + 1], encoded[i + 2]>> >>
                        \o rest[i + 3]
              [] i <= n /\ encoded[i] = "%" /\ i + 2 > n -> rest[i + 1]
              [] i <= n /\ encoded[i] = "+" -> <<"SP">> \o rest[i + 1]
              [] OTHER -> <<encoded[i]>> \o rest[i + 1]
    IN  rest[1]
-------------------------------------------------------------------------------
(* tracker_request_parameters: a linked list with its totals.                *)

mfs_tracker_init_parameters == [head |-> << >>, count |-> 0, strlen |-> 0, meta_count |-> 0]

mfs_tracker_add_parameter_pointers(parameters, key, key_length, value, value_length) ==
    [parameters EXCEPT
        !.count = @ + 1,
        !.strlen = @ + key_length + value_length + 1,
        !.head = Append(@, [key |-> key, key_length |-> key_length, value |-> value,
                            value_length |-> value_length, is_metadata |-> FALSE])]

mfs_tracker_add_parameter(parameters, key, value) ==
    mfs_tracker_add_parameter_pointers(parameters,
        mfs_tracker_url_encode(key), url_encode_length(key),
        mfs_tracker_url_encode(value), url_encode_length(value))

\* "plugin.meta.key0" and the like.
MetaName(part, n) == <<"plugin.meta.", part>> \o Decimal(n)

\* mfs_tracker_add_meta_data, prepare: two encoded parameters.
add_prepared_meta_data(parameters, key, value) ==
    [mfs_tracker_add_parameter(
        mfs_tracker_add_parameter(parameters, MetaName("key", parameters.meta_count), key),
        MetaName("value", parameters.meta_count), value)
     EXCEPT !.meta_count = @ + 1]

\* mfs_tracker_add_meta_data, not prepare: kept raw, with no lengths, for a list
\* that is not sent itself.
add_raw_meta_data(parameters, key, value) ==
    [parameters EXCEPT
        !.count = @ + 1,
        !.meta_count = @ + 1,
        !.head = Append(@, [key |-> key, key_length |-> 0, value |-> value,
                            value_length |-> 0, is_metadata |-> TRUE])]

\* Mutant: metadata is copied as any other parameter.
copy_parameter_pointers_alike(src, dest) ==
    FoldLeft(LAMBDA d, p : mfs_tracker_add_parameter_pointers(
                               d, p.key, p.key_length, p.value, p.value_length),
             dest, src.head)

copy_parameter(p, dest) ==
    IF p.is_metadata THEN add_prepared_meta_data(dest, p.key, p.value)
    ELSE mfs_tracker_add_parameter_pointers(dest, p.key, p.key_length, p.value, p.value_length)

mfs_tracker_copy_parameter_pointers(src, dest) ==
    LET copied[n \in 0 .. Len(src.head)] ==
            IF n = 0 THEN dest ELSE copy_parameter(src.head[n], copied[n - 1])
    IN  copied[Len(src.head)]

\* cmd SP param & ... & param CR LF.  The position advances by the length noted
\* with each string, whatever was copied there.
mfs_tracker_build_request(cmd, parameters) ==
    LET keys == IF parameters.meta_count > 0
                THEN <<"plugin.meta.", "keys", "=">> \o Decimal(parameters.meta_count) \o <<"&">>
                ELSE << >>
        last == Len(parameters.head)
        Text(i) == LET p == parameters.head[i]
                   IN  SubSeq(p.key, 1, p.key_length) \o <<"=">>
                         \o SubSeq(p.value, 1, p.value_length)
                         \o (IF i < last THEN <<"&">> ELSE << >>)
    IN  [request |-> <<cmd, "SP">> \o keys \o FlattenSeq([i \in 1 .. last |-> Text(i)])
                        \o <<"CR", "LF">>,
         size |-> 1 + 3 + parameters.strlen + parameters.count - 1 + Len(keys)]
-------------------------------------------------------------------------------
(* Replies.                                                                  *)

\* The loop of mfs_tracker_request ends when what was received ends in LF.
LineEnds(buffer) == buffer # << >> /\ buffer[Len(buffer)] = "LF"

\* A line must end in CR LF; CR LF is cut off.
Terminated(buffer) == Len(buffer) > 1 /\ buffer[Len(buffer) - 1] = "CR"
Unterminated(buffer) == SubSeq(buffer, 1, Len(buffer) - 2)

\* skip_char, skip_not_char and skip_space_or_number: the rest of the line from
\* its first token that is not to be skipped.
SkipWhile(s, skipped) ==
    LET stop == {i \in DOMAIN s : s[i] \notin skipped}
    IN  IF stop = {} THEN << >>
        ELSE SubSeq(s, CHOOSE i \in stop : \A j \in stop : i <= j, Len(s))

\* The last token of the part that begins at i.
PartEnd(s, i) ==
    CHOOSE j \in i .. Len(s) :
        /\ \A k \in i .. j : s[k] # "&"
        /\ j = Len(s) \/ s[j + 1] = "&"

\* apr_strtok: the parts between separators, the empty ones left out.
strtok(s) ==
    LET parts[i \in 1 .. Len(s) + 1] ==
            IF i > Len(s) THEN << >>
            ELSE IF s[i] = "&" THEN parts[i + 1]
            ELSE <<SubSeq(s, i, PartEnd(s, i))>> \o parts[PartEnd(s, i) + 1]
    IN  parts[1]

\* A pair is split at its first "=".
HasEquals(pair) == \E i \in DOMAIN pair : pair[i] = "="
First(s, token) == SelectInSeq(s, LAMBDA c : c = token)
KeyOf(pair) == SubSeq(pair, 1, First(pair, "=") - 1)
ValueOf(pair) == SubSeq(pair, Len(KeyOf(pair)) + 2, Len(pair))

Invalid(result) == [rv |-> "EFTYPE", ok |-> NULL, result |-> result]

apr_hash_set(hash, key, value) ==
    [k \in DOMAIN hash \cup {key} |-> IF k = key THEN value ELSE hash[k]]

\* Mutant: the values are taken as they came.
SetPairsRaw(hash, pairs) ==
    FoldLeft(LAMBDA h, p : apr_hash_set(h, KeyOf(p), ValueOf(p)), hash, pairs)

SetPairs(hash, pairs) ==
    LET set[n \in 0 .. Len(pairs)] ==
            IF n = 0 THEN hash
            ELSE apr_hash_set(set[n - 1], KeyOf(pairs[n]), mfs_tracker_url_decode(ValueOf(pairs[n])))
    IN  set[Len(pairs)]

\* The pairs before the first without "=".
GoodPairs(pairs) ==
    LET bad == SelectInSeq(pairs, LAMBDA p : ~HasEquals(p))
    IN  IF bad = 0 THEN pairs ELSE SubSeq(pairs, 1, bad - 1)

\* The pairs up to one without "=" are set in the hash, whatever follows.
ParseOk(body, result) ==
    LET pairs == strtok(SkipWhile(body, {"SP"} \cup Range(Digit)))
        good == GoodPairs(pairs)
        hash == SetPairs(result, good)
    IN  IF good = pairs THEN [rv |-> "SUCCESS", ok |-> TRUE, result |-> hash]
        ELSE Invalid(hash)

ParseErr(body, result) ==
    LET line == SkipWhile(body, {"SP"})
        space == First(line, "SP")
        desc == SkipWhile(SubSeq(line, space + 1, Len(line)), {"SP"})
    IN  IF space = 0 THEN Invalid(result)
        ELSE [rv |-> "SUCCESS", ok |-> FALSE,
              result |-> apr_hash_set(
                  apr_hash_set(result, <<"ERROR_CODE">>,
                               mfs_tracker_url_decode(SubSeq(line, 1, space - 1))),
                  <<"ERROR_DESC">>, mfs_tracker_url_decode(desc))]

mfs_tracker_parse_response(line, result) ==
    LET body == SubSeq(line, 3, Len(line))
    IN  CASE Len(line) >= 2 /\ line[1] = "OK" /\ line[2] = "SP" -> ParseOk(body, result)
          [] Len(line) >= 2 /\ line[1] = "ERR" /\ line[2] = "SP" -> ParseErr(body, result)
          [] OTHER -> Invalid(result)
================================================================================
