---------------------------- MODULE TrackerCommands ----------------------------
(*****************************************************************************)
(* One command of the file system handle from call to return (src/src/file.c *)
(* and the create_open of src/src/file_upload.c): its parameters, the        *)
(* request line, the attempts of mfs_request_do, the reply received in       *)
(* pieces, the hash it is parsed into, and what the command makes of it.     *)
(*                                                                           *)
(* The choice of trackers and connections is TrackerPool's; here an attempt  *)
(* fails or not, and there are at most MaxTries.  The tracker is external: it *)
(* acts on whole lines, and answers with any of Answers.                     *)
(*****************************************************************************)
EXTENDS TrackerProtocol, Integers

CONSTANTS
    MaxTries,                       \* attempts mfs_request_do finds connections for
    MaxExtra,                       \* parameters the caller adds to a create_open
    MAX_ALLOWED_PATHS, MAX_ALLOWED_DIRECTORY_ENTRIES,
    MaxLeft,                        \* pairs before the broken one of a reply
    Pieces                          \* where a reply may be cut, counted from its end

ASSUME BoundsAssumption ==
    /\ MaxTries \in Nat \ {0} /\ MaxExtra \in Nat /\ MaxLeft \in Nat /\ Pieces \subseteq Nat
    /\ MAX_ALLOWED_PATHS \in Nat \ {0} /\ MAX_ALLOWED_DIRECTORY_ENTRIES \in Nat \ {0}

VARIABLES
    pc,
    extra,          \* the caller's list of extra parameters
    given,          \* what the caller put in it: <<key, value, is metadata>>
    call,           \* the command and the plain pairs of its parameters
    tries,          \* attempts made
    sent,           \* what the tracker received in this attempt
    reply,          \* what the tracker answered in this attempt, or NULL
    incoming,       \* the part of the answer that was not received yet
    final_buffer,   \* the part that was
    left,           \* the hash as this attempt found it
    rv, ok, result,
    out             \* the outputs the command has assigned, by name

attemptVars == <<sent, reply, incoming, final_buffer>>
vars == <<pc, extra, given, call, tries, attemptVars, left, rv, ok, result, out>>

EmptyHash == [k \in {} |-> NULL]
apr_hash_get(hash, key) == IF key \in DOMAIN hash THEN hash[key] ELSE NULL

\* atoi and apr_atoi64: the digits a string begins with.
atoi(string) ==
    LET stop == SelectInSeq(string, LAMBDA c : ~IsDigit(c))
        digits == IF stop = 0 THEN string ELSE SubSeq(string, 1, stop - 1)
    IN  FoldLeft(LAMBDA n, c : 10 * n + (CHOOSE d \in 1 .. 10 : Digit[d] = c) - 1, 0, digits)

Number(string, default) == IF string = NULL THEN default ELSE atoi(string)
-------------------------------------------------------------------------------
(* Calls.                                                                    *)

\* Arguments a caller may pass, with characters that must be encoded.
Keys == {<<"k">>, <<"SP", "&", "k">>, <<"%", "=", "LF", "+">>}
ClientIds == {NULL, <<"c", "SP">>}

P(name, value) == << <<name>>, value>>
Client(id) == IF id = NULL THEN << >> ELSE <<P("client_id", id)>>

\* The pairs each command adds, in its order.
get_paths_parameters(key) == <<P("domain", <<"d">>), P("noverify", <<"1">>), P("key", key)>>
delete_parameters(key, id) == <<P("domain", <<"d">>), P("key", key)>> \o Client(id)
delete_node_parameters(key, id) ==
    <<P("domain", <<"d">>), P("arg1", key), P("argcount", <<"1">>)>> \o Client(id)
create_directory_parameters(key, id) ==
    <<P("domain", <<"d">>), P("arg1", key), P("arg2", <<"D">>), P("argcount", <<"2">>)>>
        \o Client(id)
create_link_parameters(key, link, id) ==
    <<P("domain", <<"d">>), P("arg1", key), P("arg2", <<"L">>), P("arg3", link),
      P("argcount", <<"3">>)>> \o Client(id)
sleep_parameters == <<P("duration", <<"5">>)>>
rename_parameters(from, to, id) ==
    <<P("domain", <<"d">>), P("from_key", from), P("to_key", to)>> \o Client(id)
rename_filepath_parameters(from, to, id) ==
    <<P("domain", <<"d">>), P("arg1", from), P("arg2", to), P("argcount", <<"2">>)>> \o Client(id)
set_mtime_parameters(key, mtime, id) ==
    <<P("domain", <<"d">>), P("arg1", key), P("arg2", mtime), P("argcount", <<"2">>)>>
        \o Client(id)
list_directory_parameters(directory) ==
    <<P("domain", <<"d">>), P("arg1", directory), P("argcount", <<"1">>)>>
path_info_parameters(path) == <<P("domain", <<"d">>), P("arg1", path), P("argcount", <<"1">>)>>
stats_parameters(id) == <<P("domain", <<"d">>), P("argcount", <<"0">>)>> \o Client(id)
check_fs_parameters(get_total, id) ==
    <<P("domain", <<"d">>), P("argcount", <<"1">>), P("arg1", get_total)>> \o Client(id)
create_open_parameters(key) == <<P("domain", <<"d">>), P("class", <<"s">>), P("key", key)>>

Call(cmd, pairs) == [cmd |-> cmd, pairs |-> pairs]

Calls ==
    UNION {
        {Call("create_open", create_open_parameters(k)) : k \in Keys},
        {Call("get_paths", get_paths_parameters(k)) : k \in Keys},
        {Call("delete", delete_parameters(k, i)) : k \in Keys, i \in ClientIds},
        {Call("plugin_filepaths_delete_node", delete_node_parameters(k, i)) : k \in Keys, i \in ClientIds},
        {Call("plugin_filepaths_create_node", create_directory_parameters(k, i)) : k \in Keys, i \in ClientIds},
        {Call("plugin_filepaths_create_node", create_link_parameters(k, l, i)) :
            k \in Keys, l \in Keys, i \in ClientIds},
        {Call("sleep", sleep_parameters)},
        {Call("rename", rename_parameters(k, l, i)) : k \in Keys, l \in Keys, i \in ClientIds},
        {Call("plugin_filepaths_rename", rename_filepath_parameters(k, l, i)) :
            k \in Keys, l \in Keys, i \in ClientIds},
        {Call("plugin_filepaths_set_mtime", set_mtime_parameters(k, <<"7">>, i)) : k \in Keys, i \in ClientIds},
        {Call("plugin_filepaths_list_directory", list_directory_parameters(k)) : k \in Keys},
        {Call("plugin_filepaths_path_info", path_info_parameters(k)) : k \in Keys},
        {Call("plugin_filepaths_stats", stats_parameters(i)) : i \in ClientIds},
        {Call("plugin_filepaths_check_fs", check_fs_parameters(t, i)) : t \in {<<"0">>, <<"1">>}, i \in ClientIds}}

Init ==
    /\ pc = "calling"
    /\ extra = mfs_tracker_init_parameters /\ given = << >>
    /\ call = NULL /\ tries = 0
    /\ sent = << >> /\ reply = NULL /\ incoming = << >> /\ final_buffer = << >>
    /\ left = EmptyHash /\ rv = "ECONNREFUSED" /\ ok = NULL /\ result = EmptyHash
    /\ out = EmptyHash

\* The caller fills its list of extra parameters.
add_extra(key, value, is_metadata) ==
    /\ pc = "calling" /\ Len(given) < MaxExtra
    /\ extra' = IF is_metadata THEN add_raw_meta_data(extra, key, value)
                ELSE mfs_tracker_add_parameter(extra, key, value)
    /\ given' = Append(given, <<key, value, is_metadata>>)
    /\ UNCHANGED <<pc, call, tries, attemptVars, left, rv, ok, result, out>>

begin(c) ==
    /\ pc = "calling"
    /\ given # << >> => c.cmd = "create_open"
    /\ call' = c
    /\ pc' = "request"
    /\ UNCHANGED <<extra, given, tries, attemptVars, left, rv, ok, result, out>>
-------------------------------------------------------------------------------
(* mfs_request_do and mfs_tracker_request.                                   *)

\* What the command sends: the caller's parameters, then its own.
Request ==
    LET pairs == call.pairs
        added[n \in 0 .. Len(pairs)] ==
            IF n = 0 THEN mfs_tracker_copy_parameter_pointers(extra, mfs_tracker_init_parameters)
            ELSE mfs_tracker_add_parameter(added[n - 1], pairs[n][1], pairs[n][2])
    IN  mfs_tracker_build_request(call.cmd, added[Len(pairs)])

\* No tracker is active, no connection can be had, or none is left to try: the
\* last status is returned.
no_connection ==
    /\ pc = "request"
    /\ pc' = "failed"
    /\ UNCHANGED <<extra, given, call, tries, attemptVars, left, rv, ok, result, out>>

\* Another connection, and the request is built and sent.  apr_socket_send may
\* send a part of it; how much is not looked at.
send_request ==
    /\ pc = "request" /\ tries < MaxTries
    /\ tries' = tries + 1
    /\ LET r == Request
       IN  \E n \in {1, r.size - 1, r.size} : sent' = SubSeq(r.request, 1, n)
    /\ reply' = NULL /\ incoming' = << >> /\ final_buffer' = << >>
    /\ left' = result
    /\ pc' = "receive"
    /\ UNCHANGED <<extra, given, call, rv, ok, result, out>>

\* Sending or receiving fails or times out, or the tracker closes: whichever it
\* is, the connection is destroyed and mfs_request_do goes on.
socket_error ==
    /\ pc = "receive"
    /\ rv' = "EIO"
    /\ pc' = "request"
    /\ UNCHANGED <<extra, given, call, tries, attemptVars, left, ok, result, out>>

\* Mutant: a part of the reply replaces the one before it.
receive_last_part ==
    /\ pc = "receive" /\ incoming # << >>
    /\ \E n \in {Len(incoming)} \cup {Len(incoming) - d : d \in Pieces} :
          /\ n \in 1 .. Len(incoming)
          /\ final_buffer' = SubSeq(incoming, 1, n)
          /\ incoming' = SubSeq(incoming, n + 1, Len(incoming))
    /\ pc' = IF LineEnds(final_buffer') THEN "parse" ELSE "receive"
    /\ UNCHANGED <<extra, given, call, tries, sent, reply, left, rv, ok, result, out>>

\* A part of the reply arrives.
receive ==
    /\ pc = "receive" /\ incoming # << >>
    /\ \E n \in {Len(incoming)} \cup {Len(incoming) - d : d \in Pieces} :
          /\ n \in 1 .. Len(incoming)
          /\ final_buffer' = final_buffer \o SubSeq(incoming, 1, n)
          /\ incoming' = SubSeq(incoming, n + 1, Len(incoming))
    /\ pc' = IF LineEnds(final_buffer') THEN "parse" ELSE "receive"
    /\ UNCHANGED <<extra, given, call, tries, sent, reply, left, rv, ok, result, out>>

Parsed ==
    IF Terminated(final_buffer)
    THEN mfs_tracker_parse_response(Unterminated(final_buffer), result)
    ELSE Invalid(result)

parse ==
    /\ pc = "parse"
    /\ LET p == Parsed
       IN  /\ rv' = p.rv /\ result' = p.result
           /\ ok' = IF p.ok = NULL THEN ok ELSE p.ok
           /\ pc' = IF p.rv = "SUCCESS" THEN "finish" ELSE "request"
    /\ UNCHANGED <<extra, given, call, tries, attemptVars, left, out>>
-------------------------------------------------------------------------------
(* The tracker, external.                                                    *)

\* The pairs of a complete OK reply.  Counts may be zero, valid, too large, or
\* no number in the form the commands expect.
Counts == {<<"0">>, <<"1">>, <<"2">>, <<"3">>, <<"0", "0">>, <<"x">>}

FileNode(prefix, type) ==
    LET Field(name, value) == <<prefix \o <<name>>, value>>
    IN  <<Field("mtime", <<"1", "2">>), Field("nid", <<"4">>), Field("type", type),
          Field("link", <<"l", "SP">>), Field("size", <<"9">>)>>

NodeTypes == {<<"D">>, <<"L">>, <<"F">>, << >>}
TypePairs == {<< <<"D">>, <<"L">> >>, << <<"L">>, <<"F">> >>, << <<"F">>, << >> >>}

CompletePairs(cmd) ==
    CASE cmd = "get_paths" ->
            {<<P("paths", n), << <<"path", "1">>, <<"u", "&">> >>,
               << <<"path", "2">>, <<"%", "SP">> >> >> : n \in Counts}
      [] cmd = "plugin_filepaths_create_node" -> {<<P("nid", <<"4">>)>>}
      [] cmd = "plugin_filepaths_list_directory" ->
            {<<P("files", n), << <<"file", "0">>, <<"a", "=">> >> >>
                \o FileNode(<<"file", "0", ".">>, t[1])
                \o << << <<"file", "1">>, <<"b">> >> >>
                \o FileNode(<<"file", "1", ".">>, t[2]) :
                n \in Counts, t \in TypePairs}
      [] cmd = "plugin_filepaths_path_info" -> {FileNode(<< >>, t) : t \in NodeTypes}
      [] cmd = "plugin_filepaths_stats" -> {<<P("mb_total", <<"8">>), P("mb_used", <<"5">>)>>}
      [] cmd = "plugin_filepaths_check_fs" -> {<<P("fixed", <<"1">>), P("total", <<"6">>)>>}
      [] OTHER -> {<< >>}

\* A tracker of another version may leave out a pair.
OkPairs(cmd) ==
    UNION {{p} \cup {RemoveAt(p, i) : i \in DOMAIN p} : p \in CompletePairs(cmd)}

Joined(pairs) ==
    FlattenSeq([i \in DOMAIN pairs |->
        (IF i > 1 THEN <<"&">> ELSE << >>)
            \o pairs[i][1] \o <<"=">> \o mfs_tracker_url_encode(pairs[i][2])])

ErrorCodes == {"unknown_key", "path_not_found", "directory_not_empty", "failed"}

\* An OK reply with or without a number after OK, and an ERR reply.
Numbers == {<< >>, <<"7", "SP">>}
OkLine(number, pairs) == <<"OK", "SP">> \o number \o Joined(pairs) \o <<"CR", "LF">>
ErrLine(code) == <<"ERR", "SP", code, "SP", "w", "+", "CR", "LF">>
ErrDesc == P("ERROR_DESC", <<"w", "SP">>)

GoodReplies(cmd) ==
    {[kind |-> "ok", pairs |-> p, line |-> OkLine(f, p)] :
        p \in OkPairs(cmd), f \in Numbers}
    \cup
    {[kind |-> "err", pairs |-> <<P("ERROR_CODE", <<e>>), ErrDesc>>, line |-> ErrLine(e)] :
        e \in ErrorCodes}

\* Replies of something that is not a tracker, or is one that broke off: no
\* "=" in a pair, no CR, no description after an error code, another start.
BadLines(cmd) ==
    {<<"OK", "SP">> \o Joined(p) \o <<"&", "x", "CR", "LF">> :
        p \in {q \in UNION {Prefixes(c) : c \in CompletePairs(cmd)} : Len(q) <= MaxLeft}}
    \cup {<<"OK", "SP", "x", "=", "LF">>, <<"ERR", "SP", "failed", "CR", "LF">>,
          <<"HELLO", "CR", "LF">>}

Answers ==
    [cmd \in {c.cmd : c \in Calls} |->
        GoodReplies(cmd)
            \cup {[kind |-> "bad", pairs |-> << >>, line |-> l] : l \in BadLines(cmd)}]

\* NULL is no truth value, no string of a reply and no reply.
ASSUME NullAssumption ==
    /\ NULL \notin BOOLEAN /\ NULL \notin {<<e>> : e \in ErrorCodes}
    /\ \A c \in Calls :
          /\ NULL \notin Answers[c.cmd]
          /\ \A p \in CompletePairs(c.cmd) : \A i \in DOMAIN p : p[i][2] # NULL

WholeLine(line) == line[Len(line)] = "LF"

\* The tracker acts on a whole line, and answers once.
answer ==
    /\ pc = "receive" /\ WholeLine(sent) /\ reply = NULL
    /\ \E a \in Answers[call.cmd] : reply' = a /\ incoming' = a.line
    /\ UNCHANGED <<pc, extra, given, call, tries, sent, final_buffer, left, rv, ok, result, out>>
-------------------------------------------------------------------------------
(* What the commands make of a reply: a status and the outputs they assign.  *)

apr_time_from_sec(n) == 1000000 * n

Returned(status, outputs) == [rv |-> status, out |-> outputs]
Failed(status) == Returned(status, EmptyHash)

\* Mutant: the result of strcmp is not compared with 0.
ErrorStatusOther(codes, status) ==
    LET code == apr_hash_get(result, <<"ERROR_CODE">>)
    IN  CASE code = NULL -> "CRASH"
          [] code # NULL /\ code \in {<<c>> : c \in codes} -> "EGENERAL"
          [] OTHER -> status

\* The status for an ERR reply; strcmp with NULL does not return.
ErrorStatus(codes, status) ==
    LET code == apr_hash_get(result, <<"ERROR_CODE">>)
    IN  CASE code = NULL -> "CRASH"
          [] code # NULL /\ code \in {<<c>> : c \in codes} -> status
          [] OTHER -> "EGENERAL"

PathAt(pos) == apr_hash_get(result, <<"path">> \o Decimal(pos))

\* Mutant: the outputs are assigned although a path is missing.
get_paths_reply_unchecked ==
    LET count == apr_hash_get(result, <<"paths">>)
        n == Number(count, 0)
    IN  IF ~ok THEN Failed(ErrorStatus({"unknown_key"}, "EBADPATH"))
        ELSE IF n \in 1 .. MAX_ALLOWED_PATHS - 1
        THEN Returned(IF \E pos \in 1 .. n : PathAt(pos) = NULL THEN "EGENERAL" ELSE "SUCCESS",
                      [paths |-> [pos \in 1 .. n |-> PathAt(pos)], path_count |-> n])
        ELSE Failed("EGENERAL")

get_paths_reply ==
    LET count == apr_hash_get(result, <<"paths">>)
        n == Number(count, 0)
    IN  IF ~ok THEN Failed(ErrorStatus({"unknown_key"}, "EBADPATH"))
        ELSE CASE n \in 1 .. MAX_ALLOWED_PATHS - 1 ->
                    IF \E pos \in 1 .. n : PathAt(pos) = NULL THEN Failed("EGENERAL")
                    ELSE Returned("SUCCESS",
                            [paths |-> [pos \in 1 .. n |-> PathAt(pos)], path_count |-> n])
               [] n = 0 /\ count = <<"0">> -> Returned("EGENERAL", [path_count |-> 0])
               [] OTHER -> Failed("EGENERAL")

\* Commands with nothing to read from an OK reply.
plain_reply == Failed(IF ok THEN "SUCCESS" ELSE "EGENERAL")

delete_node_reply ==
    Failed(IF ok THEN "SUCCESS"
           ELSE IF apr_hash_get(result, <<"ERROR_CODE">>) = <<"directory_not_empty">>
           THEN "ENOTEMPTY" ELSE "EGENERAL")

\* The nid is read after an ERR reply too.  wanted: server_id is not NULL.
create_node_reply(wanted) ==
    LET nid == apr_hash_get(result, <<"nid">>)
    IN  Returned(IF ok THEN "SUCCESS" ELSE "EGENERAL",
                 IF wanted /\ nid # NULL THEN [server_id |-> atoi(nid)] ELSE EmptyHash)

\* The type of an entry by the first character, if there is one.
TypeOf(type) ==
    CASE type # << >> /\ type[1] = "D" -> "TYPE_DIRECTORY"
      [] type # << >> /\ type[1] = "L" -> "TYPE_SYMLINK"
      [] OTHER -> "TYPE_FILE"

\* An entry of a listing lacks a pair it cannot do without.
EntryMissing(pos) ==
    LET name == <<"file">> \o Decimal(pos)
        Get(field) == apr_hash_get(result, name \o <<".", field>>)
    IN  \/ apr_hash_get(result, name) = NULL \/ Get("type") = NULL
        \/ TypeOf(Get("type")) = "TYPE_SYMLINK" /\ Get("link") = NULL

EntryAt(pos) ==
    LET name == <<"file">> \o Decimal(pos)
        Get(field) == apr_hash_get(result, name \o <<".", field>>)
        type == TypeOf(Get("type"))
    IN  [name |-> apr_hash_get(result, name), type |-> type,
         mtime |-> apr_time_from_sec(Number(Get("mtime"), 0)),
         server_id |-> Number(Get("nid"), -1),
         link |-> IF type = "TYPE_SYMLINK" THEN Get("link") ELSE NULL,
         size |-> IF type = "TYPE_FILE" THEN Number(Get("size"), 0) ELSE 0]

\* entries[0] is written filepath_entries[1].
list_directory_reply ==
    LET count == apr_hash_get(result, <<"files">>)
        n == Number(count, 0)
    IN  IF ~ok THEN Failed(ErrorStatus({"unknown_key"}, "EBADPATH"))
        ELSE CASE n \in 1 .. MAX_ALLOWED_DIRECTORY_ENTRIES - 1 ->
                    IF \E pos \in 0 .. n - 1 : EntryMissing(pos) THEN Failed("EGENERAL")
                    ELSE Returned("SUCCESS",
                            [filepath_entries |-> [i \in 1 .. n |-> EntryAt(i - 1)],
                             child_count |-> n])
               [] n = 0 /\ count = <<"0">> -> Returned("SUCCESS", [child_count |-> 0])
               [] OTHER -> Failed("EGENERAL")

\* The outputs with one more assigned.
Also(outputs, name, value) ==
    [n \in DOMAIN outputs \cup {name} |-> IF n = name THEN value ELSE outputs[n]]

\* The caller's entry is filled in place, up to the pair that is missing.
path_info_reply ==
    LET Get(field) == apr_hash_get(result, <<field>>)
        type == Get("type")
        begun == [name |-> NULL, mtime |-> apr_time_from_sec(Number(Get("mtime"), 0)),
                  server_id |-> Number(Get("nid"), -1)]
        typed == Also(begun, "type", TypeOf(type))
    IN  IF ~ok THEN Failed(ErrorStatus({"path_not_found", "unknown_key"}, "EBADPATH"))
        ELSE IF type = NULL THEN Returned("EGENERAL", begun)
        ELSE CASE TypeOf(type) = "TYPE_DIRECTORY" -> Returned("SUCCESS", typed)
               [] TypeOf(type) = "TYPE_SYMLINK" ->
                    Returned(IF Get("link") = NULL THEN "EGENERAL" ELSE "SUCCESS",
                             Also(typed, "link", Get("link")))
               [] OTHER -> Returned("SUCCESS", Also(typed, "size", Number(Get("size"), 0)))

\* Both are assigned after an ERR reply too.
stats_reply ==
    Returned(IF ok THEN "SUCCESS" ELSE "EGENERAL",
             [total_mb |-> Number(apr_hash_get(result, <<"mb_total">>), 0),
              used_mb |-> Number(apr_hash_get(result, <<"mb_used">>), 0)])

check_fs_reply ==
    Returned(IF ok THEN "SUCCESS" ELSE "EGENERAL",
             [fixed |-> Number(apr_hash_get(result, <<"fixed">>), -1),
              total |-> Number(apr_hash_get(result, <<"total">>), -1)])

Finish(cmds, answered) ==
    /\ pc = "finish" /\ call.cmd \in cmds
    /\ rv' = answered.rv /\ out' = answered.out
    /\ pc' = "done"
    /\ UNCHANGED <<extra, given, call, tries, attemptVars, left, ok, result>>

PlainCommands == {"create_open", "delete", "sleep", "rename", "plugin_filepaths_rename",
                  "plugin_filepaths_set_mtime"}

finish_get_paths == Finish({"get_paths"}, get_paths_reply)
finish_plain == Finish(PlainCommands, plain_reply)
finish_delete_node == Finish({"plugin_filepaths_delete_node"}, delete_node_reply)
finish_create_node ==
    \E wanted \in BOOLEAN : Finish({"plugin_filepaths_create_node"}, create_node_reply(wanted))
finish_list_directory == Finish({"plugin_filepaths_list_directory"}, list_directory_reply)
finish_path_info == Finish({"plugin_filepaths_path_info"}, path_info_reply)
finish_stats == Finish({"plugin_filepaths_stats"}, stats_reply)
finish_check_fs == Finish({"plugin_filepaths_check_fs"}, check_fs_reply)

\* Every command returns the status of a request that failed, and assigns nothing.
return_failure ==
    /\ pc = "failed"
    /\ pc' = "done"
    /\ UNCHANGED <<extra, given, call, tries, attemptVars, left, rv, ok, result, out>>

returned == pc = "done" /\ UNCHANGED vars

Next ==
    \/ \E k \in Keys, m \in BOOLEAN : add_extra(k, k, m)
    \/ \E c \in Calls : begin(c)
    \/ no_connection \/ send_request \/ socket_error \/ answer \/ receive \/ parse
    \/ finish_get_paths \/ finish_plain \/ finish_delete_node \/ finish_create_node
    \/ finish_list_directory \/ finish_path_info \/ finish_stats \/ finish_check_fs
    \/ return_failure \/ returned

Spec == Init /\ [][Next]_vars
-------------------------------------------------------------------------------
Statuses == {"SUCCESS", "EGENERAL", "EBADPATH", "ENOTEMPTY", "EFTYPE", "EIO",
             "ECONNREFUSED", "CRASH"}

TypeOK ==
    /\ pc \in {"calling", "request", "receive", "parse", "finish", "failed", "done"}
    /\ Len(given) <= MaxExtra /\ extra.count = Len(given)
    /\ call = NULL \/ call \in Calls
    /\ tries \in 0 .. MaxTries
    /\ rv \in Statuses
    /\ ok \in BOOLEAN \/ ok = NULL
    /\ final_buffer # << >> => final_buffer \o incoming = reply.line

\* The pairs a tracker reads from a request line.
PairsOf(line) ==
    LET parts == strtok(SubSeq(line, 3, Len(line) - 2))
    IN  [i \in DOMAIN parts |->
            <<mfs_tracker_url_decode(KeyOf(parts[i])), mfs_tracker_url_decode(ValueOf(parts[i]))>>]

\* The metadata pairs among the first n the caller added.
Metas(n) == Cardinality({i \in 1 .. n : given[i][3]})

\* What the tracker should read for the caller's i-th.
Named(i) ==
    IF given[i][3]
    THEN << <<MetaName("key", Metas(i - 1)), given[i][1]>>,
            <<MetaName("value", Metas(i - 1)), given[i][2]>> >>
    ELSE << <<given[i][1], given[i][2]>> >>

\* The pairs it should read: the number of metadata pairs, what the caller added
\* in its order, metadata numbered from zero, and the command's own.
Wanted ==
    (IF Metas(Len(given)) = 0 THEN << >>
     ELSE << << <<"plugin.meta.", "keys">>, Decimal(Metas(Len(given)))>> >>)
        \o FlattenSeq([i \in DOMAIN given |-> Named(i)]) \o call.pairs

\* Whatever characters the arguments hold, a tracker that gets a whole line reads
\* from it the command and exactly the pairs the caller meant, and the line fills
\* the buffer that mfs_tracker_build_request allocated for it to the last byte
\* (tracker.c:273-283): lengths are counted apart from the strings they belong to.
RequestExact ==
    pc = "receive" /\ reply = NULL =>
        /\ Len(Request.request) = Request.size
        /\ WholeLine(sent) => sent[1] = call.cmd /\ PairsOf(sent) = Wanted

\* What a reply says of each key: the last pair with that key counts.
HashOf(pairs) ==
    [k \in {pairs[i][1] : i \in DOMAIN pairs} |->
        pairs[Max({i \in DOMAIN pairs : pairs[i][1] = k})][2]]

\* However a reply was cut into pieces (tracker.c:171-206), the hash a command
\* reads holds every pair of that reply, decoded, and besides them only what a
\* broken reply of an earlier attempt left there; a broken reply is never read.
ReplyDecoded ==
    pc = "finish" =>
        /\ reply.kind # "bad"
        /\ ok = (reply.kind = "ok")
        /\ LET said == HashOf(reply.pairs)
           IN  /\ DOMAIN result = DOMAIN said \cup DOMAIN left
               /\ \A k \in DOMAIN result :
                     result[k] = IF k \in DOMAIN said THEN said[k] ELSE left[k]
        /\ (\A k \in DOMAIN left : left[k] # NULL) /\ (tries = 1 => left = EmptyHash)

ErrorCode == HashOf(reply.pairs)[<<"ERROR_CODE">>]

\* What a status tells the caller: success that the tracker said OK, a status of
\* its own that the tracker said that error and no other, and every other error
\* is APR_EGENERAL; comparing error codes never meets NULL (file.c:231, 289, 566,
\* 633), because every ERR reply that is accepted sets one.
StatusFaithful ==
    pc = "done" =>
        /\ rv # "CRASH"
        /\ rv = "SUCCESS" => reply.kind = "ok"
        /\ rv = "EBADPATH" <=>
              /\ ok = FALSE
              /\ \/ call.cmd \in {"get_paths", "plugin_filepaths_list_directory",
                                  "plugin_filepaths_path_info"} /\ ErrorCode = <<"unknown_key">>
                 \/ call.cmd = "plugin_filepaths_path_info" /\ ErrorCode = <<"path_not_found">>
        /\ rv = "ENOTEMPTY" <=>
              /\ ok = FALSE /\ call.cmd = "plugin_filepaths_delete_node"
              /\ ErrorCode = <<"directory_not_empty">>

\* A string given to the caller is the one of the tracker's reply, if that has one.
Agrees(value, key) ==
    value # NULL /\ apr_hash_get(HashOf(reply.pairs), key) \in {value, NULL}

PathsComplete ==
    /\ Len(out.paths) = out.path_count
    /\ out.path_count \in 1 .. MAX_ALLOWED_PATHS - 1
    /\ \A i \in DOMAIN out.paths : Agrees(out.paths[i], <<"path">> \o Decimal(i))

EntriesComplete ==
    out.child_count # 0 =>
        /\ Len(out.filepath_entries) = out.child_count
        /\ out.child_count < MAX_ALLOWED_DIRECTORY_ENTRIES
        /\ \A i \in DOMAIN out.filepath_entries :
              LET e == out.filepath_entries[i]
                  name == <<"file">> \o Decimal(i - 1)
              IN  /\ Agrees(e.name, name)
                  /\ e.type = "TYPE_SYMLINK" => Agrees(e.link, name \o <<".", "link">>)

\* A command that succeeds gives the caller a list with as many entries as it
\* says, fewer than allowed, none of them without a path, name or link target, and
\* with the strings of the tracker's reply wherever that reply had them.
ResultComplete ==
    pc = "done" /\ rv = "SUCCESS" =>
        /\ call.cmd = "get_paths" => PathsComplete
        /\ call.cmd = "plugin_filepaths_list_directory" => EntriesComplete
        /\ call.cmd = "plugin_filepaths_path_info" /\ out.type = "TYPE_SYMLINK" =>
              Agrees(out.link, <<"link">>)

\* A command that fails assigns no list: neither a pointer without its count nor
\* a list with a hole in it reaches the caller.  A request that got no answer
\* assigns nothing at all.
ListsAllOrNothing ==
    pc = "done" /\ rv # "SUCCESS" =>
        /\ {"paths", "filepath_entries", "child_count"} \cap DOMAIN out = {}
        /\ "path_count" \in DOMAIN out => out.path_count = 0
        /\ rv \notin {"EGENERAL", "EBADPATH", "ENOTEMPTY"} => out = EmptyHash

\* What a caller finds in its output variables is whole or untouched: complete
\* lists after a success, none after a failure (file.c:197-239, 484-574, 590-645).
OutputsWhole == ResultComplete /\ ListsAllOrNothing
================================================================================
