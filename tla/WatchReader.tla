------------------------------ MODULE WatchReader ------------------------------
(*****************************************************************************)
(* Watching a tracker's events (src/src/watch.c): a thread calls             *)
(* get_next_watch_line or get_next_watch_cache_line again and again, and     *)
(* another one stops and enables watching.                                   *)
(*                                                                           *)
(* Bytes are numbers.  The marker "[cache][" is the two bytes 1 and 2, the   *)
(* client's own id, with the "] " after it, is 3, any other id is 4, and     *)
(* 100 + n is a byte of the n-th line that the tracker sends.  The tracker   *)
(* is external: it ends each line with CR LF, and apr_socket_recv returns    *)
(* bytes of the stream up to any point.                                      *)
(*****************************************************************************)
EXTENDS Naturals, Sequences, FiniteSetsExt

CONSTANTS
    Apis,       \* functions the thread may call; "cache" calls "line" for each line
    Lines,      \* lines the tracker has to send
    BufSize,    \* sizeof(read_buf)
    BufLen,     \* len, the size of the caller's buffer
    MaxStops,   \* calls of stop_watching
    MaxBreaks   \* failures to connect and connections broken by the network

NUL == 0
LF == 10
CR == 13
Payload(n) == 100 + n
Byte == {NUL, LF, CR, 1, 2, 3, 4} \cup {Payload(n) : n \in 1 .. Lines}
Kinds == {"own", "other", "event", "long"}

ASSUME ApisAssumption == Apis \subseteq {"line", "cache"}
ASSUME SizesAssumption ==
    /\ Lines \in Nat /\ BufSize \in Nat \ {0} /\ BufLen \in Nat \ {0}
    /\ MaxStops \in Nat /\ MaxBreaks \in Nat

VARIABLES
    script,         \* the kinds of the lines the tracker sends
    off,            \* bytes of the stream that were received or lost
    received,       \* lines of which the last byte was received
    last,           \* history: the byte of the stream that was received last
    split,          \* history: a recv has ended within a line
    allow_watching,
    stops, breaks,  \* stops and network failures so far
    api,            \* "line" or "cache": which function the thread calls
    pc,
    connection,     \* watch->connection is not NULL
    read_buf,       \* watch->read_buf, and the byte that follows it in memory
    buf_pointer,    \* as an index into read_buf
    cnt,
    buf,            \* bytes stored in the caller's buffer by sock_readline
    got             \* what the calls gave their caller

streamVars == <<script, off, received, last, split>>
watchVars == <<connection, read_buf, buf_pointer, cnt>>
flagVars == <<allow_watching, stops, breaks, api>>
vars == <<streamVars, flagVars, pc, watchVars, buf, got>>

\* The text of line n.
Text(n) ==
    CASE script[n] = "own"   -> <<1, 2, 3, Payload(n)>>
      [] script[n] = "other" -> <<1, 2, 4, Payload(n)>>
      [] script[n] = "event" -> <<Payload(n)>>
      [] script[n] = "long"  -> [k \in 1 .. BufLen - 2 |-> Payload(n)]

\* What the tracker has sent with line n, all that it sends, and where line n ends.
Sent[n \in 0 .. Lines] == IF n = 0 THEN <<>> ELSE Sent[n - 1] \o Text(n) \o <<CR, LF>>
Stream == Sent[Lines]
End(n) == Len(Sent[n])

Init ==
    /\ script \in [1 .. Lines -> Kinds]
    /\ off = 0 /\ received = {} /\ last = 0 /\ split = FALSE
    /\ allow_watching = TRUE /\ stops = 0 /\ breaks = 0
    /\ api \in Apis
    /\ pc = "idle"
    /\ connection = FALSE
    /\ read_buf = [k \in 0 .. BufSize |-> NUL]
    /\ buf_pointer = 0 /\ cnt = 0
    /\ buf = <<>> /\ got = <<>>
-------------------------------------------------------------------------------
(* The other thread.                                                         *)

stop_watching ==
    /\ stops < MaxStops
    /\ allow_watching' = FALSE /\ stops' = stops + 1
    /\ UNCHANGED <<streamVars, breaks, api, pc, watchVars, buf, got>>

enable_watching ==
    /\ ~allow_watching
    /\ allow_watching' = TRUE
    /\ UNCHANGED <<streamVars, stops, breaks, api, pc, watchVars, buf, got>>
-------------------------------------------------------------------------------
(* get_next_watch_line and get_next_watch_cache_line.                        *)

call ==
    /\ pc = "idle"
    /\ pc' = "top"
    /\ UNCHANGED <<streamVars, flagVars, watchVars, buf, got>>

\* Watching is stopped: both loops end, with APR_EGENERAL.
stopped ==
    /\ pc = "top" /\ ~allow_watching
    /\ pc' = "idle"
    /\ UNCHANGED <<streamVars, flagVars, watchVars, buf, got>>

\* A connection is taken from the tracker's pool or made, and "!watch" is sent;
\* what the tracker reported in the meantime is lost.
connect ==
    /\ pc = "top" /\ allow_watching /\ ~connection
    /\ connection' = TRUE
    /\ off' \in {0} \cup {e \in 1 .. Len(Stream) : Stream[e] = LF} /\ off' >= off
    /\ pc' = "read" /\ buf' = <<>>
    /\ UNCHANGED <<script, received, last, split, flagVars, read_buf, buf_pointer, cnt, got>>

\* mfs_pool_get_connection returns NULL.
connect_fails ==
    /\ pc = "top" /\ allow_watching /\ ~connection
    /\ breaks < MaxBreaks /\ breaks' = breaks + 1
    /\ pc' = "sleep"
    /\ UNCHANGED <<streamVars, allow_watching, stops, api, watchVars, buf, got>>

\* The connection of an earlier call is used on.
reuse ==
    /\ pc = "top" /\ allow_watching /\ connection
    /\ pc' = "read" /\ buf' = <<>>
    /\ UNCHANGED <<streamVars, flagVars, watchVars, got>>

\* A second has passed.
wake ==
    /\ pc = "sleep"
    /\ pc' = "top"
    /\ UNCHANGED <<streamVars, flagVars, watchVars, buf, got>>
-------------------------------------------------------------------------------
(* sock_readline.                                                            *)

\* (--len > 0): there is room for another byte and a terminator.
Room == Len(buf) < BufLen - 1

\* The caller's buffer as a string: up to CR if the line ends with CR LF, and
\* to the first NUL.
AsString(b) ==
    LET n == Len(b)
        s == IF n > 1 /\ b[n - 1] = CR THEN SubSeq(b, 1, n - 2) ELSE b
        nuls == {k \in 1 .. Len(s) : s[k] = NUL}
    IN  IF nuls = {} THEN s ELSE SubSeq(s, 1, Min(nuls) - 1)

\* What get_next_watch_cache_line makes of a line: nothing, or a sequence of
\* the text after the id, if there is a marker and another client's id.
CacheLine(s) ==
    LET marks == {k \in 1 .. Len(s) - 1 : s[k] = 1 /\ s[k + 1] = 2}
        id == Min(marks) + 2
    IN  IF marks = {} \/ (id <= Len(s) /\ s[id] = 3) THEN <<>>
                                                     ELSE <<SubSeq(s, id + 1, Len(s))>>

\* Mutant: a NUL after the line is left for the next one.
TakeKeepingNul(b, p, c) ==
    /\ read_buf' = b /\ buf' = Append(buf, b[p])
    /\ buf_pointer' = p + 1 /\ cnt' = c
    /\ IF b[p] # LF THEN UNCHANGED <<pc, got>>
       ELSE LET out == IF api = "line" THEN <<AsString(buf')>>
                                       ELSE CacheLine(AsString(buf'))
            IN  got' = got \o out /\ pc' = IF out = <<>> THEN "top" ELSE "idle"

\* The byte at index p of buffer b is taken, c bytes being left.  At the end of
\* a line the bytes after it that are NUL are skipped and the line is returned,
\* or dropped by get_next_watch_cache_line, which then goes on.
Take(b, p, c) ==
    /\ read_buf' = b /\ buf' = Append(buf, b[p])
    /\ IF b[p] # LF
       THEN buf_pointer' = p + 1 /\ cnt' = c /\ UNCHANGED <<pc, got>>
       ELSE /\ \E skip \in 0 .. c :
                  /\ \A j \in 1 .. skip : b[p + j] = NUL
                  /\ skip < c => b[p + skip + 1] # NUL
                  /\ buf_pointer' = p + 1 + skip /\ cnt' = c - skip
            /\ LET out == IF api = "line" THEN <<AsString(buf')>>
                                          ELSE CacheLine(AsString(buf'))
               IN  got' = got \o out /\ pc' = IF out = <<>> THEN "top" ELSE "idle"

\* A byte is taken from the buffer, and counted.
read_buffered ==
    /\ pc = "read" /\ allow_watching /\ Room
    /\ cnt > 0
    /\ Take(read_buf, buf_pointer, cnt - 1)
    /\ UNCHANGED <<streamVars, flagVars, connection>>

\* apr_socket_recv gives the bytes of the stream up to e.
recv(e) ==
    /\ e - off <= BufSize
    /\ split' = (split \/ Stream[e] # LF)
    /\ off' = e /\ last' = e
    /\ received' = received \cup {n \in 1 .. Lines : End(n) \in off + 1 .. e}

\* read_buf after that; if it is full, the byte after it may be any, since it is
\* the first byte of buf_pointer.
Filled(e, beyond) ==
    LET bytes == SubSeq(Stream, off + 1, e) IN
    [k \in 0 .. BufSize |->
        IF k = BufSize /\ e - off = BufSize THEN beyond
        ELSE IF k < e - off THEN bytes[k + 1] ELSE read_buf[k]]

\* Mutant: the buffer pointer is not set back.
refill_behind ==
    /\ pc = "read" /\ allow_watching /\ Room
    /\ cnt = 0
    /\ \E e \in off + 1 .. Len(Stream) :
          /\ recv(e)
          /\ Take(Filled(e, NUL), IF buf_pointer < BufSize THEN buf_pointer ELSE 0, e - off)
    /\ UNCHANGED <<script, flagVars, connection>>

\* Mutant: a terminator is counted with the bytes received.
refill_counts_terminator ==
    /\ pc = "read" /\ allow_watching /\ Room
    /\ cnt = 0
    /\ \E e \in off + 1 .. Len(Stream) : recv(e) /\ Take(Filled(e, LF), 0, e - off + 1)
    /\ UNCHANGED <<script, flagVars, connection>>

\* The buffer is filled from the socket and its first byte is taken; cnt keeps
\* the number that was received, so that one byte more is read.
refill ==
    /\ pc = "read" /\ allow_watching /\ Room
    /\ cnt = 0
    /\ \E e \in off + 1 .. Len(Stream), beyond \in Byte :
          recv(e) /\ Take(Filled(e, beyond), 0, e - off)
    /\ UNCHANGED <<script, flagVars, connection>>

\* apr_socket_recv times out: the loop goes round.
timeout ==
    /\ pc = "read" /\ allow_watching /\ Room
    /\ cnt = 0
    /\ UNCHANGED vars

\* Mutant: a timeout does not look at allow_watching.
give_up_when_full ==
    /\ pc = "read" /\ ~Room
    /\ connection' = FALSE
    /\ pc' = "sleep"
    /\ UNCHANGED <<streamVars, flagVars, read_buf, buf_pointer, cnt, buf, got>>

\* sock_readline returns APR_ENOMEM: the caller's buffer is full, or watching
\* was stopped.  The connection is destroyed; the buffer is not emptied.
give_up ==
    /\ pc = "read" /\ (~allow_watching \/ ~Room)
    /\ connection' = FALSE
    /\ pc' = "sleep"
    /\ UNCHANGED <<streamVars, flagVars, read_buf, buf_pointer, cnt, buf, got>>

\* The connection is closed or fails, with nothing received.
recv_fails ==
    /\ pc = "read" /\ allow_watching /\ Room
    /\ cnt = 0
    /\ breaks < MaxBreaks /\ breaks' = breaks + 1
    /\ connection' = FALSE
    /\ pc' = "sleep"
    /\ UNCHANGED <<streamVars, allow_watching, stops, api, read_buf, buf_pointer, cnt,
                   buf, got>>

Reader ==
    \/ call \/ stopped \/ connect \/ connect_fails \/ reuse \/ wake
    \/ read_buffered \/ refill \/ timeout \/ give_up \/ recv_fails

Next == stop_watching \/ enable_watching \/ Reader

Spec == Init /\ [][Next]_vars

\* The watching thread runs: every recv has a timeout, a sleep takes a second.
FairSpec == Spec /\ WF_vars(Reader)
-------------------------------------------------------------------------------
TypeOK ==
    /\ script \in [1 .. Lines -> Kinds]
    /\ off \in Nat /\ received \subseteq 1 .. Lines
    /\ last \in Nat /\ split \in BOOLEAN
    /\ allow_watching \in BOOLEAN /\ stops \in 0 .. MaxStops /\ breaks \in 0 .. MaxBreaks
    /\ api \in Apis
    /\ pc \in {"idle", "top", "read", "sleep"}
    /\ connection \in BOOLEAN
    /\ read_buf \in [0 .. BufSize -> Byte]
    /\ buf_pointer \in 0 .. BufSize + 1 /\ cnt \in 0 .. BufSize
    /\ buf \in Seq(Byte) /\ got \in Seq(Seq(Byte))

\* The bytes that are counted lie in the buffer, or are the one byte after it:
\* never further, although the byte taken after a refill is not counted
\* (watch.c:65-83, a count one too high), whatever connections broke with
\* bytes left in the buffer.
ReadsAtMostOneBeyond == cnt > 0 => buf_pointer + cnt <= BufSize + 1

\* A line of any length is stored in the caller's buffer with its terminator
\* within its len bytes (watch.c:64, 85-93).
CallerBufferSafe == Len(buf) < BufLen

\* Neither buffer is read or written outside its bounds, but for that one byte
\* (watch.c:59-104).
BuffersSafe == ReadsAtMostOneBeyond /\ CallerBufferSafe

\* Wherever a recv ends, whatever connections broke and whatever calls were given
\* up: the bytes that are counted are the rest of what was received last, in its
\* order, and behind them a single byte that was not received (watch.c:65-98,
\* 120-124).
UnreadInOrder ==
    LET sent == Stream IN
    \A t \in 1 .. cnt - 1 : read_buf[buf_pointer + t - 1] = sent[last - cnt + 1 + t]

\* The cache lines that get_next_watch_cache_line gives its caller are other
\* clients' lines that the tracker sent, unchanged, in their order and each
\* once: the stale byte that is read after each recv (watch.c:65-83) and the
\* rest of a line whose connection was given up (watch.c:120-124) never reach
\* the caller.
CacheLinesGenuine ==
    api = "cache" =>
        /\ \A k \in 1 .. Len(got) :
              \E n \in received : script[n] = "other" /\ got[k] = <<Payload(n)>>
        /\ \A j, k \in 1 .. Len(got) : j < k => got[j][1] < got[k][1]

\* And none is missing: when the reader waits for more, with watching never
\* stopped, it has delivered every cache line of another client that came in
\* on any of its connections.
CacheLinesComplete ==
    (api = "cache" /\ stops = 0 /\ pc = "read" /\ cnt = 0) =>
        \A n \in received :
            script[n] = "other" => \E k \in 1 .. Len(got) : got[k] = <<Payload(n)>>

\* The caller of get_next_watch_cache_line gets the cache lines of other clients,
\* all of those received and nothing else, across broken connections, up to the
\* first recv that ends within a line (watch.c:95-98, 120-124, 137-158).
CacheLinesExact == ~split => CacheLinesGenuine /\ CacheLinesComplete

\* get_next_watch_line gives a line as it was sent, without its CR LF, as
\* tests/test_watch.c:45-53 asserts of two lines that arrive in one piece.
LinesIntact ==
    (api = "line" /\ stops = 0 /\ \A n \in 1 .. Lines : script[n] # "long") =>
        \A k \in 1 .. Len(got) : \E n \in received : got[k] = Text(n)

\* With watching stopped, a call returns unless watching is enabled again,
\* wherever the reader was: connecting, waiting, in the middle of a line, or
\* asleep.
StopEndsCall ==
    (~allow_watching /\ pc # "idle") ~> (allow_watching \/ pc = "idle")
================================================================================
