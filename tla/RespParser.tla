---------------------------- MODULE RespParser -----------------------------
(***************************************************************************)
(* resp/parser.rs: the request parser, a state machine that resumes in the *)
(* middle of a frame from offsets it recorded.  Offsets are 0-based from   *)
(* the start of the read buffer, which is the start of the frame; bytes    *)
(* are ASCII codes.  The connection reads any number of bytes at a time    *)
(* and then calls parse until it is Incomplete (conn.rs execute_batch).    *)
(***************************************************************************)
EXTENDS StrNum

CONSTANTS
  INLINE_MAX_SIZE,   \* 64 KB
  MULTIBULK_MAX,     \* 1024 * 1024
  ProtoMaxBulkLen,   \* proto-max-bulk-len
  RequestStreams     \* [bytes, expect]: what a client sends, what it stands for

VARIABLES
  stream,    \* the member of RequestStreams this client sends
  arrived,   \* how many of its bytes have been read
  rbuf,      \* the read buffer: bytes read and not consumed
  pstate,    \* State
  ranges,    \* (start, end) of the arguments of the frame so far
  parsed,    \* what parse returned so far, Incomplete left out
  phase      \* "parse", "read" (it was Incomplete), "closed" (it failed)

parserVars == <<stream, arrived, rbuf, pstate, ranges, parsed, phase>>

CR == 13
LF == 10
Star == 42
Dollar == 36
DQuote == 34
SQuote == 39
Backslash == 92

Blank(c) == c \in {32, 9, 10, 12, 13}   \* is_ascii_whitespace

Start == [at |-> "Start"]
MbulkHeader(scanned) == [at |-> "MbulkHeader", scanned |-> scanned]
BulkHeader(pos, remaining, scanned) ==
  [at |-> "BulkHeader", pos |-> pos, remaining |-> remaining, scanned |-> scanned]
BulkBody(start, len, remaining) ==
  [at |-> "BulkBody", start |-> start, len |-> len, remaining |-> remaining]
Inline(scanned) == [at |-> "Inline", scanned |-> scanned]

Command(args) == [is |-> "Command", args |-> args]
Empty == [is |-> "Empty"]
ProtoError(e) == [is |-> "Error", error |-> e]

(* -?[0-9]+, leading zeros allowed; Nil on garbage or overflow.            *)
parse_i64_strict(s) ==
  LET negative == s # <<>> /\ s[1] = Minus
      digits == IF negative THEN Tail(s) ELSE s
      v == ParseDigits(digits)
  IN IF digits = <<>> THEN Nil
     ELSE IF v = Nil THEN Nil
     ELSE IF v > I64Max THEN Nil
     ELSE IF negative THEN -v ELSE v

(* A plausible slip: a CR that is the last byte read is not looked at      *)
(* again.                                                                  *)
line_end_skips(b, from, scanned) ==
  LET first == IF scanned > from THEN scanned ELSE from
      crs == {i \in first .. Len(b) - 1 : b[i + 1] = CR}
      cr == Seqs!Min(crs)
  IN IF crs = {} \/ cr + 1 = Len(b) THEN [line |-> "Incomplete", next |-> Len(b)]
     ELSE IF b[cr + 2] # LF THEN [line |-> "Malformed"]
     ELSE [line |-> "Found", text |-> SubSeq(b, from + 1, cr), next |-> cr + 2]

(* The CR LF closing the header line at `from`, looked for from `scanned`. *)
line_end(b, from, scanned) ==
  LET first == IF scanned > from THEN scanned ELSE from
      crs == {i \in first .. Len(b) - 1 : b[i + 1] = CR}
      cr == Seqs!Min(crs)
  IN IF crs = {} THEN [line |-> "Incomplete", next |-> Len(b)]
     ELSE IF cr + 1 = Len(b) THEN [line |-> "Incomplete", next |-> cr]
     ELSE IF b[cr + 2] # LF THEN [line |-> "Malformed"]
     ELSE [line |-> "Found", text |-> SubSeq(b, from + 1, cr), next |-> cr + 2]

hex_val(c) ==
  CASE c \in 48 .. 57  -> c - 48
    [] c \in 97 .. 102 -> c - 87
    [] c \in 65 .. 70  -> c - 55
    [] OTHER           -> Nil

Unescape(c) ==
  CASE c = 110 -> LF [] c = 114 -> CR [] c = 116 -> 9
    [] c = 98 -> 8 [] c = 97 -> 7 [] OTHER -> c

(* The arguments of an inline line, or Nil when its quotes do not balance. *)
split_inline(line) ==
  LET n == Len(line)
      get(i) == IF i < n THEN line[i + 1] ELSE Nil
      push(c, rest) == IF rest = Nil THEN Nil ELSE [rest EXCEPT !.arg = <<c>> \o @]
      \* the closing quote at i: a blank or the end must follow
      closed(i) == IF i + 1 < n /\ ~Blank(get(i + 1)) THEN Nil
                   ELSE [arg |-> <<>>, next |-> i + 1]
      isHex(i) == /\ get(i + 1) = 120 /\ i + 3 < n
                  /\ hex_val(get(i + 2)) # Nil /\ hex_val(get(i + 3)) # Nil
      double[i \in 0 .. n] ==
        IF i = n THEN Nil
        ELSE IF get(i) = DQuote THEN closed(i)
        ELSE IF get(i) # Backslash THEN push(get(i), double[i + 1])
        ELSE IF i + 1 = n THEN Nil
        ELSE IF isHex(i)
        THEN push(16 * hex_val(get(i + 2)) + hex_val(get(i + 3)), double[i + 4])
        ELSE push(Unescape(get(i + 1)), double[i + 2])
      single[i \in 0 .. n] ==
        IF i = n THEN Nil
        ELSE IF get(i) = Backslash /\ get(i + 1) = SQuote THEN push(SQuote, single[i + 2])
        ELSE IF get(i) = SQuote THEN closed(i)
        ELSE push(get(i), single[i + 1])
      bare[i \in 0 .. n] ==
        IF i = n \/ Blank(get(i)) THEN [arg |-> <<>>, next |-> i]
        ELSE push(get(i), bare[i + 1])
      args[i \in 0 .. n] ==
        IF i = n THEN <<>>
        ELSE IF Blank(get(i)) THEN args[i + 1]
        ELSE LET a == CASE get(i) = DQuote -> double[i + 1]
                        [] get(i) = SQuote -> single[i + 1]
                        [] OTHER -> bare[i]
             IN IF a = Nil THEN Nil
                ELSE IF args[a.next] = Nil THEN Nil
                ELSE <<a.arg>> \o args[a.next]
  IN args[0]
-----------------------------------------------------------------------------
(* The ways out of one turn of the loop of parse.                          *)
Go(st) ==
  /\ pstate' = st
  /\ UNCHANGED <<rbuf, ranges, parsed, phase>>
Incomplete(st) ==
  /\ pstate' = st
  /\ phase' = "read"
  /\ UNCHANGED <<rbuf, ranges, parsed>>
Fail(e) ==
  /\ parsed' = Append(parsed, ProtoError(e))
  /\ phase' = "closed"
  /\ UNCHANGED <<rbuf, pstate, ranges>>

(* split_to(n) and reset.                                                  *)
Consume(n) ==
  /\ rbuf' = SubSeq(rbuf, n + 1, Len(rbuf))
  /\ pstate' = Start
  /\ ranges' = <<>>
Yield(out, n) ==
  /\ Consume(n)
  /\ parsed' = Append(parsed, out)
  /\ UNCHANGED phase

parserInit ==
  /\ stream \in RequestStreams
  /\ arrived = 0 /\ rbuf = <<>>
  /\ pstate = Start /\ ranges = <<>>
  /\ parsed = <<>> /\ phase = "read"

(* read_buf: some bytes, as many as the kernel has.                        *)
ParserRead(n) ==
  /\ phase = "read"
  /\ arrived + n <= Len(stream.bytes)
  /\ arrived' = arrived + n
  /\ rbuf' = rbuf \o SubSeq(stream.bytes, arrived + 1, arrived + n)
  /\ phase' = "parse"
  /\ UNCHANGED <<stream, pstate, ranges, parsed>>

ParseStart ==
  /\ pstate.at = "Start"
  /\ IF rbuf = <<>> THEN Incomplete(Start)
     ELSE IF rbuf[1] = Star THEN Go(MbulkHeader(1)) ELSE Go(Inline(0))

ParseMbulkHeader ==
  /\ pstate.at = "MbulkHeader"
  /\ LET l == line_end(rbuf, 1, pstate.scanned)
         count == parse_i64_strict(l.text)
     IN CASE l.line = "Incomplete" ->
               IF Len(rbuf) > INLINE_MAX_SIZE THEN Fail("TooBigMbulkCount")
               ELSE Incomplete(MbulkHeader(l.next))
          [] l.line = "Malformed" -> Fail("InvalidMultibulkLength")
          [] OTHER ->
               IF count = Nil THEN Fail("InvalidMultibulkLength")
               ELSE IF count > MULTIBULK_MAX THEN Fail("InvalidMultibulkLength")
               ELSE IF count <= 0 THEN Yield(Empty, l.next)
               ELSE /\ ranges' = <<>>
                    /\ pstate' = BulkHeader(l.next, count, l.next)
                    /\ UNCHANGED <<rbuf, parsed, phase>>

ParseBulkHeader ==
  /\ pstate.at = "BulkHeader"
  /\ LET pos == pstate.pos
         l == line_end(rbuf, pos + 1, pstate.scanned)
         len == parse_i64_strict(l.text)
     IN IF pos >= Len(rbuf) THEN Incomplete(pstate)
        ELSE IF rbuf[pos + 1] # Dollar THEN Fail("ExpectedDollar")
        ELSE CASE l.line = "Incomplete" ->
                    IF Len(rbuf) - pos > INLINE_MAX_SIZE THEN Fail("TooBigBulkCount")
                    ELSE Incomplete(BulkHeader(pos, pstate.remaining, l.next))
               [] l.line = "Malformed" -> Fail("InvalidBulkLength")
               [] OTHER ->
                    IF len = Nil THEN Fail("InvalidBulkLength")
                    ELSE IF len < 0 \/ len > ProtoMaxBulkLen THEN Fail("InvalidBulkLength")
                    ELSE Go(BulkBody(l.next, len, pstate.remaining - 1))

(* The two bytes after the payload are skipped, whatever they are.         *)
ParseBulkBody ==
  /\ pstate.at = "BulkBody"
  /\ LET after == pstate.start + pstate.len + 2
         all == Append(ranges, <<pstate.start, after - 2>>)
         args == [k \in DOMAIN all |-> SubSeq(rbuf, all[k][1] + 1, all[k][2])]
     IN IF Len(rbuf) < after THEN Incomplete(pstate)
        ELSE IF pstate.remaining = 0 THEN Yield(Command(args), after)
        ELSE /\ ranges' = all
             /\ pstate' = BulkHeader(after, pstate.remaining, after)
             /\ UNCHANGED <<rbuf, parsed, phase>>

ParseInline ==
  /\ pstate.at = "Inline"
  /\ LET nls == {i \in pstate.scanned .. Len(rbuf) - 1 : rbuf[i + 1] = LF}
         nl == Seqs!Min(nls)
         end == IF nl > 0 /\ rbuf[nl] = CR THEN nl - 1 ELSE nl
         args == split_inline(SubSeq(rbuf, 1, end))
     IN IF nls = {}
        THEN IF Len(rbuf) > INLINE_MAX_SIZE THEN Fail("TooBigInline")
             ELSE Incomplete(Inline(Len(rbuf)))
        ELSE IF nl > INLINE_MAX_SIZE THEN Fail("TooBigInline")
        ELSE IF args = Nil
        THEN /\ Consume(nl + 1)
             /\ parsed' = Append(parsed, ProtoError("UnbalancedQuotes"))
             /\ phase' = "closed"
        ELSE Yield(IF args = <<>> THEN Empty ELSE Command(args), nl + 1)

parserNext ==
  \/ \E n \in 1 .. Len(stream.bytes) : ParserRead(n)
  \/ /\ phase = "parse"
     /\ \/ ParseStart \/ ParseMbulkHeader \/ ParseBulkHeader
        \/ ParseBulkBody \/ ParseInline
     /\ UNCHANGED <<stream, arrived>>

parserSpec == parserInit /\ [][parserNext]_parserVars
-----------------------------------------------------------------------------
(* What bytes stand for when the parser need not resume: the reference.    *)
(* OneShot(b) is what comes of a buffer b that was never parsed before: a    *)
(* request or a refusal, or the parser waits for more bytes.               *)
Waits == [is |-> "Waits"]
Done(out, used) == [is |-> "Done", out |-> out, used |-> used]
Refusal(e) == Done(ProtoError(e), 0)
Open(pos, args) == [is |-> "Open", pos |-> pos, args |-> args]

OneShotBulk(b, o) ==
  LET l == line_end(b, o.pos + 1, o.pos + 1)
      len == parse_i64_strict(l.text)
      after == l.next + len + 2
  IN IF o.pos >= Len(b) THEN Waits
     ELSE IF b[o.pos + 1] # Dollar THEN Refusal("ExpectedDollar")
     ELSE IF l.line = "Incomplete"
     THEN IF Len(b) - o.pos > INLINE_MAX_SIZE THEN Refusal("TooBigBulkCount") ELSE Waits
     ELSE IF \/ l.line = "Malformed" \/ len = Nil
             \/ len < 0 \/ len > ProtoMaxBulkLen
     THEN Refusal("InvalidBulkLength")
     ELSE IF Len(b) < after THEN Waits
     ELSE Open(after, Append(o.args, SubSeq(b, l.next + 1, after - 2)))

OneShotBulks(b, pos, count) ==
  LET upto[k \in 0 .. count] ==
        IF k = 0 THEN Open(pos, <<>>)
        ELSE IF upto[k - 1].is = "Open" THEN OneShotBulk(b, upto[k - 1])
        ELSE upto[k - 1]
  IN IF upto[count].is = "Open" THEN Done(Command(upto[count].args), upto[count].pos)
     ELSE upto[count]

OneShotMbulk(b) ==
  LET l == line_end(b, 1, 1)
      count == parse_i64_strict(l.text)
  IN IF l.line = "Incomplete"
     THEN IF Len(b) > INLINE_MAX_SIZE THEN Refusal("TooBigMbulkCount") ELSE Waits
     ELSE IF l.line = "Malformed" \/ count = Nil \/ count > MULTIBULK_MAX
     THEN Refusal("InvalidMultibulkLength")
     ELSE IF count <= 0 THEN Done(Empty, l.next)
     ELSE OneShotBulks(b, l.next, count)

OneShotInline(b) ==
  LET nls == {i \in 0 .. Len(b) - 1 : b[i + 1] = LF}
      nl == Seqs!Min(nls)
      args == split_inline(SubSeq(b, 1, IF nl > 0 /\ b[nl] = CR THEN nl - 1 ELSE nl))
  IN IF nls = {}
     THEN IF Len(b) > INLINE_MAX_SIZE THEN Refusal("TooBigInline") ELSE Waits
     ELSE IF nl > INLINE_MAX_SIZE THEN Refusal("TooBigInline")
     ELSE IF args = Nil THEN Refusal("UnbalancedQuotes")
     ELSE Done(IF args = <<>> THEN Empty ELSE Command(args), nl + 1)

OneShot(b) ==
  IF b = <<>> THEN Waits ELSE IF b[1] = Star THEN OneShotMbulk(b) ELSE OneShotInline(b)

(* What may come of the bytes from p + 1 on when a frame starts there, and *)
(* of all of them: a frame is parsed when some number of bytes is there,   *)
(* how many matters only to the limit on unfinished lines.                 *)
Finished(bytes, p) ==
  {OneShot(SubSeq(bytes, p + 1, q)) : q \in p .. Len(bytes)} \ {Waits}
Meaning(bytes) ==
  LET from[p \in 0 .. Len(bytes)] ==
        (IF OneShot(SubSeq(bytes, p + 1, Len(bytes))) = Waits THEN {<<>>} ELSE {})
        \cup UNION {{<<f.out>> \o rest :
                      rest \in IF f.out.is = "Error" THEN {<<>>} ELSE from[p + f.used]} :
                    f \in Finished(bytes, p)}
  IN from[0]

(* What a stream is expected to give is what its bytes stand for.          *)
ASSUME StreamsAssumption ==
  \A s \in RequestStreams : s.bytes \in Seq(0 .. 255) /\ s.expect = Meaning(s.bytes)

(* However the client's bytes are cut into reads, the parser yields the    *)
(* requests they stand for, in order and with the very arguments, and the  *)
(* protocol error where there is one, at no read earlier than its bytes    *)
(* are there; when all bytes are in and the parser waits, it has yielded   *)
(* all of them and left nothing of a finished frame in the buffer.         *)
(* (byte_at_a_time_matches_one_shot tests one cut, this is every cut.)     *)
ParseIgnoresReadBoundaries ==
  /\ \E e \in stream.expect : Seqs!IsPrefix(parsed, e)
  /\ (phase = "read" /\ arrived = Len(stream.bytes)) => parsed \in stream.expect
  /\ (phase = "read" /\ pstate = Start) => rbuf = <<>>
=============================================================================
