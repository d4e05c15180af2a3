------------------------------ MODULE MCParser -----------------------------
(* What clients send: requests with what each of them stands for.          *)
EXTENDS RespParser

MCLine(text) == text \o <<CR, LF>>
Num(n) == ll2string(n)
Bulk(arg) == MCLine(<<Dollar>> \o Num(Len(arg))) \o MCLine(arg)
Multibulk(args) ==
  [bytes |-> MCLine(<<Star>> \o Num(Len(args))) \o Seqs!FlattenSeq([k \in DOMAIN args |-> Bulk(args[k])]),
   expect |-> {<<Command(args)>>}]
Means(bytes, out) == [bytes |-> bytes, expect |-> {<<out>>}]

(* Arguments that look like protocol, an empty one, and inline lines with  *)
(* every kind of quoting (a "b\x41\n" 'c\'' and a blank line).             *)
Good ==
  { Multibulk(<< <<97>> >>), Multibulk(<< <<CR, LF>>, <<>>, <<Star, 49>> >>),
    Means(MCLine(<<Star, 48>>), Empty), Means(MCLine(<<Star, 45, 49>>), Empty),
    Means(MCLine(<<>>), Empty), Means(<<32, LF>>, Empty),
    Means(<<97, 9, 98, LF>>, Command(<< <<97>>, <<98>> >>)),
    Means(MCLine(<<34, 98, 92, 120, 52, 49, 92, 110, 34, 32, 39, 99, 92, 39, 39>>),
          Command(<< <<98, 65, 10>>, <<99, 39>> >>)),
    Means(MCLine(<<Star, 48, 49>>) \o MCLine(<<Dollar, 48, 48>>) \o <<1, 2>>, Command(<< <<>> >>)) }

(* Every protocol error.                                                   *)
Bad ==
  { Means(<<Star, 49, CR, 49>>, ProtoError("InvalidMultibulkLength")),
    Means(MCLine(<<Star, 45>>), ProtoError("InvalidMultibulkLength")),
    Means(MCLine(<<Star>> \o Num(MULTIBULK_MAX + 1)), ProtoError("InvalidMultibulkLength")),
    Means(MCLine(<<Star, 49>>) \o <<97>>, ProtoError("ExpectedDollar")),
    Means(MCLine(<<Star, 49>>) \o <<Dollar, CR, CR>>, ProtoError("InvalidBulkLength")),
    Means(MCLine(<<Star, 49>>) \o MCLine(<<Dollar>>), ProtoError("InvalidBulkLength")),
    Means(MCLine(<<Star, 49>>) \o MCLine(<<Dollar, 45, 49>>), ProtoError("InvalidBulkLength")),
    Means(MCLine(<<Star, 49>>) \o MCLine(<<Dollar>> \o Num(ProtoMaxBulkLen + 1)),
          ProtoError("InvalidBulkLength")),
    Means(MCLine(<<34, 97, 34, 98>>), ProtoError("UnbalancedQuotes")),
    Means(MCLine(<<39, 97>>), ProtoError("UnbalancedQuotes")),
    Means([k \in 1 .. INLINE_MAX_SIZE + 1 |-> 97] \o <<LF>>, ProtoError("TooBigInline")) }

(* A header line longer than the limit: refused when a read ends inside    *)
(* it, understood when it arrives in one piece.                            *)
Zeros == [k \in 1 .. INLINE_MAX_SIZE |-> 48]
Long ==
  { [bytes |-> MCLine(<<Star>> \o Zeros),
     expect |-> {<<Empty>>, <<ProtoError("TooBigMbulkCount")>>}],
    [bytes |-> MCLine(<<Star, 49>>) \o MCLine(<<Dollar>> \o Zeros) \o MCLine(<<>>),
     expect |-> {<<Command(<< <<>> >>)>>, <<ProtoError("TooBigBulkCount")>>}] }

Then(a, b) == [bytes |-> a.bytes \o b.bytes,
               expect |-> {x \o y : x \in a.expect, y \in b.expect}]

(* Pipelines of two requests: one of each kind, then any one, good, bad or *)
(* cut short.                                                              *)
First == { Multibulk(<< <<97>>, <<CR, LF>> >>), Means(<<97, 9, 98, LF>>, Command(<< <<97>>, <<98>> >>)),
           Means(MCLine(<<Star, 48>>), Empty) }
Short == [bytes |-> MCLine(<<Star, 50>>) \o Bulk(<<97>>), expect |-> {<<>>}]
MCStreams == {Then(a, b) : a \in First, b \in Good \cup Bad \cup Long \cup {Short}}
=============================================================================
