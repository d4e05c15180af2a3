----------------------------- MODULE ListPack ------------------------------
(***************************************************************************)
(* encoding/listpack.rs: a list of byte strings as one byte buffer, 4-byte *)
(* total, 2-byte count, entries, 0xFF.  An entry is its encoding and data  *)
(* followed by their length written backwards, so the buffer can be walked *)
(* from either end; text that reads as an integer is stored as one.        *)
(* Offsets are 0-based as in the code; the buffer is a sequence of bytes.  *)
(***************************************************************************)
EXTENDS StrNum, SequencesExt

CONSTANTS
  LPInt32Max,      \* largest integer of the 32-bit form (2^31 - 1)
  LPUnknown,       \* LP_HDR_NUMELE_UNKNOWN (65535)
  LPMaxSafety,     \* LP_MAX_SAFETY_SIZE (1 GB)
  LPValues,        \* texts the operations insert
  LPInits,         \* lists the run starts from
  LPMaxLen         \* bound on the number of elements

VARIABLES
  lp,     \* the buffer
  lpAbs   \* the list of texts it stands for (history)

lpVars == <<lp, lpAbs>>

LP_HDR_SIZE == 6
LP_EOF == 255

LpInt(v) == [kind |-> "int", val |-> v]
LpStr(s) == [kind |-> "str", val |-> s]

(* The n low bytes of v, least significant first, and back with the sign   *)
(* of the last one.  Bytes past the fourth only repeat the sign here.      *)
ToLE(v, n) ==
  [k \in 1 .. n |-> IF k > 4 THEN (IF v < 0 THEN 255 ELSE 0)
                    ELSE (v \div 256 ^ (k - 1)) % 256]
FromLE(bs) ==
  LET n == IF Len(bs) > 4 THEN 4 ELSE Len(bs)
      part[k \in 0 .. n - 1] ==
        IF k = 0 THEN 0 ELSE part[k - 1] + bs[k] * 256 ^ (k - 1)
  IN part[n - 1] + (IF bs[n] >= 128 THEN bs[n] - 256 ELSE bs[n]) * 256 ^ (n - 1)
FromLEUnsigned(bs) ==
  LET part[k \in 0 .. Len(bs)] ==
        IF k = 0 THEN 0 ELSE part[k - 1] + bs[k] * 256 ^ (k - 1)
  IN part[Len(bs)]

canonicalize(e) ==
  IF e.kind = "str" /\ string2ll(e.val) # Nil THEN LpInt(string2ll(e.val))
  ELSE e

lpText(e) == IF e.kind = "int" THEN ll2string(e.val) ELSE e.val

(* ListpackEntry::eq_bytes: against a raw needle.                          *)
lpEqBytes(e, needle) ==
  IF e.kind = "str" THEN e.val = needle ELSE string2ll(needle) = e.val

payload_enclen(p) ==
  LET n == Len(p.val)
      v == p.val
  IN IF p.kind = "int"
     THEN IF v \in 0 .. 127 THEN 1
          ELSE IF v \in -4096 .. 4095 THEN 2
          ELSE IF v \in -32768 .. 32767 THEN 3
          ELSE IF v \in -8388608 .. 8388607 THEN 4
          ELSE IF -LPInt32Max - 1 <= v /\ v <= LPInt32Max THEN 5
          ELSE 9
     ELSE IF n < 64 THEN 1 + n ELSE IF n < 4096 THEN 2 + n ELSE 5 + n

backlen_size(l) ==
  IF l <= 127 THEN 1
  ELSE IF l < 16383 THEN 2
  ELSE IF l < 2097151 THEN 3
  ELSE IF l < 268435455 THEN 4
  ELSE 5

(* A plausible slip: the length is written most significant bits last.     *)
write_backlen_swapped(l) ==
  LET n == backlen_size(l)
  IN [i \in 1 .. n |-> ((l \div 128 ^ (i - 1)) % 128) + (IF i = 1 THEN 0 ELSE 128)]

(* Seven bits a byte, most significant first, all but the first marked.    *)
write_backlen(l) ==
  LET n == backlen_size(l)
  IN [i \in 1 .. n |-> ((l \div 128 ^ (n - i)) % 128) + (IF i = 1 THEN 0 ELSE 128)]

(* Read backwards from `last` until an unmarked byte: <<value, bytes>>.    *)
decode_backlen(b, last) ==
  LET back[n \in 0 .. 5] ==     \* value of the n bytes ending at last
        IF n = 0 THEN 0
        ELSE back[n - 1] + (b[last + 2 - n] % 128) * 128 ^ (n - 1)
      stops == {n \in 1 .. 5 : last - n >= -1 /\ b[last + 2 - n] < 128}
      n == CHOOSE m \in stops : \A k \in stops : m <= k
  IN IF stops = {} THEN Nil ELSE <<back[n], n>>

write_payload(p) ==
  LET v == p.val
      n == Len(p.val)
      len == payload_enclen(p)
      u == IF v < 0 THEN v + 8192 ELSE v
      data == IF p.kind = "int"
              THEN CASE len = 1 -> <<v>>
                     [] len = 2 -> <<192 + u \div 256, u % 256>>
                     [] len = 3 -> <<241>> \o ToLE(v, 2)
                     [] len = 4 -> <<242>> \o ToLE(v, 3)
                     [] len = 5 -> <<243>> \o ToLE(v, 4)
                     [] OTHER   -> <<244>> \o ToLE(v, 8)
              ELSE IF n < 64 THEN <<128 + n>> \o v
              ELSE IF n < 4096 THEN <<224 + n \div 256, n % 256>> \o v
              ELSE <<240>> \o ToLE(n, 4) \o v
  IN data \o write_backlen(len)

(* encoding + data of the entry at off: its length, without reading it.    *)
enclen_at(b, off) ==
  LET b0 == IF off < Len(b) THEN b[off + 1] ELSE LP_EOF
  IN CASE b0 < 128 -> 1
       [] b0 \in 128 .. 191 -> 1 + b0 - 128
       [] b0 \in 192 .. 223 -> 2
       [] b0 \in 224 .. 239 -> 2 + (b0 - 224) * 256 + b[off + 2]
       [] b0 = 240 -> 5 + FromLEUnsigned(SubSeq(b, off + 2, off + 5))
       [] b0 = 241 -> 3
       [] b0 = 242 -> 4
       [] b0 = 243 -> 5
       [] b0 = 244 -> 9
       [] OTHER -> Nil

(* <<entry, enclen>>, or Nil on a tag that is none or data cut short.      *)
decode_at(b, off) ==
  LET len == enclen_at(b, off)
      b0 == b[off + 1]
      data(from) == SubSeq(b, off + 1 + from, off + len)
      u == (b0 - 192) * 256 + b[off + 2]
      entry == CASE b0 < 128 -> LpInt(b0)
                 [] b0 \in 128 .. 191 -> LpStr(data(1))
                 [] b0 \in 192 .. 223 -> LpInt(IF u >= 4096 THEN u - 8192 ELSE u)
                 [] b0 \in 224 .. 239 -> LpStr(data(2))
                 [] b0 = 240 -> LpStr(data(5))
                 [] OTHER -> LpInt(FromLE(data(1)))
  IN IF len = Nil \/ off + len > Len(b) THEN Nil ELSE <<entry, len>>
-----------------------------------------------------------------------------
(* The header.                                                             *)
lpHeaderTotal(b) == FromLEUnsigned(SubSeq(b, 1, 4))
lpHeaderCount(b) == FromLEUnsigned(SubSeq(b, 5, 6))

sync_header(b, delta) ==
  LET cur == lpHeaderCount(b)
      n == cur + delta
      kept == IF cur = LPUnknown THEN cur
              ELSE IF n < 0 THEN 0
              ELSE IF n > LPUnknown THEN LPUnknown ELSE n
  IN ToLE(Len(b), 4) \o ToLE(kept, 2) \o SubSeq(b, 7, Len(b))

lpNew == ToLE(7, 4) \o ToLE(0, 2) \o <<LP_EOF>>

first_offset == LP_HDR_SIZE
eof_offset(b) == Len(b) - 1
lpIsEmpty(b) == Len(b) <= LP_HDR_SIZE + 1
safe_to_add(b, add) == Len(b) + add <= LPMaxSafety

entry_span(b, off) ==
  LET len == enclen_at(b, off)
  IN IF len = Nil THEN Nil ELSE len + backlen_size(len)

next_offset(b, off) ==
  LET span == entry_span(b, off)
  IN IF off >= eof_offset(b) \/ span = Nil THEN Nil
     ELSE IF off + span > eof_offset(b) THEN Nil ELSE off + span

prev_offset(b, off) ==
  LET back == decode_backlen(b, off - 1)
      start == off - (back[1] + backlen_size(back[1]))
  IN IF off <= LP_HDR_SIZE \/ back = Nil \/ start < LP_HDR_SIZE THEN Nil
     ELSE start

(* Offsets of the entries, forward from off to the terminator.             *)
lpOffsets(b) ==
  LET from[off \in LP_HDR_SIZE .. Len(b)] ==
        IF off >= eof_offset(b) \/ entry_span(b, off) = Nil THEN <<>>
        ELSE <<off>> \o from[off + entry_span(b, off)]
  IN from[LP_HDR_SIZE]

(* seek_fwd walks spans, seek_back walks the lengths written backwards.    *)
seek_fwd(b, n) ==
  LET after[k \in 0 .. n] ==
        IF k = 0 THEN LP_HDR_SIZE
        ELSE LET off == after[k - 1]
             IN IF off = Nil \/ off >= eof_offset(b) THEN Nil
                ELSE off + entry_span(b, off)
  IN IF after[n] = Nil \/ after[n] >= eof_offset(b) THEN Nil ELSE after[n]

seek_back(b, n) ==   \* n < 0
  LET before[k \in 0 .. -n] ==
        IF k = 0 THEN eof_offset(b)
        ELSE IF before[k - 1] = Nil THEN Nil
        ELSE prev_offset(b, before[k - 1])
  IN before[-n]

lpSeek(b, index) ==
  LET n == lpHeaderCount(b)
      i == IF index < 0 THEN index + n ELSE index
  IN IF n # LPUnknown
     THEN IF i < 0 \/ i >= n THEN Nil
          ELSE IF i > n \div 2 THEN seek_back(b, i - n)
          ELSE seek_fwd(b, i)
     ELSE IF index < 0 THEN seek_back(b, index)
     ELSE seek_fwd(b, index)

entry_at(b, off) ==
  IF off = Nil \/ off >= eof_offset(b) THEN Nil ELSE decode_at(b, off)[1]

lpGet(b, index) == entry_at(b, lpSeek(b, index))
lpFirst(b) == entry_at(b, LP_HDR_SIZE)
lpLast(b) == entry_at(b, prev_offset(b, eof_offset(b)))

(* The iterators: forward by spans, backward by prev_offset.               *)
lpIter(b) == [i \in DOMAIN lpOffsets(b) |-> decode_at(b, lpOffsets(b)[i])[1]]
lpIterRev(b) ==
  LET back[off \in LP_HDR_SIZE .. Len(b)] ==
        LET p == prev_offset(b, off)
        IN IF p = Nil THEN <<>> ELSE <<entry_at(b, p)>> \o back[p]
  IN back[eof_offset(b)]

lpLen(b) ==
  IF lpHeaderCount(b) # LPUnknown THEN lpHeaderCount(b)
  ELSE Len(lpOffsets(b))

(* lpFind: from element start, every (skip + 1)th is compared.             *)
find_from(b, start, needle, skip) ==
  LET offs == lpOffsets(b)
      canon == canonicalize(LpStr(needle))
      hits == {i \in start .. Len(offs) - 1 :
                 /\ (i - start) % (skip + 1) = 0
                 /\ LET e == decode_at(b, offs[i + 1])[1]
                    IN e.kind = canon.kind /\ e.val = canon.val}
  IN IF seek_fwd(b, start) = Nil \/ hits = {} THEN Nil
     ELSE CHOOSE i \in hits : \A j \in hits : i <= j

(* Structural check of untrusted bytes.                                    *)
lpValidate(b) ==
  LET end == Len(b) - 1
      entries[off \in LP_HDR_SIZE .. Len(b)] ==   \* count up to end, or Nil
        IF off = end THEN 0
        ELSE LET e == decode_at(b, off)
                 next == off + e[2] + backlen_size(e[2])
             IN IF e = Nil THEN Nil
                ELSE IF \/ next > end
                        \/ decode_backlen(b, next - 1) # <<e[2], backlen_size(e[2])>>
                     THEN Nil
                ELSE IF entries[next] = Nil THEN Nil ELSE entries[next] + 1
  IN /\ Len(b) >= LP_HDR_SIZE + 1
     /\ lpHeaderTotal(b) = Len(b)
     /\ b[Len(b)] = LP_EOF
     /\ entries[LP_HDR_SIZE] # Nil
     /\ lpHeaderCount(b) \in {LPUnknown, entries[LP_HDR_SIZE]}
-----------------------------------------------------------------------------
(* The writes.  splice and the copy into its gap are one step; a refused   *)
(* operation returns the buffer it was given.                              *)
splice(b, at, remove, new) ==
  SubSeq(b, 1, at) \o new \o SubSeq(b, at + remove + 1, Len(b))

insert_at_offset(b, off, v) ==
  LET new == write_payload(canonicalize(v))
  IN IF safe_to_add(b, Len(new)) THEN sync_header(splice(b, off, 0, new), 1)
     ELSE b

lpAppend(b, v) == insert_at_offset(b, eof_offset(b), v)
lpPrepend(b, v) == insert_at_offset(b, LP_HDR_SIZE, v)

lpInsert(b, index, v) ==
  LET off == IF index >= lpLen(b) THEN eof_offset(b) ELSE seek_fwd(b, index)
  IN IF off = Nil THEN b ELSE insert_at_offset(b, off, v)

lpReplace(b, index, v) ==
  LET off == lpSeek(b, index)
      new == write_payload(canonicalize(v))
      old == entry_span(b, off)
  IN IF off = Nil THEN b
     ELSE IF Len(new) > old /\ ~safe_to_add(b, Len(new) - old) THEN b
     ELSE sync_header(splice(b, off, old, new), 0)

lpDelete(b, index) ==
  LET off == lpSeek(b, index)
  IN IF off = Nil THEN b
     ELSE sync_header(splice(b, off, entry_span(b, off), <<>>), -1)

(* delete_range: as many of count as there are.                            *)
lpDeleteRange(b, index, count) ==
  LET offs == Append(lpOffsets(b), eof_offset(b))
      removed == IF index + count < Len(offs) THEN count
                 ELSE Len(offs) - 1 - index
      start == offs[index + 1]
  IN IF count = 0 \/ seek_fwd(b, index) = Nil THEN b
     ELSE sync_header(splice(b, start, offs[index + removed + 1] - start, <<>>),
                      -removed)

delete_byte_range(b, from, to, count) ==
  IF to <= from THEN b
  ELSE sync_header(splice(b, from, to - from, <<>>), -count)

append_all(b, other) ==
  LET body == SubSeq(other, LP_HDR_SIZE + 1, Len(other) - 1)
  IN IF safe_to_add(b, Len(body))
     THEN sync_header(splice(b, eof_offset(b), 0, body), lpLen(other))
     ELSE b

lpFromEntries(texts) ==
  FoldLeft(LAMBDA b, s : lpAppend(b, LpStr(s)), lpNew, texts)

-----------------------------------------------------------------------------
lpInit ==
  \E texts \in LPInits : lp = lpFromEntries(texts) /\ lpAbs = texts

(* The abstract list changes unless the operation was refused.             *)
LpStep(new, abs) ==
  /\ lp' = new
  /\ lpAbs' = IF new = lp THEN lpAbs ELSE abs

(* Room for one more: a bound of the model, not of the code.               *)
LpRoom(n) == Len(lpAbs) + n <= LPMaxLen

ListpackAppend(s) ==
  LpRoom(1) /\ LpStep(lpAppend(lp, LpStr(s)), Append(lpAbs, s))

ListpackPrepend(s) ==
  LpRoom(1) /\ LpStep(lpPrepend(lp, LpStr(s)), <<s>> \o lpAbs)

ListpackInsert(i, s) ==
  /\ LpRoom(1)
  /\ LpStep(lpInsert(lp, i, LpStr(s)),
            IF i >= Len(lpAbs) THEN Append(lpAbs, s)
            ELSE InsertAt(lpAbs, i + 1, s))

ListpackReplace(i, s) ==
  LpStep(lpReplace(lp, i, LpStr(s)), ReplaceAt(lpAbs, i + 1, s))

ListpackDelete(i) ==
  LpStep(lpDelete(lp, i),
         RemoveAt(lpAbs, IF i < 0 THEN Len(lpAbs) + i + 1 ELSE i + 1))

ListpackDeleteRange(i, n) ==
  LpStep(lpDeleteRange(lp, i, n),
         SubSeq(lpAbs, 1, i) \o SubSeq(lpAbs, i + n + 1, Len(lpAbs)))

(* What a quicklist node split does: cut everything from element i on.     *)
ListpackSplit(i) ==
  LET off == lpSeek(lp, i)
  IN /\ i < Len(lpAbs)
     /\ LpStep(delete_byte_range(lp, off, eof_offset(lp), lpLen(lp) - i),
               SubSeq(lpAbs, 1, i))

(* What a quicklist node merge does.                                       *)
ListpackAppendAll(texts) ==
  /\ LpRoom(Len(texts))
  /\ LpStep(append_all(lp, lpFromEntries(texts)), lpAbs \o texts)

lpNext ==
  \/ \E s \in LPValues :
       \/ ListpackAppend(s)
       \/ ListpackPrepend(s)
       \/ \E i \in 0 .. LPMaxLen : ListpackInsert(i, s) \/ ListpackReplace(i, s)
       \/ \E t \in LPValues : ListpackAppendAll(<<s, t>>)
  \/ \E i \in -LPMaxLen .. LPMaxLen : ListpackDelete(i)
  \/ \E i \in 0 .. LPMaxLen, n \in 0 .. 2 : ListpackDeleteRange(i, n)
  \/ \E i \in 0 .. LPMaxLen : ListpackSplit(i)

lpSpec == lpInit /\ [][lpNext]_lpVars
-----------------------------------------------------------------------------
(* However the list was edited, the bytes hold exactly that list: both     *)
(* iterators, indexing from either end (whichever end the seek starts      *)
(* from), first, last, the element count - also once the 16-bit counter    *)
(* has overflowed - and find with every stride return the very texts that  *)
(* went in, "01" and "-0" as text and integers at every width; and the     *)
(* loader accepts the bytes.                                               *)
ListpackHoldsTheList ==
  LET n == Len(lpAbs)
      text(e) == IF e = Nil THEN Nil ELSE lpText(e)
      at(i) == IF i \in 0 .. n - 1 THEN lpAbs[i + 1]
               ELSE IF i \in -n .. -1 THEN lpAbs[n + i + 1] ELSE Nil
      first(start, s, skip) ==
        LET hits == {i \in start .. n - 1 : /\ (i - start) % (skip + 1) = 0
                                            /\ lpAbs[i + 1] = s}
        IN IF hits = {} THEN Nil ELSE CHOOSE i \in hits : \A j \in hits : i <= j
      forward == lpIter(lp)
      backward == lpIterRev(lp)
  IN /\ lpValidate(lp)
     /\ lpLen(lp) = n /\ lpIsEmpty(lp) = (n = 0)
     /\ Len(forward) = n /\ Len(backward) = n
     /\ \A i \in 1 .. n : lpText(forward[i]) = lpAbs[i]
     /\ \A i \in 1 .. n : lpText(backward[i]) = lpAbs[n + 1 - i]
     /\ \A i \in -n - 1 .. n : text(lpGet(lp, i)) = at(i)
     /\ text(lpFirst(lp)) = at(0) /\ text(lpLast(lp)) = at(-1)
     /\ \A s \in LPValues, start \in 0 .. n, skip \in {0, 1} :
          find_from(lp, start, s, skip) = first(start, s, skip)
     /\ \A s \in LPValues, i \in 1 .. n : lpEqBytes(forward[i], s) = (lpAbs[i] = s)
=============================================================================
