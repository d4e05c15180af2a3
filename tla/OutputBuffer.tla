---------------------------- MODULE OutputBuffer ---------------------------
(***************************************************************************)
(* net/output.rs: what a connection has to write.  Replies are staged;     *)
(* sealing moves the staged bytes into a queue of frames, where pushed     *)
(* frames go directly; flush writes the queue with as many write or writev *)
(* calls as the socket wants.  Capacities (and giving them back) are left  *)
(* out: they decide when memory is freed, not what is written.             *)
(***************************************************************************)
EXTENDS Integers, Sequences, Option

CONSTANTS
  MAX_IOVECS,     \* frames one writev describes (64)
  OutLimit,       \* ClassLimit: [hard, soft, soft_ms], 0 = unlimited
  OutMaxBytes,    \* bound on the bytes a run produces
  OutMaxTime      \* bound on the clock, in ms

ASSUME OutAssumption ==
  /\ MAX_IOVECS \in Nat \ {0} /\ OutMaxBytes \in Nat /\ OutMaxTime \in Nat
  /\ OutLimit \in [hard : Nat, soft : Nat, soft_ms : Nat]
  /\ Nil \notin {"Hard", "Soft"}

VARIABLES
  ob,        \* [staging, queued, queued_bytes, head_off, peak, since]
  obState,   \* "idle", "flushing" (between two writes), "closed" (limit, error)
  obNow,     \* Clock::now_ms
  wire,      \* the bytes the socket has taken
  owed       \* the bytes produced and not dropped, in order (history)

obVars == <<ob, obState, obNow, wire, owed>>

obNew == [staging |-> <<>>, queued |-> <<>>, queued_bytes |-> 0, head_off |-> 0,
          peak |-> 0, since |-> Nil]

pending(b) == Len(b.staging) + b.queued_bytes - b.head_off

note_pending(b) == [b EXCEPT !.peak = IF pending(b) > @ THEN pending(b) ELSE @]

seal(b) ==
  IF b.staging = <<>> THEN b
  ELSE [b EXCEPT !.staging = <<>>,
                 !.queued_bytes = @ + Len(b.staging),
                 !.queued = Append(@, b.staging)]

(* A plausible slip: the frame overtakes what is staged.                   *)
push_bytes_unsealed(b, frame) ==
  note_pending([b EXCEPT !.queued_bytes = @ + Len(frame),
                         !.queued = Append(@, frame)])

push_bytes(b, frame) ==
  LET s == seal(b)
  IN IF frame = <<>> THEN b
     ELSE note_pending([s EXCEPT !.queued_bytes = @ + Len(frame),
                                 !.queued = Append(@, frame)])

(* The soft-limit clock and the verdict: [since, breach].                  *)
check_limit(b, now) ==
  LET p == pending(b)
      hard == OutLimit.hard > 0 /\ p > OutLimit.hard
      soft == OutLimit.soft > 0 /\ p > OutLimit.soft
      expired == b.since # Nil /\ now - b.since >= OutLimit.soft_ms
  IN [since |-> IF hard THEN b.since
                ELSE IF ~soft THEN Nil
                ELSE IF b.since = Nil THEN now ELSE b.since,
      breach |-> IF hard THEN "Hard" ELSE IF soft /\ expired THEN "Soft" ELSE Nil]

discard(b) == [b EXCEPT !.staging = <<>>, !.queued = <<>>,
                        !.queued_bytes = 0, !.head_off = 0]

(* write_some: the bytes offered to one write (the head frame alone, or a  *)
(* socket that cannot gather) or to one writev.                            *)
Offered(b, vectored) ==
  LET head == SubSeq(b.queued[1], b.head_off + 1, Len(b.queued[1]))
      n == IF Len(b.queued) < MAX_IOVECS THEN Len(b.queued) ELSE MAX_IOVECS
  IN IF ~vectored \/ Len(b.queued) = 1 THEN head
     ELSE head \o Seqs!FlattenSeq([k \in 1 .. n - 1 |-> b.queued[k + 1]])

(* advance: n bytes were taken; frames written in full go.                 *)
advance(b, n) ==
  LET total(k) == Len(Seqs!FlattenSeq(SubSeq(b.queued, 1, k)))
      upto == b.head_off + n
      done == {k \in 0 .. Len(b.queued) : total(k) <= upto}
      k == CHOOSE d \in done : \A e \in done : d >= e
  IN [b EXCEPT !.queued = SubSeq(@, k + 1, Len(@)),
               !.queued_bytes = @ - total(k),
               !.head_off = upto - total(k)]
-----------------------------------------------------------------------------
(* The next n bytes this connection produces; every byte is distinct.      *)
Fresh(n) == [k \in 1 .. n |-> Len(wire) + Len(owed) + k]

obInit ==
  /\ ob = obNew /\ obState = "idle" /\ obNow = 0
  /\ wire = <<>> /\ owed = <<>>

Room(n) == obState = "idle" /\ Len(wire) + Len(owed) + n <= OutMaxBytes

(* A command writes its reply into the staging buffer.                     *)
OutStage(n) ==
  /\ Room(n)
  /\ ob' = [ob EXCEPT !.staging = @ \o Fresh(n)]
  /\ owed' = owed \o Fresh(n)
  /\ UNCHANGED <<obState, obNow, wire>>

(* An out-of-band frame: push_bytes and the limit (conn.rs).               *)
OutPush(n) ==
  LET pushed == push_bytes(ob, Fresh(n))
      check == check_limit(pushed, obNow)
  IN /\ Room(n)
     /\ IF check.breach = Nil
        THEN /\ ob' = [pushed EXCEPT !.since = check.since]
             /\ owed' = owed \o Fresh(n)
             /\ UNCHANGED obState
        ELSE /\ ob' = discard([pushed EXCEPT !.since = check.since])
             /\ owed' = <<>>
             /\ obState' = "closed"
     /\ UNCHANGED <<obNow, wire>>

(* flush: seal, then write until the queue is empty.                       *)
OutFlush ==
  /\ obState = "idle" /\ pending(ob) > 0
  /\ ob' = seal(note_pending(ob))
  /\ obState' = "flushing"
  /\ UNCHANGED <<obNow, wire, owed>>

OutWrite(n, vectored) ==
  LET offer == Offered(ob, vectored)
      left == advance(ob, n)
  IN /\ obState = "flushing"
     /\ n <= Len(offer)
     /\ wire' = wire \o SubSeq(offer, 1, n)
     /\ owed' = SubSeq(owed, n + 1, Len(owed))
     /\ IF left.queued # <<>> THEN ob' = left /\ UNCHANGED obState
        ELSE /\ ob' = [left EXCEPT !.head_off = 0, !.queued_bytes = 0]
             /\ obState' = "idle"
     /\ UNCHANGED obNow

(* A write that fails or takes nothing ends the connection.                *)
OutError ==
  /\ obState = "flushing"
  /\ obState' = "closed"
  /\ UNCHANGED <<ob, obNow, wire, owed>>

OutTick ==
  /\ obState # "closed" /\ obNow < OutMaxTime
  /\ obNow' = obNow + 1
  /\ UNCHANGED <<ob, obState, wire, owed>>

obNext ==
  \/ \E n \in 1 .. OutMaxBytes : \/ OutStage(n) \/ OutPush(n)
                                 \/ \E v \in BOOLEAN : OutWrite(n, v)
  \/ OutFlush \/ OutError \/ OutTick

obSpec == obInit /\ [][obNext]_obVars
-----------------------------------------------------------------------------
(* Replies and pushed frames reach the socket in the order they were       *)
(* produced, no byte lost and none twice, however writes and gathering     *)
(* writes cut them up: what was written, then what is queued (less the     *)
(* written part of its head), then what is staged, is everything owed; and *)
(* pending(), which the limit and the flush go by, counts exactly that.    *)
BytesInOrder ==
  LET rest == Seqs!FlattenSeq(ob.queued)
      unsent == SubSeq(rest, ob.head_off + 1, Len(rest)) \o ob.staging
  IN /\ unsent = owed
     /\ wire = [k \in DOMAIN wire |-> k]
     /\ pending(ob) = Len(owed)
     /\ ob.queued_bytes = Len(rest)
     /\ ob.peak <= OutMaxBytes
     /\ obState = "idle" => ob.head_off = 0
=============================================================================
