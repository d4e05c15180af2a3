---------------------------- MODULE PartsProofs -----------------------------
(***************************************************************************)
(* Theorems about the parts of the server that share no state with the     *)
(* keyspace, in five sections.                                             *)
(*                                                                         *)
(* Connections: admission and the last flush, for any number of            *)
(* connections, worker threads and accept loops, any limit and channels of *)
(* any length.                                                             *)
(*                                                                         *)
(* The output buffer of a connection, for chunks and limits of any size:   *)
(* the bytes the socket took and the bytes still queued are, in order, the *)
(* bytes the connection was given.                                         *)
(*                                                                         *)
(* The integer set encoding, for cells of any widths: the blob holds the   *)
(* set that was put into it.                                               *)
(*                                                                         *)
(* The configuration, for any files, command lines, requests and writers:  *)
(* readers see whole changes.                                              *)
(*                                                                         *)
(* The request parser, for any byte streams, limits and cuts into reads:   *)
(* resuming a half-read frame never changes what its bytes stand for.      *)
(***************************************************************************)
EXTENDS Conn, OutputBuffer, IntSet, Config, RespParser, DataLemmas, SequenceTheorems, FiniteSetTheorems

Serving == {"inserted", "head", "select", "batch", "flush"} \cup Left

(* Who passed the check holds a place, counted or not: this is what the    *)
(* bound needs, because Insert looks at nothing.                           *)
PlacesInv == Cardinality(clients) + Cardinality(InFlight) <= MaxClients + Workers - 1

CountedInv == clients = {c \in Conns : pc[c] \in Serving}

(* Replies wait only within a batch and its flush; elsewhere a write has   *)
(* failed.                                                                 *)
StagedInv ==
  \A c \in Conns : staged[c] => pc[c] \in {"batch", "flush"} \/ lost[c]

(* The next-state relation by the actions of a single task and the rest,   *)
(* for proofs by cases.                                                    *)
LEMMA NextCases ==
  ASSUME Next
  PROVE  \/ \E c \in Conns :
              \/ Accept(c) \/ Admit(c) \/ Insert(c) \/ Register(c) \/ LoopTop(c) \/ Receive(c)
              \/ Read(c) \/ Run(c) \/ BatchEnd(c) \/ Flush(c) \/ Unregister(c) \/ Remove(c)
              \/ HangUp(c) \/ Push(c, "Frame") \/ Push(c, "Unblock") \/ ShutdownKill(c)
         \/ LoopReturns \/ ShutdownFlag \/ ShutdownSnapshot \/ ShutdownAbort \/ ProcessExit
BY Zenon DEF Next, Task, Shutdown

(* A channel stays a sequence of messages when one is sent.                *)
LEMMA SendType ==
  ASSUME TypeOK, NEW c \in Conns, NEW msg \in {"Frame", "Unblock", "Kill"}, Send(c, msg)
  PROVE  oob' \in [Conns -> Seq({"Frame", "Unblock", "Kill"})]
BY DEF TypeOK, Send

(* The type invariant of connections, accept loops and shutdown.           *)
THEOREM ConnTypeCorrect == Spec => []TypeOK
<1>1. Init => TypeOK
  BY ConnAssumption DEF Init, TypeOK, ConnAssumption
<1>2. TypeOK /\ [Next]_vars => TypeOK'
  <2> SUFFICES ASSUME TypeOK, [Next]_vars PROVE TypeOK'
    OBVIOUS
  <2> USE ConnAssumption DEF ConnAssumption, TypeOK, Goto, LeaveLosing, Left, Ended
  <2>0. CASE UNCHANGED vars
    BY <2>0 DEF vars
  <2>1. ASSUME NEW c \in Conns,
               Accept(c) \/ Admit(c) \/ Insert(c) \/ Register(c) \/ LoopTop(c) \/ Read(c)
                 \/ BatchEnd(c) \/ Flush(c) \/ Unregister(c) \/ HangUp(c)
        PROVE TypeOK'
    <3>1. CASE Accept(c)
      BY <3>1 DEF Accept
    <3>2. CASE Admit(c)
      BY <3>2 DEF Admit
    <3>3. CASE Insert(c)
      BY <3>3 DEF Insert
    <3>4. CASE Register(c)
      BY <3>4 DEF Register
    <3>5. CASE LoopTop(c)
      BY <3>5 DEF LoopTop
    <3>6. CASE Read(c) \/ BatchEnd(c) \/ HangUp(c)
      BY <3>6 DEF Read, BatchEnd, HangUp
    <3>7. CASE Flush(c)
      BY <3>7 DEF Flush
    <3>8. CASE Unregister(c)
      BY <3>8 DEF Unregister
    <3> QED BY <2>1, <3>1, <3>2, <3>3, <3>4, <3>5, <3>6, <3>7, <3>8
  <2>2. ASSUME NEW c \in Conns, Receive(c) PROVE TypeOK'
    <3>1. oob' \in [Conns -> Seq({"Frame", "Unblock", "Kill"})]
      <4>1. oob[c] \in Seq({"Frame", "Unblock", "Kill"}) /\ oob[c] # <<>>
        BY <2>2 DEF Receive
      <4>2. SubSeq(oob[c], 2, Len(oob[c])) \in Seq({"Frame", "Unblock", "Kill"})
        BY <4>1
      <4> QED BY <2>2, <4>2 DEF Receive
    <3>2. pc' \in [Conns -> {"off", "accepted", "admitted", "inserted", "head", "select",
                             "batch", "flush"} \cup Left \cup Ended]
      BY <2>2 DEF Receive
    <3>3. /\ staged' \in [Conns -> BOOLEAN]
          /\ closing' \in [Conns -> BOOLEAN]
          /\ lost' \in [Conns -> BOOLEAN]
      BY <2>2 DEF Receive
    <3> QED BY <2>2, <3>1, <3>2, <3>3 DEF Receive
  <2>3. ASSUME NEW c \in Conns, Run(c) PROVE TypeOK'
    <3>1. oob' \in [Conns -> Seq({"Frame", "Unblock", "Kill"})]
      BY <2>3, SendType DEF Run
    <3>2. closing' \in [Conns -> BOOLEAN] /\ staged' \in [Conns -> BOOLEAN]
      BY <2>3 DEF Run
    <3> QED BY <2>3, <3>1, <3>2 DEF Run
  <2>4. ASSUME NEW c \in Conns, Remove(c) PROVE TypeOK'
    BY <2>4 DEF Remove
  <2>5. ASSUME NEW c \in Conns, NEW msg \in {"Frame", "Unblock"}, Push(c, msg) PROVE TypeOK'
    BY <2>5, SendType DEF Push
  <2>6. ASSUME NEW c \in Conns, ShutdownKill(c) PROVE TypeOK'
    BY <2>6, SendType DEF ShutdownKill
  <2>7. CASE LoopReturns
    BY <2>7 DEF LoopReturns
  <2>8. CASE ShutdownFlag \/ ShutdownSnapshot \/ ShutdownAbort
    BY <2>8 DEF ShutdownFlag, ShutdownSnapshot, ShutdownAbort
  <2>9. CASE ProcessExit
    BY <2>9 DEF ProcessExit
  <2> QED BY Zenon, NextCases, <2>0, <2>1, <2>2, <2>3, <2>4, <2>5, <2>6, <2>7, <2>8, <2>9
<1> QED BY <1>1, <1>2, PTL DEF Spec
-----------------------------------------------------------------------------
(* One element more makes a finite set larger by at most one.              *)
LEMMA OneMore ==
  ASSUME NEW S, NEW x, IsFiniteSet(S)
  PROVE  Cardinality(S \cup {x}) \in Nat /\ Cardinality(S \cup {x}) <= Cardinality(S) + 1
<1>1. IsFiniteSet(S \cup {x})
  BY FS_AddElement
<1>2. Cardinality(S) \in Nat /\ Cardinality(S \cup {x}) \in Nat
  BY <1>1, FS_CardinalityType
<1>3. Cardinality(S \cup {x}) = Cardinality(S) \/ Cardinality(S \cup {x}) = Cardinality(S) + 1
  BY FS_AddElement
<1> QED BY <1>2, <1>3

(* A step moves a connection in or out of the stretch between check and    *)
(* insertion, or in or out of clients, by at most its own place.           *)
LEMMA PlacesStep ==
  ASSUME TypeOK, PlacesInv, [Next]_vars
  PROVE  PlacesInv'
<1> USE ConnAssumption DEF ConnAssumption
<1>1. IsFiniteSet(clients) /\ IsFiniteSet(InFlight)
  BY FS_Subset DEF TypeOK, InFlight
<1>2. Cardinality(clients) \in Nat /\ Cardinality(InFlight) \in Nat
  BY <1>1, FS_CardinalityType
<1>3. ASSUME NEW c \in Conns, Admit(c) PROVE PlacesInv'
  <2>1. clients' = clients
    BY <1>3 DEF Admit
  <2>2. CASE Cardinality(clients) >= MaxClients
    <3>1. InFlight' = InFlight
      BY <1>3, <2>2 DEF Admit, Goto, InFlight, TypeOK
    <3> QED BY <2>1, <3>1 DEF PlacesInv
  <2>3. CASE ~(Cardinality(clients) >= MaxClients)
    <3>1. InFlight' = InFlight \cup {c}
      BY <1>3, <2>3 DEF Admit, Goto, InFlight, TypeOK
    <3>2. Cardinality(InFlight') \in Nat /\ Cardinality(InFlight') <= Cardinality(InFlight) + 1
      BY <1>1, <3>1, OneMore
    <3>3. Cardinality(InFlight) < Workers
      BY <1>3 DEF Admit
    <3> QED BY <1>2, <2>1, <2>3, <3>2, <3>3 DEF PlacesInv
  <2> QED BY <2>2, <2>3
<1>4. ASSUME NEW c \in Conns, Insert(c) PROVE PlacesInv'
  <2>1. c \in InFlight /\ InFlight' = InFlight \ {c}
    BY <1>4 DEF Insert, Goto, InFlight, TypeOK
  <2>2. Cardinality(InFlight') = Cardinality(InFlight) - 1
    BY <1>1, <2>1, FS_RemoveElement
  <2>3. clients' = clients \cup {c}
    BY <1>4 DEF Insert
  <2>4. Cardinality(clients') <= Cardinality(clients) + 1 /\ Cardinality(clients') \in Nat
    BY <1>1, <2>3, OneMore
  <2> QED BY <1>2, <2>2, <2>4 DEF PlacesInv
<1>5. ASSUME NEW c \in Conns, Remove(c) PROVE PlacesInv'
  <2>1. InFlight' = InFlight
    BY <1>5 DEF Remove, Goto, InFlight, TypeOK
  <2>2. clients' \subseteq clients
    BY <1>5 DEF Remove
  <2>3. Cardinality(clients') <= Cardinality(clients) /\ Cardinality(clients') \in Nat
    BY <1>1, <2>2, FS_Subset, FS_CardinalityType
  <2> QED BY <1>2, <2>1, <2>3 DEF PlacesInv
<1>6. CASE ProcessExit
  <2>1. clients' = {} /\ InFlight' = {}
    BY <1>6 DEF ProcessExit, InFlight, TypeOK, Ended
  <2>2. Cardinality({}) = 0
    BY FS_EmptySet
  <2> QED BY <2>1, <2>2 DEF PlacesInv
<1>7. ASSUME InFlight' = InFlight, clients' = clients PROVE PlacesInv'
  BY <1>7 DEF PlacesInv
<1>8. ASSUME NEW c \in Conns,
             Accept(c) \/ Register(c) \/ LoopTop(c) \/ Receive(c) \/ Read(c)
               \/ BatchEnd(c) \/ Flush(c) \/ Unregister(c) \/ HangUp(c)
      PROVE PlacesInv'
  <2>1. clients' = clients
    BY <1>8 DEF Accept, Register, LoopTop, Receive, Read, BatchEnd, Flush, Unregister, HangUp
  <2>2. \E where : where # "admitted" /\ pc[c] # "admitted" /\ pc' = [pc EXCEPT ![c] = where]
    <3>1. CASE Accept(c) \/ Register(c) \/ LoopTop(c) \/ Read(c) \/ BatchEnd(c) \/ HangUp(c)
      BY <3>1 DEF Accept, Register, LoopTop, Read, BatchEnd, HangUp, Goto
    <3>2. CASE Receive(c) \/ Flush(c) \/ Unregister(c)
      BY <3>2 DEF Receive, Flush, Unregister, LeaveLosing, Goto
    <3> QED BY <1>8, <3>1, <3>2
  <2>3. InFlight' = InFlight
    BY <2>2 DEF InFlight, TypeOK
  <2> QED BY <1>7, <2>1, <2>3
<1>9. ASSUME UNCHANGED <<pc, clients>> PROVE PlacesInv'
  BY <1>7, <1>9 DEF InFlight
<1>10. ASSUME NEW c \in Conns,
              Run(c) \/ Push(c, "Frame") \/ Push(c, "Unblock") \/ ShutdownKill(c)
       PROVE PlacesInv'
  BY <1>9, <1>10 DEF Run, Push, ShutdownKill
<1>11. CASE LoopReturns \/ ShutdownFlag \/ ShutdownSnapshot \/ ShutdownAbort \/ UNCHANGED vars
  BY <1>9, <1>11 DEF LoopReturns, ShutdownFlag, ShutdownSnapshot, ShutdownAbort, vars
<1> QED BY Zenon, NextCases, <1>3, <1>4, <1>5, <1>6, <1>8, <1>10, <1>11

(* Who is counted is whoever is served.                                    *)
LEMMA CountedStep ==
  ASSUME TypeOK, CountedInv, [Next]_vars
  PROVE  CountedInv'
<1> USE DEF CountedInv, TypeOK, Serving, Goto, Left, Ended
<1>1. ASSUME NEW c \in Conns,
             Accept(c) \/ Admit(c) \/ Insert(c) \/ Register(c) \/ LoopTop(c) \/ Read(c)
               \/ BatchEnd(c) \/ Unregister(c) \/ HangUp(c)
      PROVE CountedInv'
  <2>1. CASE Accept(c) \/ Admit(c)
    BY <2>1 DEF Accept, Admit
  <2>2. CASE Insert(c)
    BY <2>2 DEF Insert
  <2>3. CASE Register(c) \/ LoopTop(c) \/ Read(c)
    BY <2>3 DEF Register, LoopTop, Read
  <2>4. CASE BatchEnd(c) \/ Unregister(c) \/ HangUp(c)
    BY <2>4 DEF BatchEnd, Unregister, HangUp
  <2> QED BY <1>1, <2>1, <2>2, <2>3, <2>4
<1>2. ASSUME NEW c \in Conns, Receive(c) \/ Flush(c) PROVE CountedInv'
  <2>1. /\ UNCHANGED <<clients, stop>> /\ pc[c] \in Serving
        /\ \E where \in Serving : pc' = [pc EXCEPT ![c] = where]
    BY <1>2 DEF Receive, Flush, LeaveLosing
  <2> QED BY <2>1
<1>3. ASSUME NEW c \in Conns, Remove(c) PROVE CountedInv'
  BY <1>3 DEF Remove
<1>4. ASSUME NEW c \in Conns,
             Run(c) \/ Push(c, "Frame") \/ Push(c, "Unblock") \/ ShutdownKill(c)
      PROVE CountedInv'
  <2>1. UNCHANGED <<pc, clients, stop>>
    BY <1>4 DEF Run, Push, ShutdownKill
  <2> QED BY <2>1
<1>5. CASE LoopReturns \/ ShutdownFlag \/ ShutdownSnapshot \/ ShutdownAbort \/ UNCHANGED vars
  BY <1>5 DEF LoopReturns, ShutdownFlag, ShutdownSnapshot, ShutdownAbort, vars
<1>6. CASE ProcessExit
  BY <1>6 DEF ProcessExit
<1> QED BY Zenon, NextCases, <1>1, <1>2, <1>3, <1>4, <1>5, <1>6

(* maxclients is exceeded by at most the worker threads but one, and the   *)
(* count it is compared with is exact: the check of serve_stream, for any  *)
(* limit and any number of connections.                                    *)
THEOREM ConnAdmission == Spec => []AdmissionOvershoot
<1>1. Init => PlacesInv /\ CountedInv
  <2> SUFFICES ASSUME Init PROVE PlacesInv /\ CountedInv
    OBVIOUS
  <2>1. clients = {} /\ InFlight = {}
    BY DEF Init, InFlight
  <2>2. Cardinality({}) = 0
    BY FS_EmptySet
  <2>3. PlacesInv
    BY <2>1, <2>2, ConnAssumption DEF PlacesInv, ConnAssumption
  <2>4. CountedInv
    BY DEF Init, CountedInv, Serving, Left
  <2> QED BY <2>3, <2>4
<1>2. TypeOK /\ PlacesInv /\ CountedInv /\ [Next]_vars => PlacesInv' /\ CountedInv'
  BY PlacesStep, CountedStep
<1>3. TypeOK /\ PlacesInv /\ CountedInv => AdmissionOvershoot
  <2> SUFFICES ASSUME TypeOK, PlacesInv, CountedInv PROVE AdmissionOvershoot
    OBVIOUS
  <2>1. Cardinality(clients) \in Nat /\ Cardinality(InFlight) \in Nat
    BY ConnAssumption, FS_Subset, FS_CardinalityType DEF ConnAssumption, TypeOK, InFlight
  <2>2. Cardinality(clients) <= MaxClients + Workers - 1
    BY <2>1, ConnAssumption DEF PlacesInv, ConnAssumption
  <2> QED BY <2>2 DEF AdmissionOvershoot, CountedInv, Serving
<1> QED BY <1>1, <1>2, <1>3, ConnTypeCorrect, PTL DEF Spec

(* A connection that ends for any reason but a failed write, a breached    *)
(* limit or the end of the process has flushed what it staged: every way   *)
(* out of connection_loop's batch goes through its flush.                  *)
THEOREM ConnOwedRepliesSent == Spec => []OwedRepliesSent
<1>1. Init => StagedInv
  BY DEF Init, StagedInv
<1>2. TypeOK /\ StagedInv /\ [Next]_vars => StagedInv'
  <2> SUFFICES ASSUME TypeOK, StagedInv, [Next]_vars PROVE StagedInv'
    OBVIOUS
  <2> USE DEF StagedInv, TypeOK, Goto
  <2>1. ASSUME NEW c \in Conns,
               Accept(c) \/ Admit(c) \/ Insert(c) \/ Register(c) \/ LoopTop(c) \/ Read(c)
                 \/ BatchEnd(c) \/ Unregister(c) \/ HangUp(c)
        PROVE StagedInv'
    <3>1. UNCHANGED <<staged, lost>>
      BY <2>1 DEF Accept, Admit, Insert, Register, LoopTop, Read, BatchEnd, Unregister, HangUp
    <3>2. /\ \/ pc[c] \notin {"batch", "flush"}
             \/ pc'[c] = "flush"
          /\ \E where : pc' = [pc EXCEPT ![c] = where]
      <4>1. CASE Accept(c) \/ Admit(c) \/ Insert(c) \/ Register(c) \/ LoopTop(c)
        BY <4>1 DEF Accept, Admit, Insert, Register, LoopTop
      <4>2. CASE Read(c) \/ BatchEnd(c) \/ Unregister(c) \/ HangUp(c)
        BY <4>2 DEF Read, BatchEnd, Unregister, HangUp
      <4> QED BY <2>1, <4>1, <4>2
    <3> QED BY <3>1, <3>2
  <2>2. ASSUME NEW c \in Conns, Receive(c) PROVE StagedInv'
    BY <2>2, ZenonT(30) DEF Receive, LeaveLosing
  <2>3. ASSUME NEW c \in Conns, Flush(c) PROVE StagedInv'
    BY <2>3 DEF Flush, LeaveLosing
  <2>4. ASSUME NEW c \in Conns, Run(c) PROVE StagedInv'
    <3>1. pc' = pc /\ lost' = lost /\ pc[c] = "batch"
      BY <2>4 DEF Run
    <3>2. \A d \in Conns : d # c => staged'[d] = staged[d]
      BY <2>4 DEF Run
    <3> QED BY <3>1, <3>2
  <2>5. ASSUME UNCHANGED <<pc, staged, lost>> PROVE StagedInv'
    BY <2>5
  <2>6. ASSUME NEW c \in Conns, Push(c, "Frame") \/ Push(c, "Unblock") \/ ShutdownKill(c)
        PROVE StagedInv'
    BY <2>5, <2>6 DEF Push, ShutdownKill
  <2>7. CASE LoopReturns \/ ShutdownFlag \/ ShutdownSnapshot \/ ShutdownAbort \/ UNCHANGED vars
    BY <2>5, <2>7 DEF LoopReturns, ShutdownFlag, ShutdownSnapshot, ShutdownAbort, vars
  <2>8. CASE ProcessExit
    BY <2>8 DEF ProcessExit
  <2>9. ASSUME NEW c \in Conns, Remove(c) PROVE StagedInv'
    BY <2>9 DEF Remove
  <2> QED BY Zenon, NextCases, <2>1, <2>2, <2>3, <2>4, <2>6, <2>7, <2>8, <2>9
<1>3. StagedInv => OwedRepliesSent
  BY DEF StagedInv, OwedRepliesSent, Left
<1> QED BY <1>1, <1>2, <1>3, ConnTypeCorrect, PTL DEF Spec

-----------------------------------------------------------------------------
(* The output buffer: its operations.                                      *)

Buffer == [staging : Seq(Nat), queued : Seq(Seq(Nat)), queued_bytes : Nat,
           head_off : Nat, peak : Nat, since : Int \cup {Nil}]

Queue(b) == Seqs!FlattenSeq(b.queued)

(* Buffer b has the bytes x to write, and its counters agree.              *)
Carries(b, x) ==
  /\ b \in Buffer
  /\ b.queued_bytes = Len(Queue(b))
  /\ b.head_off <= Len(Queue(b))
  /\ b.queued # <<>> => b.head_off <= Len(b.queued[1])
  /\ x = Without(Queue(b), b.head_off) \o b.staging

LEMMA CarriesType ==
  ASSUME NEW b, NEW x, Carries(b, x)
  PROVE  /\ b \in Buffer /\ Queue(b) \in Seq(Nat) /\ Len(Queue(b)) \in Nat
         /\ b.staging \in Seq(Nat) /\ b.queued \in Seq(Seq(Nat))
         /\ b.head_off \in 0..Len(Queue(b)) /\ b.head_off \in Nat
         /\ Without(Queue(b), b.head_off) \in Seq(Nat)
         /\ Len(Without(Queue(b), b.head_off)) = Len(Queue(b)) - b.head_off
         /\ x \in Seq(Nat) /\ Len(x) \in Nat /\ pending(b) = Len(x)
<1>1. /\ b.staging \in Seq(Nat) /\ b.queued \in Seq(Seq(Nat)) /\ b.head_off \in Nat
      /\ b.queued_bytes \in Nat
  BY DEF Carries, Buffer
<1>2. Queue(b) \in Seq(Nat) /\ Len(Queue(b)) \in Nat
  BY <1>1, FlattenType DEF Queue
<1>3. b.head_off \in 0..Len(Queue(b))
  BY <1>1, <1>2 DEF Carries
<1> DEFINE u == Without(Queue(b), b.head_off)
<1>4. u \in Seq(Nat) /\ Len(u) = Len(Queue(b)) - b.head_off
  BY <1>2, <1>3, WithoutType
<1>5. x = u \o b.staging
  BY DEF Carries
<1> HIDE DEF u
<1>6. x \in Seq(Nat) /\ Len(x) = Len(u) + Len(b.staging) /\ Len(x) \in Nat
  <2> DEFINE g == b.staging
  <2>1. g \in Seq(Nat) /\ x = u \o g
    BY <1>1, <1>5
  <2> HIDE DEF g
  <2>2. x \in Seq(Nat) /\ Len(x) = Len(u) + Len(g)
    BY <1>4, <2>1, ConcatProperties
  <2>3. QED
    BY <2>2 DEF g
<1>7. pending(b) = Len(x)
  <2>1. b.queued_bytes = Len(Queue(b)) /\ Len(b.staging) \in Nat
    BY <1>1 DEF Carries
  <2>2. QED
    BY <1>1, <1>2, <1>4, <1>6, <2>1 DEF pending
<1>8. QED
  BY <1>1, <1>2, <1>3, <1>4, <1>6, <1>7 DEF u, Carries

(* A change of the staged bytes, of peak or of since.                      *)
LEMMA CarriesStage ==
  ASSUME NEW b, NEW x, Carries(b, x), NEW f \in Seq(Nat)
  PROVE  Carries([b EXCEPT !.staging = @ \o f], x \o f)
<1> DEFINE c == [b EXCEPT !.staging = @ \o f]
           u == Without(Queue(b), b.head_off)
<1>1. b \in Buffer /\ b.staging \in Seq(Nat) /\ u \in Seq(Nat)
  BY CarriesType
<1>2. c \in Buffer /\ c.staging = b.staging \o f /\ c.queued = b.queued
      /\ c.head_off = b.head_off /\ c.queued_bytes = b.queued_bytes
  <2> DEFINE g == b.staging \o f
  <2>1. g \in Seq(Nat)
    BY <1>1
  <2>2. c = [b EXCEPT !.staging = g]
    BY <1>1 DEF Buffer
  <2> HIDE DEF g
  <2>3. QED
    BY <1>1, <2>1, <2>2 DEF Buffer, g
<1>3. x \o f = u \o (b.staging \o f)
  <2> DEFINE g == b.staging
  <2>1. x = u \o g /\ g \in Seq(Nat)
    BY <1>1 DEF Carries
  <2> HIDE DEF u, g
  <2>2. (u \o g) \o f = u \o (g \o f)
    BY <1>1, <2>1, ConcatAssociative, SMTT(30)
  <2>3. QED
    BY <2>1, <2>2 DEF g
<1> HIDE DEF c
<1>4. QED
  BY <1>2, <1>3 DEF Carries, Queue, c

LEMMA CarriesPeak ==
  ASSUME NEW b, NEW x, Carries(b, x), NEW p \in Nat, NEW s \in Int \cup {Nil}
  PROVE  Carries([b EXCEPT !.peak = p], x) /\ Carries([b EXCEPT !.since = s], x)
<1>1. b \in Buffer
  BY DEF Carries
<1>2. ASSUME NEW c \in Buffer, c.staging = b.staging, c.queued = b.queued,
             c.head_off = b.head_off, c.queued_bytes = b.queued_bytes
      PROVE  Carries(c, x)
  BY <1>2 DEF Carries, Queue
<1> DEFINE c == [b EXCEPT !.peak = p]
           d == [b EXCEPT !.since = s]
<1>3. c \in Buffer /\ c.staging = b.staging /\ c.queued = b.queued
      /\ c.head_off = b.head_off /\ c.queued_bytes = b.queued_bytes
  BY <1>1 DEF Buffer
<1>4. d \in Buffer /\ d.staging = b.staging /\ d.queued = b.queued
      /\ d.head_off = b.head_off /\ d.queued_bytes = b.queued_bytes
  BY <1>1 DEF Buffer
<1> HIDE DEF c, d
<1>5. QED
  BY <1>2, <1>3, <1>4 DEF c, d

LEMMA CarriesNote ==
  ASSUME NEW b, NEW x, Carries(b, x), b.peak <= OutMaxBytes, Len(x) <= OutMaxBytes
  PROVE  /\ Carries(note_pending(b), x)
         /\ note_pending(b).peak <= OutMaxBytes
         /\ note_pending(b).head_off = b.head_off
         /\ note_pending(b).since = b.since
         /\ note_pending(b).queued = b.queued
<1>1. pending(b) = Len(x) /\ Len(x) \in Nat /\ b \in Buffer /\ b.peak \in Nat
  BY CarriesType DEF Buffer
<1> DEFINE p == IF pending(b) > b.peak THEN pending(b) ELSE b.peak
<1>2. p \in Nat /\ p <= OutMaxBytes
  BY <1>1
<1>3. note_pending(b) = [b EXCEPT !.peak = p]
  BY DEF note_pending
<1> HIDE DEF p
<1>4. Carries([b EXCEPT !.peak = p], x)
  BY <1>2, CarriesPeak
<1>5. QED
  BY <1>1, <1>2, <1>3, <1>4 DEF Buffer

(* A frame joins the queue behind what is there, nothing being staged.     *)
LEMMA CarriesFrame ==
  ASSUME NEW b, NEW x, Carries(b, x), b.staging = <<>>, NEW f \in Seq(Nat)
  PROVE  Carries([b EXCEPT !.queued_bytes = @ + Len(f), !.queued = Append(@, f)], x \o f)
<1> DEFINE c == [b EXCEPT !.queued_bytes = @ + Len(f), !.queued = Append(@, f)]
           u == Without(Queue(b), b.head_off)
<1>1. /\ b \in Buffer /\ Queue(b) \in Seq(Nat) /\ b.queued \in Seq(Seq(Nat))
      /\ b.head_off \in 0..Len(Queue(b)) /\ u \in Seq(Nat) /\ b.head_off \in Nat
  BY CarriesType
<1>2. Append(b.queued, f) \in Seq(Seq(Nat)) /\ Len(f) \in Nat
  <2> DEFINE B == Seq(Nat)
  <2> HIDE DEF B
  <2>1. b.queued \in Seq(B) /\ f \in B
    BY <1>1 DEF B
  <2>2. Append(b.queued, f) \in Seq(B)
    BY <2>1
  <2>3. QED
    BY <2>2 DEF B
<1>3. c \in Buffer /\ c.staging = b.staging /\ c.queued = Append(b.queued, f)
      /\ c.head_off = b.head_off /\ c.queued_bytes = b.queued_bytes + Len(f)
  <2> DEFINE g == Append(b.queued, f)
             n == b.queued_bytes + Len(f)
  <2>1. g \in Seq(Seq(Nat)) /\ n \in Nat
    BY <1>1, <1>2 DEF Buffer
  <2>2. c = [b EXCEPT !.queued_bytes = n, !.queued = g]
    BY <1>1 DEF Buffer
  <2> HIDE DEF g, n
  <2>3. QED
    BY <1>1, <2>1, <2>2 DEF Buffer, g, n
<1> HIDE DEF c
<1>4. Queue(c) = Queue(b) \o f
  BY <1>1, <1>3, FlattenAppend DEF Queue
<1>5. Len(Queue(c)) = Len(Queue(b)) + Len(f)
  BY <1>1, <1>4
<1>6. Without(Queue(c), c.head_off) = u \o f
  BY <1>1, <1>3, <1>4, WithoutLeft
<1>7. x \o f = (u \o f) \o c.staging
  <2>1. x = u \o <<>>
    BY DEF Carries
  <2> HIDE DEF u
  <2>2. x = u /\ u \o f \in Seq(Nat)
    BY <1>1, <2>1
  <2>3. QED
    BY <1>3, <2>2, ConcatEmptySeq
<1>8. c.head_off <= Len(c.queued[1])
  <2>1. CASE b.queued = <<>>
    <3>1. c.queued[1] = f /\ Queue(b) = <<>>
      BY <1>3, <2>1, FlattenEmpty DEF Queue
    <3>2. b.head_off = 0
      BY <1>1, <3>1
    <3>3. QED
      BY <1>2, <1>3, <3>1, <3>2
  <2>2. CASE b.queued # <<>>
    <3>1. 1 \in 1..Len(b.queued)
      BY <1>1, <2>2
    <3>2. c.queued[1] = b.queued[1]
      <4> DEFINE B == Seq(Nat)
      <4> HIDE DEF B
      <4>1. b.queued \in Seq(B) /\ f \in B
        BY <1>1 DEF B
      <4>2. QED
        BY <1>3, <3>1, <4>1, AppendProperties
    <3>3. QED
      BY <1>3, <2>2, <3>2 DEF Carries
  <2>3. QED
    BY <2>1, <2>2
<1>9. c.queued_bytes = Len(Queue(c)) /\ c.head_off <= Len(Queue(c))
  <2>1. b.queued_bytes = Len(Queue(b)) /\ Len(Queue(b)) \in Nat
    BY <1>1 DEF Carries
  <2>2. QED
    BY <1>1, <1>2, <1>3, <1>5, <2>1
<1>10. QED
  BY <1>3, <1>6, <1>7, <1>8, <1>9 DEF Carries, c

LEMMA CarriesSeal ==
  ASSUME NEW b, NEW x, Carries(b, x)
  PROVE  /\ Carries(seal(b), x)
         /\ seal(b).staging = <<>>
         /\ seal(b).head_off = b.head_off
         /\ seal(b).since = b.since
         /\ seal(b).peak = b.peak
         /\ b.staging # <<>> => seal(b).queued # <<>>
         /\ b.queued # <<>> => seal(b).queued # <<>>
<1>1. b \in Buffer /\ b.staging \in Seq(Nat) /\ Without(Queue(b), b.head_off) \in Seq(Nat)
  BY CarriesType
<1>2. CASE b.staging = <<>>
  <2>1. seal(b) = b
    BY <1>2 DEF seal
  <2>2. QED
    BY <1>2, <2>1
<1>3. CASE b.staging # <<>>
  <2> DEFINE f == b.staging
             e == [b EXCEPT !.staging = <<>>]
             u == Without(Queue(b), b.head_off)
             g == [e EXCEPT !.queued_bytes = @ + Len(f), !.queued = Append(@, f)]
  <2>1. e \in Buffer /\ e.staging = <<>> /\ e.queued = b.queued
        /\ e.head_off = b.head_off /\ e.queued_bytes = b.queued_bytes
        /\ e.since = b.since /\ e.peak = b.peak
    <3>1. <<>> \in Seq(Nat)
      OBVIOUS
    <3>2. QED
      BY <1>1, <3>1 DEF Buffer
  <2>2. u \o <<>> = u /\ x = u \o f
    <3>1. x = u \o f
      BY DEF Carries
    <3> HIDE DEF u, f
    <3>2. QED
      BY <1>1, <3>1, ConcatEmptySeq DEF u
  <2>3. Carries(e, u)
    <3> HIDE DEF e
    <3>1. Queue(e) = Queue(b)
      BY <2>1 DEF Queue
    <3>2. QED
      BY <2>1, <2>2, <3>1 DEF Carries
  <2>4. Carries(g, u \o f)
    <3> HIDE DEF e, u, f
    <3>1. f \in Seq(Nat)
      BY <1>1 DEF f
    <3>2. QED
      BY <2>1, <2>3, <3>1, CarriesFrame
  <2>5. seal(b) = g
    BY <1>1, <1>3 DEF seal, Buffer
  <2>6. g.staging = <<>> /\ g.head_off = b.head_off /\ g.since = b.since
        /\ g.peak = b.peak /\ g.queued = Append(b.queued, f)
    <3> HIDE DEF e
    <3>1. QED
      BY <2>1 DEF Buffer
  <2>7. Append(b.queued, f) # <<>>
    <3>1. b.queued \in Seq(Seq(Nat))
      BY CarriesType
    <3> DEFINE B == Seq(Nat)
    <3> HIDE DEF B
    <3>2. QED
      BY <1>1, <3>1, AppendProperties, ZenonT(30) DEF B
  <2> HIDE DEF g, u, f
  <2>8. QED
    BY <2>2, <2>4, <2>5, <2>6, <2>7
<1>4. QED
  BY <1>2, <1>3

LEMMA CarriesPush ==
  ASSUME NEW b, NEW x, Carries(b, x), NEW f \in Seq(Nat), f # <<>>,
         b.peak <= OutMaxBytes, Len(x) + Len(f) <= OutMaxBytes
  PROVE  /\ Carries(push_bytes(b, f), x \o f)
         /\ push_bytes(b, f).peak <= OutMaxBytes
         /\ push_bytes(b, f).head_off = b.head_off
         /\ push_bytes(b, f).since = b.since
<1> DEFINE s == seal(b)
           g == [s EXCEPT !.queued_bytes = @ + Len(f), !.queued = Append(@, f)]
<1>1. Carries(s, x) /\ s.staging = <<>> /\ s.head_off = b.head_off
      /\ s.since = b.since /\ s.peak = b.peak
  BY CarriesSeal
<1> HIDE DEF s
<1>2. Carries(g, x \o f)
  BY <1>1, CarriesFrame
<1>3. g.head_off = s.head_off /\ g.since = s.since /\ g.peak = s.peak
  <2>1. s \in Buffer
    BY <1>1 DEF Carries
  <2>2. QED
    BY <2>1 DEF Buffer
<1>4. Len(x \o f) <= OutMaxBytes
  <2>1. x \in Seq(Nat)
    BY CarriesType
  <2>2. Len(x \o f) = Len(x) + Len(f)
    BY <2>1
  <2>3. QED
    BY <2>2
<1>5. push_bytes(b, f) = note_pending(g)
  BY DEF push_bytes, s
<1> HIDE DEF g
<1>6. QED
  BY <1>1, <1>2, <1>3, <1>4, <1>5, CarriesNote

LEMMA CarriesDiscard ==
  ASSUME NEW b \in Buffer
  PROVE  /\ Carries(discard(b), <<>>)
         /\ discard(b).peak = b.peak /\ discard(b).head_off = 0
<1> DEFINE d == discard(b)
<1>1. <<>> \in Seq(Nat) /\ <<>> \in Seq(Seq(Nat)) /\ Len(<<>>) = 0
  OBVIOUS
<1>2. /\ d \in Buffer /\ d.staging = <<>> /\ d.queued = <<>> /\ d.queued_bytes = 0
      /\ d.head_off = 0 /\ d.peak = b.peak
  BY <1>1 DEF discard, Buffer
<1> HIDE DEF d
<1>3. Queue(d) = <<>>
  BY <1>2, FlattenEmpty DEF Queue
<1>4. Without(<<>>, 0) = <<>> /\ <<>> \o <<>> = <<>>
  BY DEF Without
<1>5. QED
  BY <1>1, <1>2, <1>3, <1>4 DEF Carries, d

LEMMA HeadFrame ==
  ASSUME NEW q \in Seq(Seq(Nat)), q # <<>>
  PROVE  /\ q[1] \in Seq(Nat) /\ Len(q) \in Nat \ {0} /\ Without(q, 1) \in Seq(Seq(Nat))
         /\ Seqs!FlattenSeq(q) = q[1] \o Seqs!FlattenSeq(Without(q, 1))
<1>1. Len(q) \in Nat \ {0} /\ 1 \in 0..Len(q) /\ 1 \in 1..Len(q)
  OBVIOUS
<1>2. q[1] \in Seq(Nat)
  <2> DEFINE B == Seq(Nat)
  <2> HIDE DEF B
  <2>1. q \in Seq(B)
    BY DEF B
  <2>2. q[1] \in B
    BY <1>1, <2>1
  <2>3. QED
    BY <2>2 DEF B
<1>3. SubSeq(q, 1, 1) = <<q[1]>>
  <2> DEFINE B == Seq(Nat)
             f == SubSeq(q, 1, 1)
             g == <<q[1]>>
  <2> HIDE DEF B
  <2>1. q \in Seq(B) /\ q[1] \in B
    BY <1>2 DEF B
  <2>2. f \in Seq(B) /\ Len(f) = 1 /\ \A i \in 1..1 : f[i] = q[i]
    BY <1>1, <2>1, FrontType
  <2>3. g \in Seq(B) /\ Len(g) = 1 /\ g[1] = q[1]
    BY <2>1
  <2> HIDE DEF f, g
  <2>4. \A i \in 1..Len(f) : f[i] = g[i]
    BY <2>2, <2>3
  <2>5. QED
    BY <2>2, <2>3, <2>4, SeqEqual DEF f, g
<1>4. QED
  BY <1>1, <1>2, <1>3, FlattenSplit, FlattenOne

LEMMA BytesConcat ==
  ASSUME NEW u \in Seq(Nat), NEW v \in Seq(Nat), NEW w \in Seq(Nat)
  PROVE  u \o v \in Seq(Nat) /\ (u \o v) \o w = u \o (v \o w)
<1>1. u \o v \in Seq(Nat)
  BY ConcatProperties
<1>2. (u \o v) \o w = u \o (v \o w)
  BY ONLY u \in Seq(Nat), v \in Seq(Nat), w \in Seq(Nat), ConcatAssociative, SMTT(30)
<1>3. QED
  BY <1>1, <1>2

(* What is offered to the socket is the beginning of what is to be sent.   *)
LEMMA OfferedIsFront ==
  ASSUME NEW b, NEW x, Carries(b, x), b.queued # <<>>, NEW v \in BOOLEAN
  PROVE  /\ Offered(b, v) \in Seq(Nat)
         /\ \E t \in Seq(Nat) : Without(Queue(b), b.head_off) = Offered(b, v) \o t
<1> DEFINE q == b.queued
           h == q[1]
           tail == Without(q, 1)
           rest == Seqs!FlattenSeq(tail)
           head == Without(h, b.head_off)
           m == IF Len(q) < MAX_IOVECS THEN Len(q) ELSE MAX_IOVECS
           more == [k \in 1..m-1 |-> q[k + 1]]
<1>1. q \in Seq(Seq(Nat)) /\ b.head_off \in Nat /\ b.head_off <= Len(h)
  BY CarriesType DEF Carries
<1>2. h \in Seq(Nat) /\ Len(q) \in Nat \ {0} /\ tail \in Seq(Seq(Nat)) /\ Queue(b) = h \o rest
  BY <1>1, HeadFrame DEF Queue
<1>3. rest \in Seq(Nat)
  <2> HIDE DEF tail
  <2>1. QED
    BY <1>2, FlattenType
<1>4. head \in Seq(Nat) /\ Without(Queue(b), b.head_off) = head \o rest
  <2> HIDE DEF h, rest
  <2>1. b.head_off \in 0..Len(h)
    BY <1>1, <1>2
  <2>2. QED
    BY <1>2, <1>3, <2>1, WithoutType, WithoutLeft
<1>5. head = SubSeq(b.queued[1], b.head_off + 1, Len(b.queued[1]))
  BY DEF Without
<1>6. CASE ~v \/ Len(q) = 1
  <2>1. Offered(b, v) = head
    BY <1>5, <1>6 DEF Offered
  <2> HIDE DEF head, rest
  <2>2. QED
    BY <1>3, <1>4, <2>1
<1>7. CASE ~(~v \/ Len(q) = 1)
  <2>1. Offered(b, v) = head \o Seqs!FlattenSeq(more)
    <3> HIDE DEF head
    <3>1. QED
      BY <1>5, <1>7 DEF Offered
  <2>2. m \in 1..Len(q) /\ m - 1 \in 0..Len(q)-1
    BY <1>2, OutAssumption
  <2>3. Len(tail) = Len(q) - 1 /\ \A i \in 1..Len(q)-1 : tail[i] = q[1 + i]
    <3> DEFINE B == Seq(Nat)
    <3> HIDE DEF B, q
    <3>1. q \in Seq(B) /\ 1 \in 0..Len(q)
      BY <1>1, <1>2 DEF B
    <3>2. QED
      BY <3>1, WithoutType
  <2>4. more = SubSeq(tail, 1, m - 1)
    <3> DEFINE B == Seq(Nat)
               f == SubSeq(tail, 1, m - 1)
    <3>1. tail \in Seq(B) /\ m - 1 \in 0..Len(tail)
      BY <1>2, <2>2, <2>3
    <3> HIDE DEF B, tail, m, q
    <3>2. f \in Seq(B) /\ Len(f) = m - 1 /\ \A i \in 1..m-1 : f[i] = tail[i]
      BY <3>1, FrontType
    <3> HIDE DEF f
    <3>3. f = [i \in 1..m-1 |-> f[i]]
      <4>1. f \in [1..Len(f) -> B]
        BY <3>2, LenProperties
      <4>2. QED
        BY <3>2, <4>1
    <3>4. \A i \in 1..m-1 : f[i] = q[i + 1]
      BY <1>2, <2>2, <2>3, <3>2
    <3>5. QED
      BY <3>3, <3>4 DEF f
  <2> DEFINE w == Seqs!FlattenSeq(more)
             t == Seqs!FlattenSeq(Without(tail, m - 1))
  <2>5. w \in Seq(Nat) /\ t \in Seq(Nat) /\ rest = w \o t
    <3>1. m - 1 \in 0..Len(tail)
      BY <2>2, <2>3
    <3> HIDE DEF tail, m, more
    <3>2. SubSeq(tail, 1, m - 1) \in Seq(Seq(Nat)) /\ Without(tail, m - 1) \in Seq(Seq(Nat))
          /\ rest = Seqs!FlattenSeq(SubSeq(tail, 1, m - 1)) \o t
      BY <1>2, <3>1, FlattenSplit
    <3>3. QED
      BY <2>4, <3>2, FlattenType
  <2> HIDE DEF head, rest, w, t
  <2>6. head \o w \in Seq(Nat) /\ head \o rest = (head \o w) \o t
    <3>a. head \in Seq(Nat) /\ w \in Seq(Nat) /\ t \in Seq(Nat)
      BY <1>4, <2>5
    <3>1. (head \o w) \o t = head \o (w \o t)
      BY ONLY <3>a, BytesConcat
    <3>2. head \o w \in Seq(Nat)
      BY ONLY <3>a, BytesConcat
    <3>3. head \o rest = head \o (w \o t)
      BY <2>5
    <3>4. QED
      BY <3>1, <3>2, <3>3
  <2>7. QED
    BY <1>4, <2>1, <2>5, <2>6 DEF w
<1>8. QED
  BY <1>6, <1>7

(* Taking n bytes off the queue takes them off what is carried.            *)
LEMMA CarriesAdvance ==
  ASSUME NEW b, NEW x, Carries(b, x), NEW n \in Nat, b.head_off + n <= Len(Queue(b))
  PROVE  /\ Carries(advance(b, n), Without(x, n))
         /\ n \in 0..Len(x)
         /\ advance(b, n).peak = b.peak /\ advance(b, n).since = b.since
         /\ advance(b, n).queued = <<>> =>
              advance(b, n).queued_bytes = 0 /\ advance(b, n).head_off = 0
<1> DEFINE q == b.queued
           total(k) == Len(Seqs!FlattenSeq(SubSeq(q, 1, k)))
           upto == b.head_off + n
           done == {k \in 0..Len(q) : total(k) <= upto}
           last == CHOOSE d \in done : \A e \in done : d >= e
<1>1. /\ b \in Buffer /\ q \in Seq(Seq(Nat)) /\ b.head_off \in Nat /\ Queue(b) \in Seq(Nat)
      /\ Len(Queue(b)) \in Nat /\ b.staging \in Seq(Nat) /\ x \in Seq(Nat)
      /\ Without(Queue(b), b.head_off) \in Seq(Nat)
      /\ Len(Without(Queue(b), b.head_off)) = Len(Queue(b)) - b.head_off
  BY CarriesType
<1>2. Len(q) \in Nat /\ upto \in Nat /\ upto <= Len(Queue(b))
  BY <1>1
<1>3. \A k \in 0..Len(q) : total(k) \in Nat
  BY <1>1, FlattenSplit, FlattenType
<1>4. 0 \in done
  <2>1. SubSeq(q, 1, 0) = <<>>
    <3>1. 1 \in Int /\ 0 \in Int /\ 0 < 1
      OBVIOUS
    <3> HIDE DEF q
    <3>2. QED
      BY <3>1, SubSeqEmpty
  <2>2. total(0) = 0
    <3>1. Seqs!FlattenSeq(SubSeq(q, 1, 0)) = <<>>
      BY <2>1, FlattenEmpty
    <3>2. total(0) = Len(<<>>)
      BY <3>1
    <3>3. QED
      BY <3>2
  <2> HIDE DEF total, q
  <2>3. QED
    BY <1>2, <2>2
<1>5. last \in done /\ \A e \in done : last >= e
  <2>1. \E z \in done : \A y \in done : z >= y
    <3>1. done \in SUBSET (0..Len(q))
      OBVIOUS
    <3> HIDE DEF done
    <3>2. QED
      BY <1>2, <1>4, <3>1, GreatestNumber
  <2> HIDE DEF done
  <2>2. QED
    BY <2>1
<1>6. last \in 0..Len(q) /\ total(last) <= upto
  BY <1>5
<1> DEFINE A == Seqs!FlattenSeq(SubSeq(q, 1, last))
           C == Seqs!FlattenSeq(Without(q, last))
           off == upto - Len(A)
           c == advance(b, n)
<1> HIDE DEF last
<1>7. /\ SubSeq(q, 1, last) \in Seq(Seq(Nat)) /\ Without(q, last) \in Seq(Seq(Nat))
      /\ Queue(b) = A \o C
  BY <1>1, <1>6, FlattenSplit DEF Queue
<1>8. A \in Seq(Nat) /\ C \in Seq(Nat)
  BY <1>7, FlattenType
<1>9. Len(Queue(b)) = Len(A) + Len(C) /\ Len(A) \in Nat /\ Len(C) \in Nat
      /\ off \in 0..Len(C) /\ off \in Nat /\ upto = Len(A) + off
  <2>1. Len(A) <= upto
    BY <1>6
  <2> HIDE DEF A, C
  <2>2. QED
    BY <1>2, <1>7, <1>8, <2>1
<1>10. /\ c = [b EXCEPT !.queued = Without(q, last), !.queued_bytes = @ - Len(A),
                        !.head_off = off]
  <2>1. c = [b EXCEPT !.queued = SubSeq(@, last + 1, Len(@)),
                      !.queued_bytes = @ - total(last),
                      !.head_off = upto - total(last)]
    BY DEF advance, last
  <2>2. QED
    BY <1>1, <2>1 DEF Buffer, Without
<1> HIDE DEF c
<1>11. /\ c \in Buffer /\ c.queued = Without(q, last) /\ c.queued_bytes = Len(C)
       /\ c.head_off = off /\ c.staging = b.staging /\ c.peak = b.peak /\ c.since = b.since
  <2> DEFINE r == Without(q, last)
             w == b.queued_bytes - Len(A)
  <2>1. w = Len(C)
    <3>1. b.queued_bytes = Len(Queue(b))
      BY DEF Carries
    <3> HIDE DEF A, C
    <3>2. QED
      BY <1>9, <3>1
  <2>2. c = [b EXCEPT !.queued = r, !.queued_bytes = w, !.head_off = off]
    BY <1>1, <1>10 DEF Buffer
  <2>3. r \in Seq(Seq(Nat)) /\ w \in Nat /\ off \in Nat
    BY <1>7, <1>9, <2>1
  <2> HIDE DEF r, w, off, A, C
  <2>4. QED
    BY <1>1, <2>1, <2>2, <2>3 DEF Buffer, r
<1>12. Queue(c) = C
  BY <1>11 DEF Queue
<1>13. n \in 0..Len(x) /\ Without(x, n) = Without(C, off) \o b.staging
  <2> DEFINE u == Without(Queue(b), b.head_off)
             g == b.staging
  <2>1. x = u \o g /\ g \in Seq(Nat) /\ u \in Seq(Nat) /\ Len(u) = Len(Queue(b)) - b.head_off
    BY <1>1 DEF Carries
  <2>2. n \in 0..Len(u)
    <3> HIDE DEF u
    <3>1. QED
      BY <1>1, <2>1
  <2>3. Without(u, n) = Without(Queue(b), upto)
    BY <1>1, <1>2, WithoutTwice
  <2>4. Without(Queue(b), upto) = Without(C, off)
    <3> HIDE DEF A, C, off, upto
    <3>1. QED
      BY <1>7, <1>8, <1>9, WithoutAll
  <2> HIDE DEF u, g
  <2>5. Without(x, n) = Without(u, n) \o g /\ n \in 0..Len(x)
    <3>1. Len(x) = Len(u) + Len(g) /\ Len(u) \in Nat /\ Len(g) \in Nat
      BY <2>1, SMTT(30)
    <3>2. QED
      <4>1. Without(u \o g, n) = Without(u, n) \o g
        BY <2>1, <2>2, WithoutLeft
      <4>2. n \in 0..Len(x)
        BY <2>2, <3>1
      <4>3. QED
        BY <2>1, <4>1, <4>2
  <2>6. QED
    BY <2>3, <2>4, <2>5 DEF g
<1>14. c.queued = <<>> => c.queued_bytes = 0 /\ c.head_off = 0
  <2> SUFFICES ASSUME c.queued = <<>> PROVE c.queued_bytes = 0 /\ c.head_off = 0
    OBVIOUS
  <2>1. C = <<>>
    BY <1>11, FlattenEmpty
  <2>2. Len(C) = 0
    BY <2>1
  <2> HIDE DEF C, off
  <2>3. QED
    BY <1>9, <1>11, <2>2
<1>15. c.queued # <<>> => c.head_off <= Len(c.queued[1])
  <2> SUFFICES ASSUME c.queued # <<>> PROVE off <= Len(c.queued[1])
    BY <1>11
  <2> DEFINE r == Without(q, last)
             B == Seq(Nat)
  <2>1. r \in Seq(B) /\ Len(r) = Len(q) - last /\ \A i \in 1..Len(q)-last : r[i] = q[last + i]
    <3> HIDE DEF B, q
    <3>1. q \in Seq(B)
      BY <1>1 DEF B
    <3>2. QED
      BY <1>6, <3>1, WithoutType
  <2>2. r # <<>>
    BY <1>11
  <2>3. last + 1 \in 1..Len(q) /\ last + 1 \in 0..Len(q) /\ last \in Nat /\ r[1] = q[last + 1]
    <3> HIDE DEF r, B, q
    <3>1. Len(r) # 0
      BY <2>1, <2>2
    <3>2. QED
      BY <1>2, <1>6, <2>1, <3>1
  <2>4. last + 1 \notin done
    <3> HIDE DEF done
    <3>1. QED
      BY <1>5, <2>3
  <2>5. total(last + 1) > upto
    <3> HIDE DEF total, q
    <3>1. QED
      BY <1>2, <1>3, <2>3, <2>4
  <2> DEFINE f == q[last + 1]
             p == SubSeq(q, 1, last)
  <2>6. f \in Seq(Nat) /\ p \in Seq(Seq(Nat)) /\ SubSeq(q, 1, last + 1) = Append(p, f)
    <3> HIDE DEF B, q
    <3>1. q \in Seq(B) /\ f \in B
      BY <1>1, <2>3 DEF B
    <3>2. p \in Seq(B) /\ Len(p) = last /\ \A i \in 1..last : p[i] = q[i]
      BY <1>6, <3>1, FrontType
    <3> DEFINE y == SubSeq(q, 1, last + 1)
               z == Append(p, f)
    <3>3. y \in Seq(B) /\ Len(y) = last + 1 /\ \A i \in 1..last+1 : y[i] = q[i]
      BY <2>3, <3>1, FrontType
    <3>4. z \in Seq(B) /\ Len(z) = last + 1 /\ (\A i \in 1..last : z[i] = p[i]) /\ z[last + 1] = f
      <4> HIDE DEF p, f
      <4>1. QED
        BY <3>1, <3>2, AppendProperties
    <3> HIDE DEF y, z, p, f
    <3>5. \A i \in 1..Len(y) : y[i] = z[i]
      <4> SUFFICES ASSUME NEW i \in 1..Len(y) PROVE y[i] = z[i]
        OBVIOUS
      <4>1. i \in 1..last+1 /\ (i = last + 1 \/ i \in 1..last)
        BY <2>3, <3>3
      <4>2. QED
        BY <3>2, <3>3, <3>4, <4>1 DEF f
    <3>6. y = z
      BY <3>3, <3>4, <3>5, SeqEqual
    <3>7. QED
      BY <3>1, <3>2, <3>6 DEF y, z, B
  <2>7. total(last + 1) = Len(A \o f)
    <3> HIDE DEF f
    <3>1. QED
      BY <2>6, FlattenAppend
  <2>8. total(last + 1) = Len(A) + Len(f) /\ Len(f) \in Nat
    <3> HIDE DEF f, A, total
    <3>1. QED
      BY <1>8, <2>6, <2>7
  <2>9. QED
    <3>1. c.queued[1] = f
      BY <1>11, <2>3
    <3> HIDE DEF f, A, total, off, upto
    <3>2. QED
      BY <1>2, <1>9, <2>5, <2>8, <3>1
<1>16. QED
  <2>1. Carries(c, Without(x, n))
    <3> HIDE DEF C, off, q
    <3>1. QED
      BY <1>9, <1>11, <1>12, <1>13, <1>15 DEF Carries
  <2>2. QED
    BY <1>11, <1>13, <1>14, <2>1 DEF c

-----------------------------------------------------------------------------
(* The connection's output.                                                *)

(* The bytes of s are those after the first n, in order.                   *)
Numbered(s, n) == \A i \in 1..Len(s) : s[i] = n + i

(* The inductive invariant: the buffer carries what is owed, the socket    *)
(* has what came before it, and a flush always has a frame to write.       *)
OutInv ==
  /\ Carries(ob, owed)
  /\ ob.peak <= OutMaxBytes
  /\ obState \in {"idle", "flushing", "closed"}
  /\ obNow \in Nat
  /\ wire \in Seq(Nat)
  /\ Numbered(wire, 0) /\ Numbered(owed, Len(wire))
  /\ Len(wire) + Len(owed) <= OutMaxBytes
  /\ obState = "idle" => ob.head_off = 0
  /\ obState = "flushing" => ob.queued # <<>>

LEMMA OutTypes ==
  ASSUME OutInv
  PROVE  /\ owed \in Seq(Nat) /\ wire \in Seq(Nat) /\ Len(owed) \in Nat /\ Len(wire) \in Nat
         /\ ob \in Buffer /\ pending(ob) = Len(owed)
<1>1. Carries(ob, owed) /\ wire \in Seq(Nat)
  BY DEF OutInv
<1>2. QED
  BY <1>1, CarriesType

LEMMA FreshBytes ==
  ASSUME OutInv, NEW n \in Nat \ {0}
  PROVE  /\ Fresh(n) \in Seq(Nat) /\ Len(Fresh(n)) = n /\ Fresh(n) # <<>>
         /\ owed \o Fresh(n) \in Seq(Nat) /\ Len(owed \o Fresh(n)) = Len(owed) + n
         /\ Numbered(owed \o Fresh(n), Len(wire))
<1> DEFINE f == Fresh(n)
<1>1. owed \in Seq(Nat) /\ Len(owed) \in Nat /\ Len(wire) \in Nat
  BY OutTypes
<1>2. f \in [1..n -> Nat] /\ \A i \in 1..n : f[i] = Len(wire) + Len(owed) + i
  BY <1>1 DEF Fresh
<1> HIDE DEF f
<1>3. f \in Seq(Nat) /\ Len(f) = n
  BY <1>2
<1>4. f # <<>>
  BY <1>3
<1>5. /\ owed \o f \in Seq(Nat) /\ Len(owed \o f) = Len(owed) + n
      /\ \A i \in 1..Len(owed)+n : (owed \o f)[i] = IF i <= Len(owed) THEN owed[i] ELSE f[i - Len(owed)]
  BY <1>1, <1>3, ConcatProperties
<1>6. ASSUME NEW i \in 1..Len(owed)+n PROVE (owed \o f)[i] = Len(wire) + i
  <2>1. CASE i <= Len(owed)
    <3>1. i \in 1..Len(owed)
      BY <1>1, <2>1
    <3>2. QED
      BY <1>5, <2>1, <3>1 DEF OutInv, Numbered
  <2>2. CASE ~(i <= Len(owed))
    <3>1. i - Len(owed) \in 1..n /\ Len(wire) + Len(owed) + (i - Len(owed)) = Len(wire) + i
      BY <1>1, <2>2
    <3>2. QED
      BY <1>2, <1>5, <2>2, <3>1
  <2>3. QED
    BY <2>1, <2>2
<1>7. QED
  BY <1>3, <1>4, <1>5, <1>6 DEF Numbered, f

LEMMA WrittenBytes ==
  ASSUME NEW w \in Seq(Nat), NEW x \in Seq(Nat), Numbered(w, 0), Numbered(x, Len(w)),
         NEW n \in 0..Len(x)
  PROVE  LET v == w \o SubSeq(x, 1, n)
             y == Without(x, n)
         IN /\ v \in Seq(Nat) /\ Numbered(v, 0) /\ Numbered(y, Len(v))
            /\ Len(v) + Len(y) = Len(w) + Len(x)
<1> DEFINE a == SubSeq(x, 1, n)
           v == w \o a
           y == Without(x, n)
<1>1. a \in Seq(Nat) /\ Len(a) = n /\ \A i \in 1..n : a[i] = x[i]
  BY FrontType
<1>2. y \in Seq(Nat) /\ Len(y) = Len(x) - n /\ \A i \in 1..Len(x)-n : y[i] = x[n + i]
  BY WithoutType
<1> HIDE DEF a, y
<1>3. /\ v \in Seq(Nat) /\ Len(v) = Len(w) + Len(a)
      /\ \A i \in 1..Len(w)+Len(a) : v[i] = IF i <= Len(w) THEN w[i] ELSE a[i - Len(w)]
  BY <1>1, ConcatProperties
<1> HIDE DEF v
<1>4. Len(w) \in Nat /\ Len(x) \in Nat /\ n \in Nat
  OBVIOUS
<1>5. ASSUME NEW i \in 1..Len(v) PROVE v[i] = 0 + i
  <2>1. i \in 1..Len(w)+n
    BY <1>1, <1>3
  <2>2. CASE i <= Len(w)
    <3>1. i \in 1..Len(w)
      BY <1>4, <2>1, <2>2
    <3>2. w[i] = 0 + i
      BY <3>1 DEF Numbered
    <3>3. v[i] = w[i]
      BY <1>1, <1>3, <2>1, <2>2
    <3>4. QED
      BY <3>2, <3>3
  <2>3. CASE ~(i <= Len(w))
    <3>1. i - Len(w) \in 1..n /\ i - Len(w) \in 1..Len(x) /\ Len(w) + (i - Len(w)) = 0 + i
      BY <1>4, <2>1, <2>3
    <3>2. QED
      BY <1>1, <1>3, <2>1, <2>3, <3>1 DEF Numbered
  <2>4. QED
    BY <2>2, <2>3
<1>6. ASSUME NEW i \in 1..Len(y) PROVE y[i] = Len(v) + i
  <2>1. i \in 1..Len(x)-n /\ n + i \in 1..Len(x) /\ Len(w) + (n + i) = Len(v) + i
    BY <1>1, <1>2, <1>3, <1>4
  <2>2. QED
    BY <1>2, <2>1 DEF Numbered
<1>7. Len(v) + Len(y) = Len(w) + Len(x)
  BY <1>1, <1>2, <1>3, <1>4
<1>8. QED
  BY <1>3, <1>5, <1>6, <1>7 DEF Numbered, v, y, a

LEMMA LimitCheck ==
  ASSUME NEW b \in Buffer, NEW t \in Nat
  PROVE  check_limit(b, t).since \in Int \cup {Nil}
BY DEF check_limit, Buffer

LEMMA OutWriteStep ==
  ASSUME OutInv, NEW n \in 1..OutMaxBytes, NEW v \in BOOLEAN, OutWrite(n, v)
  PROVE  OutInv'
<1> DEFINE offer == Offered(ob, v)
           left == advance(ob, n)
           u == Without(Queue(ob), ob.head_off)
           g == ob.staging
<1>1. /\ obState = "flushing" /\ n <= Len(offer)
      /\ wire' = wire \o SubSeq(offer, 1, n)
      /\ owed' = Without(owed, n)
      /\ IF left.queued # <<>> THEN ob' = left /\ UNCHANGED obState
         ELSE ob' = [left EXCEPT !.head_off = 0, !.queued_bytes = 0] /\ obState' = "idle"
      /\ UNCHANGED obNow
  BY DEF OutWrite, Without
<1>2. Carries(ob, owed) /\ ob.queued # <<>>
  BY <1>1 DEF OutInv
<1>3. offer \in Seq(Nat) /\ \E t \in Seq(Nat) : u = offer \o t
  BY <1>2, OfferedIsFront
<1>4. PICK t \in Seq(Nat) : u = offer \o t
  BY <1>3
<1>5. /\ g \in Seq(Nat) /\ u \in Seq(Nat) /\ Len(u) = Len(Queue(ob)) - ob.head_off
      /\ ob.head_off \in Nat /\ Len(Queue(ob)) \in Nat /\ owed \in Seq(Nat) /\ ob \in Buffer
      /\ Len(owed) \in Nat
  BY <1>2, CarriesType
<1>6. owed = u \o g
  BY <1>2 DEF Carries
<1>7. n \in 0..Len(offer) /\ n \in Nat /\ n \in 0..Len(u)
  <2> HIDE DEF offer, u
  <2>1. Len(offer) \in Nat /\ Len(u) = Len(offer) + Len(t) /\ Len(t) \in Nat
    BY <1>3, <1>4
  <2>2. QED
    BY <1>1, <2>1
<1>8. SubSeq(offer, 1, n) = SubSeq(owed, 1, n)
  <2> HIDE DEF offer, u, g
  <2>1. SubSeq(u, 1, n) = SubSeq(offer, 1, n)
    BY <1>3, <1>4, <1>7, FrontLeft
  <2>2. SubSeq(owed, 1, n) = SubSeq(u, 1, n)
    BY <1>5, <1>6, <1>7, FrontLeft
  <2>3. QED
    BY <2>1, <2>2
<1>9. ob.head_off + n <= Len(Queue(ob))
  <2> HIDE DEF u
  <2>1. QED
    BY <1>5, <1>7
<1>10. /\ Carries(left, owed') /\ n \in 0..Len(owed)
       /\ left.peak = ob.peak /\ left.since = ob.since
       /\ left.queued = <<>> => left.queued_bytes = 0 /\ left.head_off = 0
  BY <1>1, <1>2, <1>7, <1>9, CarriesAdvance
<1> HIDE DEF offer, left, u, g
<1>11. ob' = left /\ obState' = IF left.queued # <<>> THEN "flushing" ELSE "idle"
  <2>1. CASE left.queued # <<>>
    BY <1>1, <2>1
  <2>2. CASE left.queued = <<>>
    <3>1. left \in Buffer
      BY <1>10 DEF Carries
    <3>2. [left EXCEPT !.head_off = 0, !.queued_bytes = 0] = left
      BY <1>10, <2>2, <3>1 DEF Buffer
    <3>3. QED
      BY <1>1, <2>2, <3>2
  <2>3. QED
    BY <2>1, <2>2
<1>12. /\ wire' \in Seq(Nat) /\ Numbered(wire', 0) /\ Numbered(owed', Len(wire'))
       /\ Len(wire') + Len(owed') = Len(wire) + Len(owed)
  <2>1. wire' = wire \o SubSeq(owed, 1, n) /\ owed' = Without(owed, n)
    BY <1>1, <1>8
  <2>2. wire \in Seq(Nat) /\ Numbered(wire, 0) /\ Numbered(owed, Len(wire))
    BY DEF OutInv
  <2>3. QED
    BY <1>5, <1>10, <2>1, <2>2, WrittenBytes
<1>13. QED
  <2>1. ob'.peak <= OutMaxBytes /\ obNow' \in Nat
        /\ Len(wire') + Len(owed') <= OutMaxBytes
    BY <1>1, <1>10, <1>11, <1>12 DEF OutInv
  <2>2. obState' \in {"idle", "flushing", "closed"}
        /\ (obState' = "idle" => ob'.head_off = 0)
        /\ (obState' = "flushing" => ob'.queued # <<>>)
    BY <1>10, <1>11
  <2>3. Carries(ob', owed')
    BY <1>10, <1>11
  <2>4. QED
    BY <1>12, <2>1, <2>2, <2>3 DEF OutInv

LEMMA OutPushStep ==
  ASSUME OutInv, NEW n \in 1..OutMaxBytes, OutPush(n)
  PROVE  OutInv'
<1> DEFINE pushed == push_bytes(ob, Fresh(n))
           check == check_limit(pushed, obNow)
           kept == [pushed EXCEPT !.since = check.since]
<1>1. /\ obState = "idle" /\ Len(wire) + Len(owed) + n <= OutMaxBytes
      /\ IF check.breach = Nil
         THEN ob' = kept /\ owed' = owed \o Fresh(n) /\ UNCHANGED obState
         ELSE ob' = discard(kept) /\ owed' = <<>> /\ obState' = "closed"
      /\ UNCHANGED <<obNow, wire>>
  BY DEF OutPush, Room
<1>2. n \in Nat \ {0} /\ OutMaxBytes \in Nat
  BY OutAssumption
<1>3. /\ Fresh(n) \in Seq(Nat) /\ Len(Fresh(n)) = n /\ Fresh(n) # <<>>
      /\ owed \o Fresh(n) \in Seq(Nat) /\ Len(owed \o Fresh(n)) = Len(owed) + n
      /\ Numbered(owed \o Fresh(n), Len(wire))
  BY <1>2, FreshBytes
<1>4. Len(owed) \in Nat /\ Len(wire) \in Nat /\ wire \in Seq(Nat)
  BY OutTypes
<1>5. /\ Carries(pushed, owed \o Fresh(n)) /\ pushed.peak <= OutMaxBytes
      /\ pushed.head_off = ob.head_off /\ pushed.since = ob.since
  <2> DEFINE f == Fresh(n)
  <2> HIDE DEF f
  <2>1. f \in Seq(Nat) /\ f # <<>> /\ Len(owed) + Len(f) <= OutMaxBytes
    BY <1>1, <1>2, <1>3, <1>4 DEF f
  <2>2. Carries(ob, owed) /\ ob.peak <= OutMaxBytes
    BY DEF OutInv
  <2>3. QED
    BY <2>1, <2>2, CarriesPush DEF f
<1> HIDE DEF pushed
<1>6. pushed \in Buffer /\ check.since \in Int \cup {Nil}
  <2>1. pushed \in Buffer
    BY <1>5 DEF Carries
  <2>2. obNow \in Nat
    BY DEF OutInv
  <2>3. QED
    BY <2>1, <2>2, LimitCheck
<1>8. /\ Carries(kept, owed \o Fresh(n)) /\ kept \in Buffer /\ kept.peak = pushed.peak
      /\ kept.head_off = pushed.head_off /\ kept.since = check.since
  <2> HIDE DEF check
  <2>1. QED
    BY <1>5, <1>6, CarriesPeak DEF Buffer
<1>9. CASE check.breach = Nil
  <2> HIDE DEF check, kept
  <2>2. ob' = kept /\ owed' = owed \o Fresh(n) /\ obState' = "idle" /\ wire' = wire /\ obNow' = obNow
    BY <1>1, <1>9
  <2>3. Numbered(owed', Len(wire')) /\ Len(wire') + Len(owed') <= OutMaxBytes
    BY <1>1, <1>2, <1>3, <1>4, <2>2
  <2>4. ob'.head_off = 0 /\ ob'.peak <= OutMaxBytes
    BY <1>1, <1>5, <1>8, <2>2 DEF OutInv
  <2>5. wire' \in Seq(Nat) /\ Numbered(wire', 0) /\ obNow' \in Nat
    BY <2>2 DEF OutInv
  <2>6. Carries(ob', owed')
    BY <1>8, <2>2
  <2>7. QED
    BY <1>8, <2>2, <2>3, <2>4, <2>5, <2>6 DEF OutInv
<1>10. CASE check.breach # Nil
  <2> HIDE DEF check, kept
  <2>1. ob' = discard(kept) /\ owed' = <<>> /\ obState' = "closed" /\ wire' = wire /\ obNow' = obNow
    BY <1>1, <1>10
  <2>2. Carries(ob', owed') /\ ob'.peak <= OutMaxBytes
    BY <1>5, <1>8, <2>1, CarriesDiscard
  <2>3. Numbered(owed', Len(wire')) /\ Len(wire') + Len(owed') <= OutMaxBytes
    <3>1. Len(owed') = 0
      BY <2>1
    <3>2. QED
      BY <1>1, <1>2, <1>4, <2>1, <3>1 DEF Numbered
  <2>4. wire' \in Seq(Nat) /\ Numbered(wire', 0) /\ obNow' \in Nat
    BY <2>1 DEF OutInv
  <2>5. QED
    BY <2>1, <2>2, <2>3, <2>4 DEF OutInv
<1>11. QED
  BY <1>9, <1>10

LEMMA OutStageStep ==
  ASSUME OutInv, NEW n \in 1..OutMaxBytes, OutStage(n)
  PROVE  OutInv'
<1>1. n \in Nat \ {0} /\ OutMaxBytes \in Nat
  BY OutAssumption
<1> DEFINE f == Fresh(n)
<1>2. /\ f \in Seq(Nat) /\ Len(owed \o f) = Len(owed) + n
      /\ Numbered(owed \o f, Len(wire))
  BY <1>1, FreshBytes
<1>3. /\ obState = "idle" /\ Len(wire) + Len(owed) + n <= OutMaxBytes
      /\ ob' = [ob EXCEPT !.staging = @ \o f] /\ owed' = owed \o f
      /\ UNCHANGED <<obState, obNow, wire>>
  BY DEF OutStage, Room
<1> HIDE DEF f
<1>4. Carries(ob', owed')
  <2>1. Carries(ob, owed)
    BY DEF OutInv
  <2>2. QED
    BY <1>2, <1>3, <2>1, CarriesStage
<1>5. ob'.peak = ob.peak /\ ob'.head_off = ob.head_off /\ ob'.since = ob.since
  <2>1. ob \in Buffer
    BY OutTypes
  <2>2. QED
    BY <1>3, <2>1 DEF Buffer
<1>6. Len(wire') + Len(owed') <= OutMaxBytes /\ Numbered(owed', Len(wire'))
  <2>1. Len(owed) \in Nat /\ Len(wire) \in Nat
    BY OutTypes
  <2>2. QED
    BY <1>1, <1>2, <1>3, <2>1
<1>7. QED
  BY <1>3, <1>4, <1>5, <1>6 DEF OutInv

LEMMA OutFlushStep ==
  ASSUME OutInv, OutFlush
  PROVE  OutInv'
<1> DEFINE b == note_pending(ob)
           s == seal(b)
<1>1. /\ obState = "idle" /\ pending(ob) > 0 /\ ob' = s /\ obState' = "flushing"
      /\ UNCHANGED <<obNow, wire, owed>>
  BY DEF OutFlush
<1>2. Len(owed) \in Nat /\ Len(wire) \in Nat /\ pending(ob) = Len(owed) /\ OutMaxBytes \in Nat
      /\ Len(wire) + Len(owed) <= OutMaxBytes
  BY OutTypes, OutAssumption DEF OutInv
<1>3. Carries(ob, owed) /\ ob.peak <= OutMaxBytes /\ Len(owed) <= OutMaxBytes
  BY <1>2 DEF OutInv
<1>4. Carries(b, owed) /\ b.peak <= OutMaxBytes /\ b.since = ob.since
  BY <1>3, CarriesNote
<1> HIDE DEF b
<1>5. /\ Carries(s, owed) /\ s.since = b.since /\ s.peak = b.peak
      /\ (b.staging # <<>> => s.queued # <<>>) /\ (b.queued # <<>> => s.queued # <<>>)
  BY <1>4, CarriesSeal
<1>6. s.queued # <<>>
  <2>1. ASSUME b.queued = <<>>, b.staging = <<>> PROVE FALSE
    <3>1. Queue(b) = <<>>
      BY <2>1, FlattenEmpty DEF Queue
    <3>2. Len(Queue(b)) = 0 /\ Len(b.staging) = 0
      BY <2>1, <3>1
    <3>3. pending(b) = Len(owed) /\ b.head_off \in Nat
      BY <1>4, CarriesType
    <3>4. b.queued_bytes = 0
      BY <1>4, <3>2 DEF Carries
    <3>5. pending(b) = 0 - b.head_off
      BY <3>2, <3>3, <3>4 DEF pending
    <3>6. QED
      BY <1>1, <1>2, <3>3, <3>5
  <2>2. QED
    BY <1>5, <2>1
<1> HIDE DEF s
<1>7. QED
  BY <1>1, <1>4, <1>5, <1>6 DEF OutInv

LEMMA OutOtherSteps ==
  ASSUME OutInv, OutError \/ OutTick \/ UNCHANGED obVars
  PROVE  OutInv'
<1>1. /\ UNCHANGED <<ob, wire, owed>> /\ obState' \in {obState, "closed"}
      /\ obNow' \in Nat
  <2>1. obNow \in Nat
    BY DEF OutInv
  <2>2. QED
    BY <2>1 DEF OutError, OutTick, obVars
<1>2. QED
  BY <1>1 DEF OutInv

LEMMA OutStart == obInit => OutInv
<1> SUFFICES ASSUME obInit PROVE OutInv
  OBVIOUS
<1>1. <<>> \in Seq(Nat) /\ <<>> \in Seq(Seq(Nat)) /\ Len(<<>>) = 0
  OBVIOUS
<1>2. /\ ob.staging = <<>> /\ ob.queued = <<>> /\ ob.queued_bytes = 0
      /\ ob.head_off = 0 /\ ob.peak = 0 /\ ob.since = Nil /\ ob \in Buffer
  BY <1>1 DEF obInit, obNew, Buffer
<1>3. Queue(ob) = <<>>
  BY <1>2, FlattenEmpty DEF Queue
<1>4. Without(<<>>, 0) = <<>> /\ <<>> \o <<>> = <<>>
  BY DEF Without
<1>5. Carries(ob, <<>>)
  BY <1>1, <1>2, <1>3, <1>4 DEF Carries
<1>6. Numbered(<<>>, 0) /\ OutMaxBytes \in Nat
  BY <1>1, OutAssumption DEF Numbered
<1>7. QED
  BY <1>1, <1>2, <1>5, <1>6 DEF obInit, OutInv

LEMMA OutKeeps ==
  ASSUME OutInv, [obNext]_obVars
  PROVE  OutInv'
BY OutStageStep, OutPushStep, OutWriteStep, OutFlushStep, OutOtherSteps DEF obNext

(* The counters, the queue and the staged bytes of the output buffer agree *)
(* whatever the sizes of replies, frames and writes.                       *)
THEOREM OutInvariant == obSpec => []OutInv
<1>1. OutInv /\ [obNext]_obVars => OutInv'
  BY OutKeeps
<1>2. QED
  BY <1>1, OutStart, PTL DEF obSpec

(* Replies and pushed frames reach the socket complete and in order, for   *)
(* every number of gathered frames, every limit, every size of a reply and *)
(* of a partial write.                                                     *)
THEOREM OutBytesInOrder == obSpec => []BytesInOrder
<1>1. OutInv => BytesInOrder
  <2> SUFFICES ASSUME OutInv PROVE BytesInOrder
    OBVIOUS
  <2>1. Carries(ob, owed) /\ pending(ob) = Len(owed) /\ wire \in Seq(Nat)
    BY OutTypes DEF OutInv
  <2>2. wire = [k \in DOMAIN wire |-> k]
    <3>1. DOMAIN wire = 1..Len(wire) /\ wire = [k \in DOMAIN wire |-> wire[k]]
      BY <2>1
    <3>2. \A k \in DOMAIN wire : wire[k] = k
      BY <3>1 DEF OutInv, Numbered
    <3>3. QED
      BY <3>1, <3>2
  <2>3. QED
    BY <2>1, <2>2 DEF OutInv, BytesInOrder, Carries, Queue, Without
<1>2. QED
  BY <1>1, OutInvariant, PTL

-----------------------------------------------------------------------------
(* The integer set encoding.                                               *)

(* The widths of a cell in bytes, the callers' integers, and what fits a   *)
(* width.                                                                  *)
Widths == {ENC_INT16, ENC_INT32, ENC_INT64}
I64 == ISMin(ENC_INT64) .. ISMax(ENC_INT64)
Fits(v, enc) == ISMin(enc) <= v /\ v <= ISMax(enc)

(* What the assumption on the constants gives.                             *)
LEMMA HalfTypes ==
  /\ \A e \in Widths : ISHalf[e] \in Nat /\ ISHalf[e] > 0
  /\ ISHalf[ENC_INT16] <= ISHalf[ENC_INT32] /\ ISHalf[ENC_INT32] <= ISHalf[ENC_INT64]
  /\ I64 \subseteq Int /\ ISValues \subseteq I64
<1>1. \A e \in Widths : ISHalf[e] \in Nat /\ ISHalf[e] > 0
  BY IntsetConstants DEF Widths
<1>2. ISMin(ENC_INT64) \in Int /\ ISMax(ENC_INT64) \in Int
  BY <1>1 DEF ISMin, ISMax, Widths
<1>3. QED
  BY <1>1, <1>2, IntsetConstants DEF I64

(* Truncation to a width keeps what fits it.                               *)
LEMMA Kept ==
  ASSUME NEW e \in Widths, NEW v \in Int, Fits(v, e)
  PROVE  AsWidth(v, e) = v
<1> DEFINE h == ISHalf[e]
<1>1. h \in Nat /\ h > 0
  BY HalfTypes
<1>2. -h <= v /\ v <= h - 1
  BY DEF Fits, ISMin, ISMax
<1>3. AsWidth(v, e) = ((v - (-h)) % (2 * h)) + (-h)
  BY DEF AsWidth, ISMin
<1> HIDE DEF h
<1>4. \A n \in Nat : \A d \in Nat : n < d => n % d = n
  OBVIOUS
<1>5. v - (-h) \in Nat /\ 2 * h \in Nat /\ v - (-h) < 2 * h
  BY <1>1, <1>2
<1>6. (v - (-h)) % (2 * h) = v - (-h)
  BY <1>4, <1>5
<1>7. QED
  BY <1>1, <1>3, <1>6

(* value_encoding picks the narrowest width that fits.                     *)
LEMMA Needs ==
  ASSUME NEW v \in I64
  PROVE  /\ value_encoding(v) \in Widths
         /\ \A e \in Widths : value_encoding(v) <= e <=> Fits(v, e)
<1>1. v \in Int /\ ISMin(ENC_INT64) <= v /\ v <= ISMax(ENC_INT64)
  BY HalfTypes DEF I64, ISMin, ISMax, Widths
<1>2. /\ ISHalf[2] \in Nat /\ ISHalf[4] \in Nat /\ ISHalf[8] \in Nat
      /\ ISHalf[2] <= ISHalf[4] /\ ISHalf[4] <= ISHalf[8]
  BY HalfTypes DEF Widths, ENC_INT16, ENC_INT32, ENC_INT64
<1>3. QED
  BY <1>1, <1>2 DEF value_encoding, Fits, ISMin, ISMax, Widths, ENC_INT16, ENC_INT32, ENC_INT64

-----------------------------------------------------------------------------
(* A blob whose header counts its cells, and cells in ascending order.     *)
Blob(s) == s \in [encoding : Widths, len : Nat, body : Seq(Int)] /\ s.len = Len(s.body)
Ascends(b) == \A i, j \in 1 .. Len(b) : i < j => b[i] < b[j]

(* What search returns, and the windows its loop may be called with.       *)
Answer == [found : BOOLEAN, at : Nat]
Corners(s) == (0 .. s.len) \X (0 .. s.len)

(* One turn of the loop, where f answers for the rest of it.               *)
Turn(s, v, w, f) ==
  LET mid == w[1] + (w[2] - w[1]) \div 2
      cur == isGet(s, mid)
  IN IF w[1] >= w[2] \/ cur = Nil THEN [found |-> FALSE, at |-> w[1]]
     ELSE IF cur < v THEN f[<<mid + 1, w[2]>>]
     ELSE IF cur > v THEN f[<<w[1], mid>>]
     ELSE [found |-> TRUE, at |-> mid]

(* The midpoint of a window lies in it.                                    *)
LEMMA Middle ==
  ASSUME NEW lo \in Nat, NEW hi \in Nat, lo < hi
  PROVE  LET mid == lo + (hi - lo) \div 2
         IN mid \in Nat /\ lo <= mid /\ mid < hi
OBVIOUS

LEMMA MiddleIn ==
  ASSUME NEW s, Blob(s), NEW w \in Corners(s), w[1] < w[2]
  PROVE  LET mid == w[1] + (w[2] - w[1]) \div 2
         IN /\ mid \in Nat /\ w[1] <= mid /\ mid < w[2] /\ mid < s.len
            /\ <<mid + 1, w[2]>> \in Corners(s) /\ <<w[1], mid>> \in Corners(s)
            /\ isGet(s, mid) = s.body[mid + 1] /\ isGet(s, mid) \in Int
<1> DEFINE mid == w[1] + (w[2] - w[1]) \div 2
<1>1. s.len \in Nat /\ s.body \in Seq(Int) /\ s.len = Len(s.body)
  BY DEF Blob
<1>2. w[1] \in 0 .. s.len /\ w[2] \in 0 .. s.len
  BY DEF Corners
<1>3. w[1] \in Nat /\ w[2] \in Nat /\ w[2] <= s.len
  BY <1>1, <1>2
<1>4. mid \in Nat /\ w[1] <= mid /\ mid < w[2]
  BY <1>3, Middle
<1> HIDE DEF mid
<1>5. mid < s.len /\ mid + 1 \in 0 .. s.len /\ mid \in 0 .. s.len
  BY <1>1, <1>3, <1>4
<1>6. mid \in 0 .. Len(s.body) - 1 /\ mid + 1 \in 1 .. Len(s.body)
  BY <1>1, <1>4, <1>5
<1>7. isGet(s, mid) = s.body[mid + 1] /\ s.body[mid + 1] \in Int
  BY <1>1, <1>6 DEF isGet
<1>8. QED
  BY <1>2, <1>4, <1>5, <1>7 DEF Corners, mid

(* The loop exists as a function: each turn narrows the window.            *)
LEMMA ProbeUnfolds ==
  ASSUME NEW s, Blob(s), NEW v \in Int
  PROVE  \A w \in Corners(s) : isProbe(s, v)[w] = Turn(s, v, w, isProbe(s, v))
<1> DEFINE W == Corners(s)
           F == [W -> Answer]
           a == [found |-> FALSE, at |-> 0]
           m == [w \in W |-> IF w[1] <= w[2] THEN w[2] - w[1] ELSE 0]
           step == [q \in W \X F |-> Turn(s, v, q[1], q[2])]
           Q(g) == g = [w \in W |-> Turn(s, v, w, g)]
<1>0. \A w \in W : w[1] \in Nat /\ w[2] \in Nat
  BY DEF Corners, Blob
<1>1. a \in Answer
  BY DEF Answer
<1>2. m \in [W -> Nat]
  <2>1. ASSUME NEW w \in W PROVE (IF w[1] <= w[2] THEN w[2] - w[1] ELSE 0) \in Nat
    BY <1>0
  <2>2. QED
    BY <2>1
<1>3. ASSUME NEW w \in W, NEW g \in F PROVE Turn(s, v, w, g) \in Answer
  <2> DEFINE mid == w[1] + (w[2] - w[1]) \div 2
  <2>1. CASE w[1] >= w[2]
    <3>1. Turn(s, v, w, g) = [found |-> FALSE, at |-> w[1]]
      BY <2>1 DEF Turn
    <3>2. QED
      BY <1>0, <3>1 DEF Answer
  <2>2. CASE ~(w[1] >= w[2])
    <3>1. w[1] < w[2]
      BY <1>0, <2>2
    <3>2. mid \in Nat /\ <<mid + 1, w[2]>> \in W /\ <<w[1], mid>> \in W
      BY <3>1, MiddleIn
    <3>3. \/ Turn(s, v, w, g) = [found |-> FALSE, at |-> w[1]]
          \/ Turn(s, v, w, g) = g[<<mid + 1, w[2]>>]
          \/ Turn(s, v, w, g) = g[<<w[1], mid>>]
          \/ Turn(s, v, w, g) = [found |-> TRUE, at |-> mid]
      BY DEF Turn
    <3> HIDE DEF mid, W
    <3>4. w[1] \in Nat
      BY <1>0
    <3>5. [found |-> FALSE, at |-> w[1]] \in Answer /\ [found |-> TRUE, at |-> mid] \in Answer
      BY <3>2, <3>4 DEF Answer
    <3>6. g[<<mid + 1, w[2]>>] \in Answer /\ g[<<w[1], mid>>] \in Answer
      <4> HIDE DEF Answer
      <4>1. QED
        BY <3>2
    <3>7. QED
      BY <3>3, <3>5, <3>6
  <2>3. QED
    BY <2>1, <2>2
<1>4. step \in [W \X F -> Answer]
      /\ \A w \in W : \A g \in F : step[<<w, g>>] = Turn(s, v, w, g)
  <2> HIDE DEF W, F
  <2>1. QED
    BY <1>3
<1>5. ASSUME NEW w \in W, NEW g \in F, NEW h \in F,
             \A y \in W : m[y] < m[w] => g[y] = h[y]
      PROVE  step[<<w, g>>] = step[<<w, h>>]
  <2> DEFINE mid == w[1] + (w[2] - w[1]) \div 2
  <2>1. CASE w[1] >= w[2]
    <3>1. Turn(s, v, w, g) = Turn(s, v, w, h)
      BY <2>1 DEF Turn
    <3>2. QED
      <4> HIDE DEF W, F, step
      <4>1. QED
        BY <1>4, <3>1
  <2>2. CASE ~(w[1] >= w[2])
    <3>1. w[1] < w[2] /\ w[1] \in Nat /\ w[2] \in Nat
      BY <1>0, <2>2
    <3>2. mid \in Nat /\ w[1] <= mid /\ mid < w[2]
          /\ <<mid + 1, w[2]>> \in W /\ <<w[1], mid>> \in W
      BY <3>1, MiddleIn
    <3>3. m[w] = w[2] - w[1] /\ m[<<mid + 1, w[2]>>] = w[2] - (mid + 1)
          /\ m[<<w[1], mid>>] = mid - w[1]
      <4> HIDE DEF W, mid
      <4>1. mid + 1 <= w[2]
        BY <3>1, <3>2
      <4>2. QED
        BY <3>1, <3>2, <4>1
    <3>4. m[<<mid + 1, w[2]>>] < m[w] /\ m[<<w[1], mid>>] < m[w]
      <4> HIDE DEF W, mid, m
      <4>1. QED
        BY <3>1, <3>2, <3>3
    <3>5. g[<<mid + 1, w[2]>>] = h[<<mid + 1, w[2]>>] /\ g[<<w[1], mid>>] = h[<<w[1], mid>>]
      <4> HIDE DEF W, mid, m
      <4>1. QED
        BY <1>5, <3>2, <3>4
    <3>6. Turn(s, v, w, g) = Turn(s, v, w, h)
      BY <3>5 DEF Turn
    <3>7. QED
      <4> HIDE DEF W, F, step
      <4>1. QED
        BY <1>4, <3>6
  <2>3. QED
    BY <2>1, <2>2
<1>6. PICK f \in F : \A w \in W : f[w] = step[<<w, f>>]
  <2> HIDE DEF W, m, step, a
  <2>1. \A w \in W : \A g, h \in [W -> Answer] :
          (\A y \in W : m[y] < m[w] => g[y] = h[y]) => step[<<w, g>>] = step[<<w, h>>]
    BY <1>5
  <2>2. step \in [W \X [W -> Answer] -> Answer]
    BY <1>4
  <2>3. Measured(W, Answer, m, step)
    BY <1>2, <2>1, <2>2 DEF Measured
  <2>4. Solvable(W, Answer, step)
    BY <1>1, <2>3, MeasuredRecursion
  <2>5. QED
    BY <2>4 DEF Solvable
<1>7. Q(f)
  <2>1. \A w \in W : f[w] = Turn(s, v, w, f)
    <3> HIDE DEF W, F, step
    <3>1. QED
      BY <1>4, <1>6
  <2>2. f = [w \in W |-> f[w]]
    <3> HIDE DEF W
    <3>1. QED
      OBVIOUS
  <2>3. QED
    BY <2>1, <2>2
<1>8. isProbe(s, v) = CHOOSE g : Q(g)
  BY DEF isProbe, Turn, Corners
<1>9. Q(isProbe(s, v))
  <2> HIDE DEF Q
  <2>1. QED
    BY <1>7, <1>8
<1>10. QED
  <2> DEFINE p == isProbe(s, v)
  <2>1. Q(p)
    BY <1>9
  <2> HIDE DEF p
  <2>2. p = [w \in W |-> Turn(s, v, w, p)]
    BY <2>1
  <2>3. \A w \in W : p[w] = Turn(s, v, w, p)
    <3> HIDE DEF W
    <3> DEFINE t(w) == Turn(s, v, w, p)
    <3>1. p = [w \in W |-> t(w)]
      BY <2>2
    <3> HIDE DEF t
    <3>2. \A w \in W : p[w] = t(w)
      BY <3>1
    <3>3. QED
      BY <3>2 DEF t
  <2>4. QED
    BY <2>3 DEF p

(* r is where v is in the ascending b, or where it belongs.                *)
Located(b, v, r) ==
  /\ r \in Answer /\ r.at <= Len(b)
  /\ r.found => r.at < Len(b) /\ b[r.at + 1] = v
  /\ ~r.found => /\ \A i \in 1 .. r.at : b[i] < v
                 /\ \A i \in r.at + 1 .. Len(b) : v < b[i]

(* The loop's invariant: what is before lo is smaller than v, what is from *)
(* hi on is larger.                                                        *)
Around(b, v, lo, hi) ==
  /\ \A i \in 1 .. lo : b[i] < v
  /\ \A i \in hi + 1 .. Len(b) : v < b[i]

LEMMA FoundAt ==
  ASSUME NEW b \in Seq(Int), NEW v, NEW n \in Nat, n < Len(b), b[n + 1] = v
  PROVE  Located(b, v, [found |-> TRUE, at |-> n])
<1> DEFINE r == [found |-> TRUE, at |-> n]
<1>1. r \in Answer
  BY DEF Answer
<1>2. r.at = n /\ n <= Len(b)
  OBVIOUS
<1>3. r.found
  OBVIOUS
<1> HIDE DEF r
<1>4. QED
  BY <1>1, <1>2, <1>3 DEF Located, r

LEMMA BelongsAt ==
  ASSUME NEW b \in Seq(Int), NEW v, NEW n \in Nat, n <= Len(b), Around(b, v, n, n)
  PROVE  Located(b, v, [found |-> FALSE, at |-> n])
<1> DEFINE r == [found |-> FALSE, at |-> n]
<1>1. r \in Answer
  BY DEF Answer
<1>2. r.at = n
  OBVIOUS
<1>3. ~r.found
  OBVIOUS
<1> HIDE DEF r
<1>4. QED
  BY <1>1, <1>2, <1>3 DEF Located, Around, r

(* The loop finds, by induction on the width of the window.                *)
LEMMA ProbeFinds ==
  ASSUME NEW s, Blob(s), Ascends(s.body), NEW v \in Int
  PROVE  \A lo, hi \in 0 .. s.len :
           lo <= hi /\ Around(s.body, v, lo, hi)
             => Located(s.body, v, isProbe(s, v)[<<lo, hi>>])
<1> DEFINE b == s.body
           p == isProbe(s, v)
           Good(n) == \A lo, hi \in 0 .. s.len :
                        lo <= hi /\ hi - lo <= n /\ Around(b, v, lo, hi) => Located(b, v, p[<<lo, hi>>])
           T == {n \in Nat : Good(n)}
<1>0. s.len \in Nat /\ b \in Seq(Int) /\ Len(b) = s.len
  BY DEF Blob
<1>1. ASSUME NEW n \in Nat, NEW lo \in 0 .. s.len, NEW hi \in 0 .. s.len,
             lo <= hi, hi - lo <= n, Around(b, v, lo, hi), n = 0 \/ Good(n - 1)
      PROVE  Located(b, v, p[<<lo, hi>>])
  <2> DEFINE w == <<lo, hi>>
             mid == lo + (hi - lo) \div 2
             cur == b[mid + 1]
  <2>1. w \in Corners(s) /\ w[1] = lo /\ w[2] = hi /\ lo \in Nat /\ hi \in Nat
    BY <1>0 DEF Corners
  <2>2. p[w] = Turn(s, v, w, p)
    BY <2>1, ProbeUnfolds
  <2>3. CASE lo = hi
    <3>1. p[w] = [found |-> FALSE, at |-> lo]
      BY <2>1, <2>2, <2>3 DEF Turn
    <3>2. Located(b, v, [found |-> FALSE, at |-> lo])
      <4>1. Around(b, v, lo, lo) /\ lo <= Len(b)
        BY <1>0, <1>1, <2>1, <2>3
      <4> HIDE DEF b
      <4>2. QED
        BY <1>0, <2>1, <4>1, BelongsAt
    <3>3. QED
      BY <3>1, <3>2
  <2>4. CASE lo < hi
    <3>1. /\ mid \in Nat /\ lo <= mid /\ mid < hi /\ mid < s.len
          /\ isGet(s, mid) = cur /\ isGet(s, mid) \in Int
      <4>1. w[1] < w[2]
        BY <2>1, <2>4
      <4>2. LET k == w[1] + (w[2] - w[1]) \div 2
            IN /\ k \in Nat /\ w[1] <= k /\ k < w[2] /\ k < s.len
               /\ isGet(s, k) = b[k + 1] /\ isGet(s, k) \in Int
        <5> HIDE DEF w
        <5>1. QED
          BY <2>1, <4>1, MiddleIn
      <4>3. QED
        BY <2>1, <4>2
    <3>2. cur \in Int /\ cur # Nil /\ ~(lo >= hi)
      BY <2>1, <2>4, <3>1, IntsetConstants
    <3>3. p[w] = IF cur < v THEN p[<<mid + 1, hi>>] ELSE IF cur > v THEN p[<<lo, mid>>]
                 ELSE [found |-> TRUE, at |-> mid]
      <4>1. p[w] = IF lo >= hi \/ isGet(s, mid) = Nil THEN [found |-> FALSE, at |-> lo]
                   ELSE IF isGet(s, mid) < v THEN p[<<mid + 1, hi>>]
                   ELSE IF isGet(s, mid) > v THEN p[<<lo, mid>>]
                   ELSE [found |-> TRUE, at |-> mid]
        <5>1. Turn(s, v, w, p)
              = LET k == w[1] + (w[2] - w[1]) \div 2
                IN IF w[1] >= w[2] \/ isGet(s, k) = Nil THEN [found |-> FALSE, at |-> w[1]]
                   ELSE IF isGet(s, k) < v THEN p[<<k + 1, w[2]>>]
                   ELSE IF isGet(s, k) > v THEN p[<<w[1], k>>]
                   ELSE [found |-> TRUE, at |-> k]
          BY DEF Turn
        <5>2. QED
          BY <2>1, <2>2, <5>1
      <4> HIDE DEF p, w, mid, cur
      <4>2. QED
        BY <3>1, <3>2, <4>1
    <3>4. n # 0 /\ n - 1 \in Nat /\ Good(n - 1)
      <4>1. n # 0
        BY <1>1, <2>1, <2>4
      <4>2. QED
        BY <1>1, <4>1
    <3> HIDE DEF p, w, mid
    <3>5. mid + 1 \in 1 .. Len(b)
      BY <1>0, <3>1
    <3>6. CASE cur < v
      <4>1. mid + 1 \in 0 .. s.len /\ mid + 1 <= hi /\ hi - (mid + 1) <= n - 1
        BY <1>0, <1>1, <2>1, <3>1
      <4>2. ASSUME NEW i \in 1 .. mid + 1 PROVE b[i] < v
        <5>1. i \in 1 .. Len(b) /\ b[i] \in Int
          BY <1>0, <3>1, <3>5
        <5>2. i = mid + 1 \/ i < mid + 1
          BY <3>1
        <5>3. b[i] = cur \/ b[i] < cur
          BY <3>5, <5>1, <5>2 DEF Ascends
        <5>4. QED
          BY <3>2, <3>6, <5>1, <5>3
      <4>3. Around(b, v, mid + 1, hi)
        BY <1>1, <4>2 DEF Around
      <4>4. Located(b, v, p[<<mid + 1, hi>>])
        BY <3>4, <4>1, <4>3
      <4>5. QED
        BY <3>3, <3>6, <4>4 DEF w
    <3>7. CASE cur > v
      <4>1. mid \in 0 .. s.len /\ lo <= mid /\ mid - lo <= n - 1
        BY <1>0, <1>1, <2>1, <3>1
      <4>2. ASSUME NEW i \in mid + 1 .. Len(b) PROVE v < b[i]
        <5>1. i \in 1 .. Len(b) /\ b[i] \in Int
          BY <1>0, <3>1, <3>5
        <5>2. i = mid + 1 \/ mid + 1 < i
          BY <3>1, <5>1
        <5>3. b[i] = cur \/ cur < b[i]
          BY <3>5, <5>1, <5>2 DEF Ascends
        <5>4. QED
          BY <3>2, <3>7, <5>1, <5>3
      <4>3. Around(b, v, lo, mid)
        BY <1>1, <4>2 DEF Around
      <4>4. Located(b, v, p[<<lo, mid>>])
        BY <3>4, <4>1, <4>3
      <4>5. ~(cur < v)
        BY <3>2, <3>7
      <4>6. QED
        BY <3>3, <3>7, <4>4, <4>5 DEF w
    <3>8. CASE cur = v
      <4>1. Located(b, v, [found |-> TRUE, at |-> mid])
        BY <1>0, <3>1, <3>8, FoundAt
      <4>2. ~(cur < v) /\ ~(cur > v)
        BY <3>2, <3>8
      <4>3. QED
        BY <3>3, <4>1, <4>2 DEF w
    <3>9. QED
      BY <3>2, <3>6, <3>7, <3>8
  <2>5. QED
    BY <1>1, <2>1, <2>3, <2>4
<1>2. ASSUME NEW n \in Nat, n = 0 \/ Good(n - 1) PROVE Good(n)
  BY <1>1, <1>2
<1> HIDE DEF Good
<1>3. 0 \in T
  BY <1>2
<1>4. ASSUME NEW n \in Nat, n \in T PROVE n + 1 \in T
  <2>1. n + 1 \in Nat /\ (n + 1) - 1 = n
    OBVIOUS
  <2>2. QED
    BY <1>2, <1>4, <2>1
<1>5. \A n \in Nat : n \in T
  <2> HIDE DEF T
  <2>1. QED
    BY <1>3, <1>4, Induction
<1>6. Good(s.len)
  BY <1>0, <1>5
<1>7. \A lo, hi \in 0 .. s.len : hi - lo <= s.len
  BY <1>0
<1>8. QED
  BY <1>6, <1>7 DEF Good

(* Binary search, with its two shortcuts, finds.                           *)
LEMMA SearchFinds ==
  ASSUME NEW s, Blob(s), Ascends(s.body), NEW v \in Int
  PROVE  Located(s.body, v, isSearch(s, v))
<1> DEFINE b == s.body
           r == isSearch(s, v)
<1>0. s.len \in Nat /\ b \in Seq(Int) /\ Len(b) = s.len
  BY DEF Blob
<1>1. CASE s.len = 0
  <2>1. r = [found |-> FALSE, at |-> 0]
    BY <1>1 DEF isSearch
  <2>2. Located(b, v, [found |-> FALSE, at |-> 0])
    BY <1>0, <1>1, BelongsAt DEF Around
  <2>3. QED
    BY <2>1, <2>2
<1>2. CASE s.len # 0
  <2>1. isGet(s, s.len - 1) = b[s.len] /\ isGet(s, 0) = b[1] /\ b[s.len] \in Int /\ b[1] \in Int
        /\ 1 \in 1 .. Len(b) /\ s.len \in 1 .. Len(b)
    BY <1>0, <1>2 DEF isGet
  <2>2. r = IF v > b[s.len] THEN [found |-> FALSE, at |-> s.len]
            ELSE IF v < b[1] THEN [found |-> FALSE, at |-> 0]
            ELSE isProbe(s, v)[<<0, s.len>>]
    BY <1>2, <2>1 DEF isSearch
  <2>3. ASSUME NEW i \in 1 .. Len(b) PROVE b[i] \in Int /\ b[1] <= b[i] /\ b[i] <= b[s.len]
    <3>1. b[i] \in Int /\ (i = 1 \/ 1 < i) /\ (i = s.len \/ i < s.len)
      BY <1>0
    <3>2. (i = 1 \/ b[1] < b[i]) /\ (i = s.len \/ b[i] < b[s.len])
      BY <2>1, <3>1 DEF Ascends
    <3>3. QED
      BY <2>1, <3>1, <3>2
  <2>4. CASE v > b[s.len]
    <3>1. \A i \in 1 .. s.len : b[i] < v
      BY <1>0, <2>1, <2>3, <2>4
    <3>2. \A i \in s.len + 1 .. Len(b) : v < b[i]
      BY <1>0
    <3>3. Located(b, v, [found |-> FALSE, at |-> s.len])
      <4>1. Around(b, v, s.len, s.len) /\ s.len <= Len(b)
        BY <1>0, <3>1, <3>2 DEF Around
      <4> HIDE DEF b
      <4>2. QED
        BY <1>0, <4>1, BelongsAt
    <3>4. QED
      BY <2>2, <2>4, <3>3
  <2>5. CASE ~(v > b[s.len]) /\ v < b[1]
    <3>1. \A i \in 0 + 1 .. Len(b) : v < b[i]
      BY <1>0, <2>1, <2>3, <2>5
    <3>2. \A i \in 1 .. 0 : b[i] < v
      OBVIOUS
    <3>3. Located(b, v, [found |-> FALSE, at |-> 0])
      <4>1. Around(b, v, 0, 0) /\ 0 <= Len(b)
        BY <1>0, <3>1, <3>2 DEF Around
      <4> HIDE DEF b
      <4>2. QED
        BY <1>0, <4>1, BelongsAt
    <3>4. QED
      BY <2>2, <2>5, <3>3
  <2>6. CASE ~(v > b[s.len]) /\ ~(v < b[1])
    <3>1. Around(b, v, 0, s.len)
      BY <1>0 DEF Around
    <3>2. 0 \in 0 .. s.len /\ s.len \in 0 .. s.len /\ 0 <= s.len
      BY <1>0
    <3>3. Located(b, v, isProbe(s, v)[<<0, s.len>>])
      BY <3>1, <3>2, ProbeFinds
    <3>4. QED
      BY <2>2, <2>6, <3>3
  <2>7. QED
    BY <2>4, <2>5, <2>6
<1>3. QED
  BY <1>1, <1>2

-----------------------------------------------------------------------------
(* c is b with x put in after the first n elements.                        *)
Spliced(b, c, n, x) ==
  /\ b \in Seq(Int) /\ c \in Seq(Int) /\ n \in 0 .. Len(b) /\ x \in Int
  /\ Len(c) = Len(b) + 1
  /\ \A i \in 1 .. n : c[i] = b[i]
  /\ c[n + 1] = x
  /\ \A i \in n + 1 .. Len(b) : c[i + 1] = b[i]

(* The elements of a sequence.                                             *)
Members(b) == {b[i] : i \in 1 .. Len(b)}

LEMMA FrontOf ==
  ASSUME NEW b \in Seq(Int), NEW n \in 0 .. Len(b)
  PROVE  /\ SubSeq(b, 1, n) \in Seq(Int) /\ Len(SubSeq(b, 1, n)) = n
         /\ \A i \in 1 .. n : SubSeq(b, 1, n)[i] = b[i]
<1>1. n \in Int /\ 1 \in Int /\ \A i \in 1 .. n : b[i] \in Int
  OBVIOUS
<1>2. /\ SubSeq(b, 1, n) \in Seq(Int)
      /\ Len(SubSeq(b, 1, n)) = IF 1 <= n THEN n - 1 + 1 ELSE 0
      /\ \A i \in 1 .. n - 1 + 1 : SubSeq(b, 1, n)[i] = b[1 + i - 1]
  BY ONLY <1>1, SubSeqProperties
<1>3. QED
  BY <1>1, <1>2

LEMMA RestOf ==
  ASSUME NEW b \in Seq(Int), NEW n \in 0 .. Len(b)
  PROVE  /\ SubSeq(b, n + 1, Len(b)) \in Seq(Int) /\ Len(SubSeq(b, n + 1, Len(b))) = Len(b) - n
         /\ \A i \in 1 .. Len(b) - n : SubSeq(b, n + 1, Len(b))[i] = b[n + i]
<1>1. n + 1 \in Int /\ Len(b) \in Int /\ \A i \in n + 1 .. Len(b) : b[i] \in Int
  OBVIOUS
<1>2. /\ SubSeq(b, n + 1, Len(b)) \in Seq(Int)
      /\ Len(SubSeq(b, n + 1, Len(b))) = IF n + 1 <= Len(b) THEN Len(b) - (n + 1) + 1 ELSE 0
      /\ \A i \in 1 .. Len(b) - (n + 1) + 1 : SubSeq(b, n + 1, Len(b))[i] = b[(n + 1) + i - 1]
  BY ONLY <1>1, SubSeqProperties
<1>3. QED
  BY <1>1, <1>2

LEMMA InsertSplices ==
  ASSUME NEW b \in Seq(Int), NEW n \in 0 .. Len(b), NEW x \in Int
  PROVE  Spliced(b, Seqs!InsertAt(b, n + 1, x), n, x)
<1> DEFINE u == SubSeq(b, 1, n)
           w == SubSeq(b, n + 1, Len(b))
           y == u \o <<x>>
           c == y \o w
<1>1. Seqs!InsertAt(b, n + 1, x) = c
  <2>1. (n + 1) - 1 = n
    OBVIOUS
  <2>2. QED
    BY <2>1 DEF Seqs!InsertAt
<1>2. u \in Seq(Int) /\ Len(u) = n /\ \A i \in 1 .. n : u[i] = b[i]
  BY FrontOf
<1>3. w \in Seq(Int) /\ Len(w) = Len(b) - n /\ \A i \in 1 .. Len(b) - n : w[i] = b[n + i]
  BY RestOf
<1> HIDE DEF u, w
<1>4. <<x>> \in Seq(Int) /\ Len(<<x>>) = 1 /\ <<x>>[1] = x
  OBVIOUS
<1>5. /\ y \in Seq(Int) /\ Len(y) = n + 1
      /\ \A i \in 1 .. n : y[i] = b[i]
      /\ y[n + 1] = x
  <2> DEFINE o == <<x>>
  <2>1. o \in Seq(Int) /\ Len(o) = 1 /\ o[1] = x
    BY <1>4
  <2> HIDE DEF o
  <2>2. /\ u \o o \in Seq(Int) /\ Len(u \o o) = Len(u) + Len(o)
        /\ \A i \in 1 .. Len(u) + Len(o) : (u \o o)[i] = IF i <= Len(u) THEN u[i] ELSE o[i - Len(u)]
    BY <1>2, <2>1, ConcatProperties
  <2>3. \A i \in 1 .. n : (u \o o)[i] = b[i]
    BY <1>2, <2>1, <2>2
  <2>4. (u \o o)[n + 1] = x
    <3>1. n + 1 \in 1 .. Len(u) + Len(o) /\ ~(n + 1 <= Len(u)) /\ (n + 1) - Len(u) = 1
      BY <1>2, <2>1
    <3>2. QED
      BY <2>1, <2>2, <3>1
  <2>5. QED
    BY <1>2, <2>1, <2>2, <2>3, <2>4 DEF o
<1> HIDE DEF y
<1>6. /\ c \in Seq(Int) /\ Len(c) = Len(y) + Len(w)
      /\ \A i \in 1 .. Len(y) + Len(w) : c[i] = IF i <= Len(y) THEN y[i] ELSE w[i - Len(y)]
  BY <1>3, <1>5, ConcatProperties
<1> HIDE DEF c
<1>7. Len(c) = Len(b) + 1 /\ Len(b) \in Nat
  BY <1>3, <1>5, <1>6
<1>8. (\A i \in 1 .. n : c[i] = b[i]) /\ c[n + 1] = x
  <2>1. ASSUME NEW i \in 1 .. n + 1 PROVE c[i] = y[i]
    <3>1. i \in 1 .. Len(y) + Len(w) /\ i <= Len(y)
      BY <1>3, <1>5, <1>7
    <3>2. QED
      BY <1>6, <3>1
  <2>2. \A i \in 1 .. n : i \in 1 .. n + 1
    OBVIOUS
  <2>3. n + 1 \in 1 .. n + 1
    OBVIOUS
  <2>4. QED
    BY <1>5, <2>1, <2>2, <2>3
<1>9. ASSUME NEW i \in n + 1 .. Len(b) PROVE c[i + 1] = b[i]
  <2>1. i + 1 \in 1 .. Len(y) + Len(w) /\ ~(i + 1 <= Len(y)) /\ (i + 1) - Len(y) = i - n
    BY <1>3, <1>5, <1>7
  <2>2. i - n \in 1 .. Len(b) - n /\ n + (i - n) = i
    BY <1>7
  <2>3. QED
    BY <1>3, <1>6, <2>1, <2>2
<1>10. QED
  BY <1>1, <1>6, <1>7, <1>8, <1>9 DEF Spliced

LEMMA RemoveSplices ==
  ASSUME NEW b \in Seq(Int), NEW n \in Nat, n < Len(b)
  PROVE  Spliced(Seqs!RemoveAt(b, n + 1), b, n, b[n + 1])
<1> DEFINE u == SubSeq(b, 1, n)
           w == SubSeq(b, (n + 1) + 1, Len(b))
           c == u \o w
<1>0. Len(b) \in Nat /\ n \in 0 .. Len(b) /\ n + 1 \in 0 .. Len(b) /\ n + 1 \in 1 .. Len(b)
  OBVIOUS
<1>1. Seqs!RemoveAt(b, n + 1) = c
  <2>1. (n + 1) - 1 = n
    OBVIOUS
  <2>2. QED
    BY <2>1 DEF Seqs!RemoveAt
<1>2. u \in Seq(Int) /\ Len(u) = n /\ \A i \in 1 .. n : u[i] = b[i]
  BY <1>0, FrontOf
<1>3. /\ w \in Seq(Int) /\ Len(w) = Len(b) - (n + 1)
      /\ \A i \in 1 .. Len(b) - (n + 1) : w[i] = b[(n + 1) + i]
  BY <1>0, RestOf
<1> HIDE DEF u, w
<1>4. /\ c \in Seq(Int) /\ Len(c) = Len(u) + Len(w)
      /\ \A i \in 1 .. Len(u) + Len(w) : c[i] = IF i <= Len(u) THEN u[i] ELSE w[i - Len(u)]
  BY <1>2, <1>3, ConcatProperties
<1> HIDE DEF c
<1>5. Len(b) = Len(c) + 1 /\ n \in 0 .. Len(c) /\ b[n + 1] \in Int
  BY <1>0, <1>2, <1>3, <1>4
<1>6. ASSUME NEW i \in 1 .. n PROVE b[i] = c[i]
  <2>1. i \in 1 .. Len(u) + Len(w) /\ i <= Len(u)
    BY <1>0, <1>2, <1>3
  <2>2. QED
    BY <1>2, <1>4, <2>1
<1>7. ASSUME NEW i \in n + 1 .. Len(c) PROVE b[i + 1] = c[i]
  <2>1. i \in 1 .. Len(u) + Len(w) /\ ~(i <= Len(u)) /\ i - Len(u) = i - n
    BY <1>0, <1>2, <1>3, <1>4, <1>5
  <2>2. i - n \in 1 .. Len(b) - (n + 1) /\ (n + 1) + (i - n) = i + 1
    BY <1>0, <1>5
  <2>3. QED
    BY <1>3, <1>4, <2>1, <2>2
<1>8. QED
  BY <1>1, <1>4, <1>5, <1>6, <1>7 DEF Spliced

LEMMA SplicedMembers ==
  ASSUME NEW b, NEW c, NEW n, NEW x, Spliced(b, c, n, x)
  PROVE  Members(c) = Members(b) \cup {x}
<1>0. Len(b) \in Nat /\ n \in Nat /\ n <= Len(b) /\ Len(c) = Len(b) + 1
  BY DEF Spliced
<1>1. ASSUME NEW i \in 1 .. Len(c) PROVE c[i] \in Members(b) \cup {x}
  <2>1. CASE i <= n
    <3>1. i \in 1 .. n /\ i \in 1 .. Len(b)
      BY <1>0, <2>1
    <3>2. QED
      BY <3>1 DEF Spliced, Members
  <2>2. CASE i = n + 1
    BY <2>2 DEF Spliced
  <2>3. CASE i > n + 1
    <3>1. i - 1 \in n + 1 .. Len(b) /\ i - 1 \in 1 .. Len(b) /\ (i - 1) + 1 = i
      BY <1>0, <2>3
    <3>2. c[i] = b[i - 1]
      BY <3>1 DEF Spliced
    <3>3. QED
      BY <3>1, <3>2 DEF Members
  <2>4. QED
    BY <1>0, <2>1, <2>2, <2>3
<1>2. ASSUME NEW i \in 1 .. Len(b) PROVE b[i] \in Members(c)
  <2>1. CASE i <= n
    <3>1. i \in 1 .. n /\ i \in 1 .. Len(c)
      BY <1>0, <2>1
    <3>2. c[i] = b[i]
      BY <3>1 DEF Spliced
    <3>3. QED
      BY <3>1, <3>2 DEF Members
  <2>2. CASE i > n
    <3>1. i \in n + 1 .. Len(b) /\ i + 1 \in 1 .. Len(c)
      BY <1>0, <2>2
    <3>2. c[i + 1] = b[i]
      BY <3>1 DEF Spliced
    <3>3. QED
      BY <3>1, <3>2 DEF Members
  <2>3. QED
    BY <1>0, <2>1, <2>2
<1>3. x \in Members(c)
  <2>1. n + 1 \in 1 .. Len(c) /\ c[n + 1] = x
    BY <1>0 DEF Spliced
  <2>2. QED
    BY <2>1 DEF Members
<1>4. QED
  BY <1>1, <1>2, <1>3 DEF Members

LEMMA SplicedAscends ==
  ASSUME NEW b, NEW c, NEW n, NEW x, Spliced(b, c, n, x), Ascends(b), Around(b, x, n, n)
  PROVE  Ascends(c)
<1>0. Len(b) \in Nat /\ n \in Nat /\ n <= Len(b) /\ Len(c) = Len(b) + 1 /\ c[n + 1] = x
  BY DEF Spliced
<1>1. \A i \in 1 .. n : c[i] = b[i] /\ c[i] < x
  BY DEF Spliced, Around
<1>2. ASSUME NEW i \in n + 2 .. Len(c)
      PROVE  c[i] = b[i - 1] /\ x < c[i] /\ i - 1 \in 1 .. Len(b)
  <2>1. i - 1 \in n + 1 .. Len(b) /\ (i - 1) + 1 = i /\ i - 1 \in 1 .. Len(b)
    BY <1>0
  <2>2. c[i] = b[i - 1] /\ x < b[i - 1]
    BY <2>1 DEF Spliced, Around
  <2>3. QED
    BY <2>1, <2>2
<1>a. x \in Int /\ \A i \in 1 .. Len(c) : c[i] \in Int
  BY DEF Spliced
<1>3. ASSUME NEW i \in 1 .. Len(c), NEW j \in 1 .. Len(c), i < j PROVE c[i] < c[j]
  <2>1. CASE j <= n
    <3>1. i \in 1 .. n /\ j \in 1 .. n /\ i \in 1 .. Len(b) /\ j \in 1 .. Len(b)
      BY <1>0, <1>3, <2>1
    <3>2. b[i] < b[j]
      BY <1>3, <3>1 DEF Ascends
    <3>3. QED
      BY <1>1, <3>1, <3>2
  <2>2. CASE i > n + 1
    <3>1. i \in n + 2 .. Len(c) /\ j \in n + 2 .. Len(c) /\ i - 1 < j - 1
      BY <1>0, <1>3, <2>2
    <3>2. b[i - 1] < b[j - 1]
      BY <1>2, <3>1 DEF Ascends
    <3>3. QED
      BY <1>2, <3>1, <3>2
  <2>3. CASE i <= n + 1 /\ j > n
    <3>1. c[i] < x \/ (i = n + 1 /\ c[i] = x)
      <4>1. i \in 1 .. n \/ i = n + 1
        BY <1>0, <2>3
      <4>2. QED
        BY <1>0, <1>1, <4>1
    <3>2. x < c[j] \/ (j = n + 1 /\ c[j] = x)
      <4>1. j \in n + 2 .. Len(c) \/ j = n + 1
        BY <1>0, <2>3
      <4>2. QED
        BY <1>0, <1>2, <4>1
    <3>3. QED
      BY <1>a, <1>3, <3>1, <3>2
  <2>4. QED
    BY <1>0, <2>1, <2>2, <2>3
<1>4. QED
  BY <1>3 DEF Ascends

LEMMA SplicedShrinks ==
  ASSUME NEW b, NEW c, NEW n, NEW x, Spliced(b, c, n, x), Ascends(c)
  PROVE  Ascends(b) /\ x \notin Members(b)
<1>0. Len(b) \in Nat /\ n \in Nat /\ n <= Len(b) /\ Len(c) = Len(b) + 1 /\ c[n + 1] = x
      /\ n + 1 \in 1 .. Len(c) /\ x \in Int
  BY DEF Spliced
<1>1. ASSUME NEW i \in 1 .. Len(b), i <= n PROVE c[i] = b[i] /\ i \in 1 .. Len(c)
  <2>1. i \in 1 .. n /\ i \in 1 .. Len(c)
    BY <1>0, <1>1
  <2>2. QED
    BY <2>1 DEF Spliced
<1>2. ASSUME NEW i \in 1 .. Len(b), i > n PROVE c[i + 1] = b[i] /\ i + 1 \in 1 .. Len(c)
  <2>1. i \in n + 1 .. Len(b) /\ i + 1 \in 1 .. Len(c)
    BY <1>0, <1>2
  <2>2. QED
    BY <2>1 DEF Spliced
<1>3. ASSUME NEW i \in 1 .. Len(b), NEW j \in 1 .. Len(b), i < j PROVE b[i] < b[j]
  <2>1. CASE j <= n
    <3>1. i <= n
      BY <1>0, <1>3, <2>1
    <3>2. QED
      BY <1>1, <1>3, <2>1, <3>1 DEF Ascends
  <2>2. CASE i <= n /\ j > n
    <3>1. i < j + 1
      BY <1>3
    <3>2. QED
      BY <1>1, <1>2, <2>2, <3>1 DEF Ascends
  <2>3. CASE i > n
    <3>1. j > n /\ i + 1 < j + 1
      BY <1>0, <1>3, <2>3
    <3>2. QED
      BY <1>2, <2>3, <3>1 DEF Ascends
  <2>4. QED
    BY <1>0, <2>1, <2>2, <2>3
<1>4. ASSUME NEW i \in 1 .. Len(b) PROVE b[i] # x
  <2>1. CASE i <= n
    <3>1. i < n + 1
      BY <1>0, <2>1
    <3>2. b[i] < x
      BY <1>0, <1>1, <2>1, <3>1 DEF Ascends
    <3>3. QED
      BY <1>0, <3>2
  <2>2. CASE i > n
    <3>1. n + 1 < i + 1
      BY <1>0, <2>2
    <3>2. x < b[i]
      BY <1>0, <1>2, <2>2, <3>1 DEF Ascends
    <3>3. QED
      BY <1>0, <3>2
  <2>3. QED
    BY <1>0, <2>1, <2>2
<1>5. QED
  BY <1>3, <1>4 DEF Ascends, Members

-----------------------------------------------------------------------------
(* The blob s stands for the set S.                                        *)
Holds(s, S) ==
  /\ Blob(s) /\ Ascends(s.body)
  /\ S = Members(s.body)
  /\ \A x \in S : x \in I64 /\ Fits(x, s.encoding)

LEMMA HoldsTypes ==
  ASSUME NEW s, NEW S, Holds(s, S)
  PROVE  /\ s \in [encoding : Widths, len : Nat, body : Seq(Int)] /\ s.len = Len(s.body)
         /\ s.body \in Seq(Int) /\ s.len \in Nat /\ s.encoding \in Widths
         /\ Ascends(s.body) /\ S = Members(s.body)
         /\ \A i \in 1 .. Len(s.body) : s.body[i] \in I64 /\ Fits(s.body[i], s.encoding) /\ s.body[i] \in S
BY DEF Holds, Blob, Members

(* What was put in, in order, in a blob of a width that all of it fits.    *)
LEMMA HoldsSpliced ==
  ASSUME NEW s, NEW S, Holds(s, S), NEW e \in Widths, NEW v \in I64, NEW c, NEW n,
         Spliced(s.body, c, n, v), Around(s.body, v, n, n),
         Fits(v, e), \A x \in S : Fits(x, e)
  PROVE  Holds([encoding |-> e, len |-> s.len + 1, body |-> c], S \cup {v})
<1> DEFINE t == [encoding |-> e, len |-> s.len + 1, body |-> c]
<1>1. /\ s.len \in Nat /\ s.len = Len(s.body) /\ Ascends(s.body) /\ S = Members(s.body)
      /\ \A x \in S : x \in I64
  BY DEF Holds, Blob
<1>2. c \in Seq(Int) /\ Len(c) = Len(s.body) + 1
  BY DEF Spliced
<1>3. t \in [encoding : Widths, len : Nat, body : Seq(Int)]
  BY <1>1, <1>2
<1>4. t.len = Len(t.body) /\ t.body = c /\ t.encoding = e
  BY <1>1, <1>2
<1>5. Ascends(c)
  BY <1>1, SplicedAscends
<1>6. Members(c) = S \cup {v}
  BY <1>1, SplicedMembers
<1> HIDE DEF t
<1>7. QED
  BY <1>1, <1>3, <1>4, <1>5, <1>6 DEF Holds, Blob, t

(* An insertion where the value belongs, in cells that fit it.             *)
LEMMA InsertHolds ==
  ASSUME NEW s, NEW S, Holds(s, S), NEW v \in I64, Fits(v, s.encoding),
         NEW n \in Nat, n <= Len(s.body), Around(s.body, v, n, n)
  PROVE  Holds(isInsertAt(s, n, v), S \cup {v})
<1> DEFINE b == s.body
           x == AsWidth(v, s.encoding)
           c == Seqs!InsertAt(b, n + 1, x)
<1>1. s \in [encoding : Widths, len : Nat, body : Seq(Int)] /\ s.encoding \in Widths /\ b \in Seq(Int)
  BY HoldsTypes
<1>2. v \in Int
  BY HalfTypes
<1>3. x = v
  BY <1>1, <1>2, Kept
<1> HIDE DEF x
<1>4. n \in 0 .. Len(b)
  BY <1>1
<1>5. Spliced(b, c, n, v)
  <2> HIDE DEF b
  <2>1. Spliced(b, Seqs!InsertAt(b, n + 1, v), n, v)
    BY <1>1, <1>2, <1>4, InsertSplices
  <2>2. QED
    BY <1>3, <2>1
<1>6. isInsertAt(s, n, v) = [encoding |-> s.encoding, len |-> s.len + 1, body |-> c]
  <2> DEFINE t == [s EXCEPT !.len = @ + 1]
  <2>1. isInsertAt(s, n, v) = [t EXCEPT !.body = Seqs!InsertAt(@, n + 1, x)]
    BY <1>1 DEF isInsertAt, x
  <2>2. t = [encoding |-> s.encoding, len |-> s.len + 1, body |-> b]
    BY <1>1
  <2> HIDE DEF t, b
  <2>3. QED
    BY <2>1, <2>2
<1> HIDE DEF c
<1>7. \A y \in S : Fits(y, s.encoding)
  BY DEF Holds
<1> DEFINE e == s.encoding
<1>8. e \in Widths /\ Fits(v, e) /\ \A y \in S : Fits(y, e)
  BY <1>1, <1>7
<1> HIDE DEF e
<1>9. Holds([encoding |-> e, len |-> s.len + 1, body |-> c], S \cup {v})
  BY <1>5, <1>8, HoldsSpliced
<1>10. QED
  BY <1>6, <1>9 DEF e

(* A value that does not fit is beyond all that do, on the side of its     *)
(* sign; the elements are what they were in the wider cells.               *)
LEMMA UpgradeHolds ==
  ASSUME NEW s, NEW S, Holds(s, S), NEW v \in I64, value_encoding(v) > s.encoding
  PROVE  Holds(isUpgradeAndAdd(s, v, value_encoding(v)), S \cup {v})
<1> DEFINE b == s.body
           e == value_encoding(v)
           wide == [i \in 1 .. s.len |-> AsWidth(b[i], e)]
           w == AsWidth(v, e)
<1>1. /\ s \in [encoding : Widths, len : Nat, body : Seq(Int)] /\ s.encoding \in Widths
      /\ b \in Seq(Int) /\ s.len = Len(b) /\ s.len \in Nat
      /\ \A i \in 1 .. Len(b) : b[i] \in I64 /\ Fits(b[i], s.encoding) /\ b[i] \in S
  BY HoldsTypes
<1>2. e \in Widths /\ Fits(v, e) /\ ~Fits(v, s.encoding) /\ v \in Int
  <2>1. v \in Int /\ e \in Widths /\ \A d \in Widths : e <= d <=> Fits(v, d)
    BY HalfTypes, Needs
  <2>2. e \in Int /\ s.encoding \in Int /\ e > s.encoding
    BY <1>1, <2>1 DEF Widths, ENC_INT16, ENC_INT32, ENC_INT64
  <2>3. e <= e /\ ~(e <= s.encoding)
    BY <2>2
  <2>4. QED
    BY <1>1, <2>1, <2>3
<1>3. ASSUME NEW y \in I64, Fits(y, s.encoding) PROVE Fits(y, e)
  <2>1. y \in Int /\ value_encoding(y) \in Widths
        /\ \A d \in Widths : value_encoding(y) <= d <=> Fits(y, d)
    BY HalfTypes, Needs
  <2>2. value_encoding(y) <= s.encoding /\ s.encoding < e
    BY <1>1, <1>3, <2>1
  <2>3. value_encoding(y) <= e
    BY <1>1, <1>2, <2>1, <2>2 DEF Widths, ENC_INT16, ENC_INT32, ENC_INT64
  <2>4. QED
    BY <1>2, <2>1, <2>3
<1> HIDE DEF e
<1>4. wide = b
  <2>1. ASSUME NEW i \in 1 .. s.len PROVE AsWidth(b[i], e) = b[i]
    <3>1. i \in 1 .. Len(b) /\ b[i] \in Int
      BY <1>1
    <3>2. Fits(b[i], e)
      BY <1>1, <1>3, <3>1
    <3>3. QED
      BY <1>2, <3>1, <3>2, Kept
  <2>2. b = [i \in 1 .. s.len |-> b[i]]
    BY <1>1
  <2>3. QED
    BY <2>1, <2>2
<1>5. w = v
  BY <1>2, Kept
<1>6. \A x \in S : Fits(x, e)
  BY <1>3 DEF Holds
<1> HIDE DEF w, wide
<1>7. isUpgradeAndAdd(s, v, e)
        = [encoding |-> e, len |-> s.len + 1, body |-> IF v < 0 THEN <<v>> \o b ELSE b \o <<v>>]
  <2>1. isUpgradeAndAdd(s, v, e)
        = [encoding |-> e, len |-> s.len + 1, body |-> IF v < 0 THEN <<w>> \o wide ELSE wide \o <<w>>]
    BY DEF isUpgradeAndAdd, w, wide
  <2>2. QED
    BY <1>4, <1>5, <2>1
<1>8. ASSUME NEW i \in 1 .. Len(b)
      PROVE  b[i] \in Int /\ -ISHalf[s.encoding] <= b[i] /\ b[i] <= ISHalf[s.encoding] - 1
  <2>1. b[i] \in Int
    BY <1>1
  <2>2. QED
    BY <1>1, <2>1 DEF Fits, ISMin, ISMax
<1>9. ISHalf[s.encoding] \in Nat /\ ISHalf[s.encoding] > 0
      /\ (v < -ISHalf[s.encoding] \/ v > ISHalf[s.encoding] - 1)
  <2>1. ISHalf[s.encoding] \in Nat /\ ISHalf[s.encoding] > 0
    BY <1>1, HalfTypes
  <2>2. QED
    BY <1>2, <2>1 DEF Fits, ISMin, ISMax
<1> DEFINE o == <<v>>
<1>10. o \in Seq(Int) /\ Len(o) = 1 /\ o[1] = v
  BY <1>2
<1>11. CASE v < 0
  <2> DEFINE c == o \o b
  <2> HIDE DEF o
  <2>1. /\ c \in Seq(Int) /\ Len(c) = Len(o) + Len(b)
        /\ \A i \in 1 .. Len(o) + Len(b) : c[i] = IF i <= Len(o) THEN o[i] ELSE b[i - Len(o)]
    BY <1>1, <1>10, ConcatProperties
  <2> HIDE DEF c
  <2>2. c[1] = v
    <3>1. 1 \in 1 .. Len(o) + Len(b) /\ 1 <= Len(o)
      BY <1>1, <1>10
    <3>2. QED
      BY <1>10, <2>1, <3>1
  <2>3. ASSUME NEW i \in 1 .. Len(b) PROVE c[i + 1] = b[i]
    <3>1. i + 1 \in 1 .. Len(o) + Len(b) /\ ~(i + 1 <= Len(o)) /\ (i + 1) - Len(o) = i
      BY <1>1, <1>10
    <3>2. QED
      BY <2>1, <3>1
  <2>4. Spliced(b, c, 0, v)
    <3>1. 0 \in 0 .. Len(b) /\ Len(c) = Len(b) + 1 /\ 0 + 1 = 1
      BY <1>1, <1>10, <2>1
    <3>2. QED
      BY <1>1, <1>2, <2>1, <2>2, <2>3, <3>1 DEF Spliced
  <2>5. Around(b, v, 0, 0)
    <3>1. ASSUME NEW i \in 0 + 1 .. Len(b) PROVE v < b[i]
      <4>1. i \in 1 .. Len(b)
        OBVIOUS
      <4>2. QED
        BY <1>2, <1>8, <1>9, <1>11, <4>1
    <3>2. QED
      BY <3>1 DEF Around
  <2>6. Holds([encoding |-> e, len |-> s.len + 1, body |-> c], S \cup {v})
    BY <1>2, <1>6, <2>4, <2>5, HoldsSpliced
  <2>7. QED
    BY <1>7, <1>11, <2>6 DEF c, o, e
<1>12. CASE ~(v < 0)
  <2> DEFINE c == b \o o
  <2> HIDE DEF o
  <2>1. /\ c \in Seq(Int) /\ Len(c) = Len(b) + Len(o)
        /\ \A i \in 1 .. Len(b) + Len(o) : c[i] = IF i <= Len(b) THEN b[i] ELSE o[i - Len(b)]
    BY <1>1, <1>10, ConcatProperties
  <2> HIDE DEF c
  <2>2. c[Len(b) + 1] = v
    <3>1. Len(b) + 1 \in 1 .. Len(b) + Len(o) /\ ~(Len(b) + 1 <= Len(b)) /\ (Len(b) + 1) - Len(b) = 1
      BY <1>1, <1>10
    <3>2. QED
      BY <1>10, <2>1, <3>1
  <2>3. ASSUME NEW i \in 1 .. Len(b) PROVE c[i] = b[i]
    <3>1. i \in 1 .. Len(b) + Len(o) /\ i <= Len(b)
      BY <1>1, <1>10
    <3>2. QED
      BY <2>1, <3>1
  <2>4. Spliced(b, c, Len(b), v)
    <3>1. Len(b) \in 0 .. Len(b) /\ Len(c) = Len(b) + 1
      BY <1>1, <1>10, <2>1
    <3>2. \A i \in Len(b) + 1 .. Len(b) : c[i + 1] = b[i]
      BY <1>1
    <3>3. QED
      BY <1>1, <1>2, <2>1, <2>2, <2>3, <3>1, <3>2 DEF Spliced
  <2>5. Around(b, v, Len(b), Len(b))
    <3>1. \A i \in 1 .. Len(b) : b[i] < v
      BY <1>2, <1>8, <1>9, <1>12
    <3>2. \A i \in Len(b) + 1 .. Len(b) : v < b[i]
      BY <1>1
    <3>3. QED
      BY <3>1, <3>2 DEF Around
  <2>6. Holds([encoding |-> e, len |-> s.len + 1, body |-> c], S \cup {v})
    BY <1>2, <1>6, <2>4, <2>5, HoldsSpliced
  <2>7. QED
    BY <1>7, <1>12, <2>6 DEF c, o, e
<1>13. QED
  BY <1>11, <1>12

(* Adding holds the set with the value, in place or with wider cells.      *)
LEMMA AddHolds ==
  ASSUME NEW s, NEW S, Holds(s, S), NEW v \in I64
  PROVE  Holds(isAdd(s, v), S \cup {v})
<1> DEFINE need == value_encoding(v)
           r == isSearch(s, v)
<1>1. s.encoding \in Widths /\ s.body \in Seq(Int) /\ Blob(s) /\ Ascends(s.body) /\ S = Members(s.body)
      /\ v \in Int
  BY HoldsTypes, HalfTypes DEF Holds
<1>2. need \in Widths /\ \A d \in Widths : need <= d <=> Fits(v, d)
  BY Needs
<1>3. Located(s.body, v, r)
  BY <1>1, SearchFinds
<1>4. isAdd(s, v) = IF need > s.encoding THEN isUpgradeAndAdd(s, v, need)
                    ELSE IF r.found THEN s ELSE isInsertAt(s, r.at, v)
  BY DEF isAdd
<1>5. CASE need > s.encoding
  BY <1>4, <1>5, UpgradeHolds
<1>6. CASE ~(need > s.encoding)
  <2>1. Fits(v, s.encoding)
    <3>1. need <= s.encoding
      BY <1>1, <1>2, <1>6 DEF Widths, ENC_INT16, ENC_INT32, ENC_INT64
    <3>2. QED
      BY <1>1, <1>2, <3>1
  <2> HIDE DEF r, need
  <2>2. CASE r.found
    <3>1. r.at \in Nat /\ r.at < Len(s.body) /\ s.body[r.at + 1] = v
      BY <1>3, <2>2 DEF Located, Answer
    <3>2. r.at + 1 \in 1 .. Len(s.body)
      BY <1>1, <3>1
    <3>3. v \in S
      BY <1>1, <3>1, <3>2 DEF Members
    <3>4. S \cup {v} = S /\ isAdd(s, v) = s
      BY <1>4, <1>6, <2>2, <3>3
    <3>5. QED
      BY <3>4
  <2>3. CASE ~r.found
    <3> DEFINE n == r.at
    <3>1. n \in Nat /\ n <= Len(s.body) /\ Around(s.body, v, n, n)
      BY <1>3, <2>3 DEF Located, Answer, Around
    <3>2. isAdd(s, v) = isInsertAt(s, n, v)
      BY <1>4, <1>6, <2>3
    <3> HIDE DEF n
    <3>3. QED
      BY <2>1, <3>1, <3>2, InsertHolds
  <2>4. QED
    BY <2>2, <2>3
<1>7. QED
  BY <1>5, <1>6

(* What search did not find is not a member.                               *)
LEMMA AbsentFrom ==
  ASSUME NEW b \in Seq(Int), NEW v \in Int, NEW n \in Nat, n <= Len(b), Around(b, v, n, n)
  PROVE  v \notin Members(b)
<1>1. ASSUME NEW i \in 1 .. Len(b) PROVE b[i] # v
  <2>1. b[i] \in Int /\ (i \in 1 .. n \/ i \in n + 1 .. Len(b))
    OBVIOUS
  <2>2. b[i] < v \/ v < b[i]
    BY <2>1 DEF Around
  <2>3. QED
    BY <2>1, <2>2
<1>2. QED
  BY <1>1 DEF Members

(* Removing holds the set without the value.                               *)
LEMMA RemoveHolds ==
  ASSUME NEW s, NEW S, Holds(s, S), NEW v \in I64
  PROVE  Holds(isRemove(s, v), S \ {v})
<1> DEFINE r == isSearch(s, v)
           n == r.at
           b == s.body
           c == Seqs!RemoveAt(b, n + 1)
<1>1. /\ s \in [encoding : Widths, len : Nat, body : Seq(Int)] /\ s.len = Len(b)
      /\ s.encoding \in Widths /\ b \in Seq(Int) /\ Blob(s) /\ Ascends(b) /\ S = Members(b)
      /\ v \in Int /\ s.len \in Nat /\ \A x \in S : x \in I64 /\ Fits(x, s.encoding)
  BY HoldsTypes, HalfTypes DEF Holds
<1>2. Located(b, v, r)
  BY <1>1, SearchFinds
<1>3. isRemove(s, v) = IF value_encoding(v) > s.encoding \/ ~r.found THEN s
                       ELSE [s EXCEPT !.len = @ - 1, !.body = c]
  BY <1>1 DEF isRemove
<1> HIDE DEF r
<1>4. CASE value_encoding(v) > s.encoding
  <2>1. v \notin S
    <3>1. value_encoding(v) \in Widths /\ (value_encoding(v) <= s.encoding <=> Fits(v, s.encoding))
      BY <1>1, Needs
    <3>2. ~(value_encoding(v) <= s.encoding)
      BY <1>1, <1>4, <3>1 DEF Widths, ENC_INT16, ENC_INT32, ENC_INT64
    <3>3. QED
      BY <1>1, <3>1, <3>2
  <2>2. S \ {v} = S /\ isRemove(s, v) = s
    BY <1>3, <1>4, <2>1
  <2>3. QED
    BY <2>2
<1>5. CASE ~r.found
  <2>1. n \in Nat /\ n <= Len(b) /\ Around(b, v, n, n)
    BY <1>2, <1>5 DEF Located, Answer, Around
  <2>2. v \notin S
    <3> HIDE DEF n, b
    <3>1. QED
      BY <1>1, <2>1, AbsentFrom
  <2>3. S \ {v} = S /\ isRemove(s, v) = s
    BY <1>3, <1>5, <2>2
  <2>4. QED
    BY <2>3
<1>6. CASE ~(value_encoding(v) > s.encoding) /\ r.found
  <2>1. n \in Nat /\ n < Len(b) /\ b[n + 1] = v
    BY <1>2, <1>6 DEF Located, Answer
  <2>2. Spliced(c, b, n, v)
    <3> HIDE DEF n, b
    <3>1. QED
      BY <1>1, <2>1, RemoveSplices
  <2>3. isRemove(s, v) = [s EXCEPT !.len = @ - 1, !.body = c]
    BY <1>3, <1>6
  <2> HIDE DEF c
  <2> DEFINE t == [s EXCEPT !.len = @ - 1, !.body = c]
  <2>4. c \in Seq(Int) /\ Len(c) = s.len - 1 /\ Len(c) \in Nat
    BY <1>1, <2>2 DEF Spliced
  <2>5. t = [encoding |-> s.encoding, len |-> s.len - 1, body |-> c]
    <3> DEFINE y == [s EXCEPT !.len = @ - 1]
    <3>1. t = [y EXCEPT !.body = c]
      BY <1>1
    <3>2. y = [encoding |-> s.encoding, len |-> s.len - 1, body |-> s.body]
      BY <1>1
    <3> HIDE DEF y, t
    <3>3. QED
      BY <3>1, <3>2
  <2>6. t \in [encoding : Widths, len : Nat, body : Seq(Int)]
        /\ t.body = c /\ t.len = Len(c) /\ t.encoding = s.encoding
    <3> HIDE DEF t
    <3>1. QED
      BY <1>1, <2>4, <2>5
  <2> HIDE DEF t
  <2>7. Ascends(c) /\ v \notin Members(c)
    BY <1>1, <2>2, SplicedShrinks
  <2>8. S = Members(c) \cup {v}
    BY <1>1, <2>2, SplicedMembers
  <2>9. S \ {v} = Members(c)
    BY <2>7, <2>8
  <2>10. \A x \in S \ {v} : x \in I64 /\ Fits(x, s.encoding)
    BY <1>1
  <2>11. Holds(t, S \ {v})
    BY <2>6, <2>7, <2>9, <2>10 DEF Holds, Blob
  <2>12. QED
    BY <2>3, <2>11 DEF t
<1>7. QED
  BY <1>4, <1>5, <1>6

(* A new and a cleared blob hold nothing.                                  *)
LEMMA EmptyHolds ==
  ASSUME NEW s, s \in [encoding : Widths, len : {0}, body : {<<>>}]
  PROVE  Holds(s, {})
<1>1. s.body = <<>> /\ s.len = 0 /\ s.encoding \in Widths
  OBVIOUS
<1>2. <<>> \in Seq(Int) /\ Len(<<>>) = 0
  OBVIOUS
<1>3. s \in [encoding : Widths, len : Nat, body : Seq(Int)]
  <2>1. s = [encoding |-> s.encoding, len |-> 0, body |-> <<>>]
    OBVIOUS
  <2> DEFINE e == s.encoding
             q == <<>>
  <2>2. q \in Seq(Int) /\ e \in Widths /\ s = [encoding |-> e, len |-> 0, body |-> q]
    BY <1>1, <1>2, <2>1
  <2> HIDE DEF e, q
  <2>3. QED
    BY <2>2
<1>4. Members(<<>>) = {} /\ Ascends(<<>>)
  BY DEF Members, Ascends
<1>5. QED
  BY <1>1, <1>2, <1>3, <1>4 DEF Holds, Blob

(* The loader accepts what the operations leave.                           *)
LEMMA ReloadSame ==
  ASSUME NEW s, NEW S, Holds(s, S)
  PROVE  isFromBytes(s) = s
<1>1. s.encoding \in Widths /\ Len(s.body) = s.len /\ s.len \in Nat /\ Ascends(s.body)
  BY HoldsTypes
<1>2. \A i \in 1 .. s.len - 1 : s.body[i] < s.body[i + 1]
  <2>1. ASSUME NEW i \in 1 .. s.len - 1 PROVE i \in 1 .. s.len /\ i + 1 \in 1 .. s.len /\ i < i + 1
    BY <1>1
  <2>2. QED
    BY <1>1, <2>1 DEF Ascends
<1>3. QED
  BY <1>1, <1>2 DEF isFromBytes, Widths

(* The invariant: the blob stands for the set, of the callers' integers.   *)
IntsetInv == Holds(iset, isetAbs) /\ isetAbs \subseteq ISValues

(* Every operation keeps the invariant.                                    *)
LEMMA IntsetKeeps == IntsetInv /\ [isNext]_isVars => IntsetInv'
<1> SUFFICES ASSUME IntsetInv, [isNext]_isVars PROVE IntsetInv'
  OBVIOUS
<1>0. Holds(iset, isetAbs) /\ isetAbs \subseteq ISValues /\ ISValues \subseteq I64
  BY HalfTypes DEF IntsetInv
<1>1. ASSUME NEW v \in ISValues, IntsetAdd(v) PROVE IntsetInv'
  <2>1. Holds(isAdd(iset, v), isetAbs \cup {v})
    BY <1>0, AddHolds
  <2>2. QED
    BY <1>0, <1>1, <2>1 DEF IntsetAdd, IntsetInv
<1>2. ASSUME NEW v \in ISValues, IntsetRemove(v) PROVE IntsetInv'
  <2>1. Holds(isRemove(iset, v), isetAbs \ {v})
    BY <1>0, RemoveHolds
  <2>2. QED
    BY <1>0, <1>2, <2>1 DEF IntsetRemove, IntsetInv
<1>3. CASE IntsetClear
  <2>1. iset \in [encoding : Widths, len : Nat, body : Seq(Int)]
    BY <1>0, HoldsTypes
  <2>2. isClear(iset) \in [encoding : Widths, len : {0}, body : {<<>>}]
    BY <2>1 DEF isClear
  <2>3. Holds(isClear(iset), {})
    BY <2>2, EmptyHolds
  <2>4. QED
    BY <1>3, <2>3 DEF IntsetClear, IntsetInv
<1>4. CASE IntsetReload
  <2>1. isFromBytes(iset) = iset
    BY <1>0, ReloadSame
  <2>2. QED
    BY <1>0, <1>4, <2>1 DEF IntsetReload, IntsetInv
<1>5. CASE UNCHANGED isVars
  BY <1>0, <1>5 DEF isVars, IntsetInv
<1>6. QED
  BY <1>1, <1>2, <1>3, <1>4, <1>5 DEF isNext

-----------------------------------------------------------------------------
(* An ascending sequence has as many members as elements.                  *)
LEMMA CountUpTo ==
  ASSUME NEW b \in Seq(Int), Ascends(b), NEW n \in 0 .. Len(b)
  PROVE  Cardinality({b[i] : i \in 1 .. n}) = n
<1> DEFINE T == {b[i] : i \in 1 .. n}
           f == [i \in 1 .. n |-> b[i]]
<1>1. IsFiniteSet(1 .. n) /\ Cardinality(1 .. n) = n
  <2>1. 1 \in Int /\ n \in Int /\ n >= 0
    OBVIOUS
  <2>2. IsFiniteSet(1 .. n) /\ Cardinality(1 .. n) = IF 1 > n THEN 0 ELSE n - 1 + 1
    BY <2>1, FS_Interval
  <2>3. QED
    BY <2>1, <2>2
<1>2. f \in [1 .. n -> T]
  OBVIOUS
<1>3. ASSUME NEW i \in 1 .. n, NEW j \in 1 .. n, f[i] = f[j] PROVE i = j
  <2>1. i \in 1 .. Len(b) /\ j \in 1 .. Len(b) /\ b[i] \in Int /\ b[j] \in Int /\ b[i] = b[j]
    BY <1>3
  <2>2. ~(i < j) /\ ~(j < i)
    BY <2>1 DEF Ascends
  <2>3. QED
    BY <2>1, <2>2
<1>4. \A y \in T : \E i \in 1 .. n : f[i] = y
  OBVIOUS
<1>5. f \in Bijection(1 .. n, T)
  <2> HIDE DEF f, T
  <2>1. f \in Injection(1 .. n, T)
    BY <1>2, <1>3 DEF Injection, IsInjective
  <2>2. f \in Surjection(1 .. n, T)
    BY <1>2, <1>4 DEF Surjection
  <2>3. QED
    BY <2>1, <2>2 DEF Bijection
<1>6. ExistsBijection(1 .. n, T)
  BY <1>5 DEF ExistsBijection
<1> HIDE DEF T
<1>7. Cardinality(T) = n
  BY <1>1, <1>6, FS_Bijection
<1>8. QED
  BY <1>7 DEF T

(* Where search ends is how many members are smaller.                      *)
LEMMA RankOf ==
  ASSUME NEW b \in Seq(Int), Ascends(b), NEW v \in Int, NEW r, Located(b, v, r)
  PROVE  Cardinality({w \in Members(b) : w < v}) = r.at
<1> DEFINE n == r.at
<1>1. n \in Nat /\ n <= Len(b) /\ n \in 0 .. Len(b)
  BY DEF Located, Answer
<1>2. ASSUME NEW i \in 1 .. Len(b) PROVE b[i] < v <=> i \in 1 .. n
  <2>1. b[i] \in Int /\ (i \in 1 .. n \/ i \in n + 1 .. Len(b)) /\ ~(i \in 1 .. n /\ i \in n + 1 .. Len(b))
    BY <1>1
  <2>2. CASE r.found
    <3>1. n + 1 \in 1 .. Len(b) /\ b[n + 1] = v
      BY <1>1, <2>2 DEF Located
    <3>2. CASE i \in 1 .. n
      <4>1. i < n + 1
        BY <1>1, <3>2
      <4>2. QED
        BY <3>1, <3>2, <4>1 DEF Ascends
    <3>3. CASE i \in n + 1 .. Len(b)
      <4>1. i = n + 1 \/ n + 1 < i
        BY <1>1, <3>3
      <4>2. b[i] = v \/ v < b[i]
        BY <3>1, <4>1 DEF Ascends
      <4>3. ~(b[i] < v)
        BY <2>1, <4>2
      <4>4. QED
        BY <2>1, <3>3, <4>3
    <3>4. QED
      BY <2>1, <3>2, <3>3
  <2>3. CASE ~r.found
    <3>1. i \in 1 .. n => b[i] < v
      BY <2>3 DEF Located
    <3>2. i \in n + 1 .. Len(b) => v < b[i]
      BY <2>3 DEF Located
    <3>3. v < b[i] => ~(b[i] < v)
      BY <2>1
    <3>4. QED
      BY <2>1, <3>1, <3>2, <3>3
  <2>4. QED
    BY <2>2, <2>3
<1>3. \A i \in 1 .. n : i \in 1 .. Len(b)
  BY <1>1
<1> HIDE DEF n
<1>4. {w \in Members(b) : w < v} = {b[i] : i \in 1 .. n}
  BY <1>2, <1>3 DEF Members
<1>5. QED
  BY <1>1, <1>4, CountUpTo DEF n

(* Search finds exactly the members.                                       *)
LEMMA FoundIffMember ==
  ASSUME NEW b \in Seq(Int), NEW v \in Int, NEW r, Located(b, v, r)
  PROVE  r.found = (v \in Members(b))
<1> DEFINE n == r.at
<1>0. r.found \in BOOLEAN
  BY Zenon DEF Located, Answer
<1>1. n \in Nat /\ n <= Len(b)
  BY DEF Located, Answer
<1>2. CASE r.found
  <2>1. n + 1 \in 1 .. Len(b) /\ b[n + 1] = v
    BY <1>1, <1>2 DEF Located
  <2>2. v \in Members(b)
    BY <2>1 DEF Members
  <2>3. QED
    BY <1>0, <1>2, <2>2
<1>3. CASE ~r.found
  <2>1. Around(b, v, n, n)
    BY <1>3 DEF Located, Around
  <2>2. v \notin Members(b)
    <3> HIDE DEF n
    <3>1. QED
      BY <1>1, <2>1, AbsentFrom
  <2>3. QED
    BY <1>0, <1>3, <2>2
<1>4. QED
  BY <1>2, <1>3

(* What a blob that holds the set answers is what the set says.            *)
LEMMA HoldsAnswers == IntsetInv => IntsetHoldsTheSet
<1> SUFFICES ASSUME IntsetInv PROVE IntsetHoldsTheSet
  OBVIOUS
<1> DEFINE b == iset.body
           n == iset.len
<1>0. Holds(iset, isetAbs)
  BY DEF IntsetInv
<1>1. /\ iset \in [encoding : Widths, len : Nat, body : Seq(Int)] /\ n = Len(b)
      /\ b \in Seq(Int) /\ n \in Nat /\ iset.encoding \in Widths
      /\ Ascends(b) /\ isetAbs = Members(b)
      /\ \A i \in 1 .. Len(b) : b[i] \in I64 /\ Fits(b[i], iset.encoding) /\ b[i] \in isetAbs
  BY <1>0, HoldsTypes
<1>2. ASSUME NEW i \in 0 .. n - 1 PROVE isGet(iset, i) = b[i + 1] /\ i + 1 \in 1 .. Len(b)
  BY <1>1 DEF isGet
<1>3. isIter(iset) = b
  <2>1. ASSUME NEW i \in 1 .. n PROVE isGet(iset, i - 1) = b[i]
    <3>1. i - 1 \in 0 .. n - 1 /\ (i - 1) + 1 = i
      BY <1>1
    <3>2. QED
      BY <1>2, <3>1
  <2>2. b = [i \in 1 .. n |-> b[i]]
    BY <1>1
  <2>3. isIter(iset) = [i \in 1 .. n |-> isGet(iset, i - 1)]
    BY DEF isIter
  <2> HIDE DEF b, n
  <2>4. QED
    BY <2>1, <2>2, <2>3
<1>4. iset # Nil
  BY <1>1, IntsetConstants DEF Widths
<1>5. n = Cardinality(isetAbs)
  <2> HIDE DEF b, n
  <2>1. n \in 0 .. Len(b)
    BY <1>1
  <2>2. Cardinality({b[i] : i \in 1 .. n}) = n
    BY <1>1, <2>1, CountUpTo
  <2>3. QED
    BY <1>1, <2>2 DEF Members
<1>6. Seqs!ToSet(isIter(iset)) = isetAbs
  <2> HIDE DEF b, n
  <2>1. DOMAIN b = 1 .. Len(b)
    BY <1>1
  <2>2. QED
    BY <1>1, <1>3, <2>1 DEF Seqs!ToSet, Members
<1>7. \A v \in isetAbs : value_encoding(v) <= iset.encoding
  BY <1>0, <1>1, Needs DEF Holds
<1>8. \A i \in 1 .. n - 1 : isIter(iset)[i] < isIter(iset)[i + 1]
  <2> HIDE DEF b, n
  <2>1. ASSUME NEW i \in 1 .. n - 1 PROVE b[i] < b[i + 1]
    <3>1. i \in 1 .. Len(b) /\ i + 1 \in 1 .. Len(b) /\ i < i + 1
      BY <1>1
    <3>2. QED
      BY <1>1, <3>1 DEF Ascends
  <2>2. QED
    BY <1>3, <2>1
<1>9. isIterBack(iset) = Seqs!Reverse(isIter(iset))
  <2>1. ASSUME NEW i \in 1 .. n PROVE isGet(iset, n - i) = b[(Len(b) - i) + 1]
    <3>1. n - i \in 0 .. n - 1 /\ (n - i) + 1 = (Len(b) - i) + 1
      BY <1>1
    <3>2. QED
      BY <1>2, <3>1
  <2>2. isIterBack(iset) = [i \in 1 .. n |-> isGet(iset, n - i)]
    BY DEF isIterBack
  <2>3. Seqs!Reverse(b) = [i \in 1 .. Len(b) |-> b[(Len(b) - i) + 1]]
    BY DEF Seqs!Reverse
  <2> HIDE DEF b, n
  <2>4. QED
    BY <1>1, <1>3, <2>1, <2>2, <2>3
<1>10. isRandomChoices(iset) = isetAbs
  <2>1. isRandomChoices(iset) = {isGet(iset, i) : i \in 0 .. n - 1}
    BY DEF isRandomChoices
  <2>2. ASSUME NEW i \in 1 .. Len(b) PROVE b[i] \in {isGet(iset, k) : k \in 0 .. n - 1}
    <3>1. i - 1 \in 0 .. n - 1 /\ (i - 1) + 1 = i
      BY <1>1
    <3>2. isGet(iset, i - 1) = b[i]
      BY <1>2, <3>1
    <3>3. QED
      BY <3>1, <3>2
  <2>3. ASSUME NEW i \in 0 .. n - 1 PROVE isGet(iset, i) \in Members(b)
    BY <1>2 DEF Members
  <2> HIDE DEF b, n
  <2>4. QED
    BY <1>1, <2>1, <2>2, <2>3 DEF Members
<1>11. ASSUME NEW v \in ISValues
       PROVE  /\ isContains(iset, v) = (v \in isetAbs)
              /\ isSearch(iset, v).at = Cardinality({w \in isetAbs : w < v})
  <2>1. v \in Int
    BY HalfTypes
  <2>2. Located(b, v, isSearch(iset, v))
    BY <1>0, <1>1, <2>1, SearchFinds DEF Holds
  <2> DEFINE r == isSearch(iset, v)
  <2> HIDE DEF b, r
  <2>3. r.found = (v \in isetAbs)
    BY <1>1, <2>1, <2>2, FoundIffMember DEF r
  <2>4. r.at = Cardinality({w \in isetAbs : w < v})
    BY <1>1, <2>1, <2>2, RankOf DEF r
  <2>5. QED
    BY <2>3, <2>4 DEF isContains, r
<1>12. \A v \in {isMin(iset)} \ {Nil} : \A w \in isetAbs : v <= w
  <2> SUFFICES ASSUME isMin(iset) # Nil, NEW w \in isetAbs PROVE isMin(iset) <= w
    OBVIOUS
  <2>1. PICK i \in 1 .. Len(b) : w = b[i]
    BY <1>1 DEF Members
  <2>2. 0 \in 0 .. n - 1 /\ 0 + 1 = 1 /\ 1 \in 1 .. Len(b) /\ (i = 1 \/ 1 < i)
    BY <1>1, <2>1
  <2>3. isMin(iset) = b[1] /\ b[1] \in Int /\ b[i] \in Int
    BY <1>1, <1>2, <2>2 DEF isMin
  <2>4. b[1] = b[i] \/ b[1] < b[i]
    BY <1>1, <2>2 DEF Ascends
  <2>5. QED
    BY <2>1, <2>3, <2>4
<1>13. \A v \in {isMax(iset)} \ {Nil} : \A w \in isetAbs : v >= w
  <2> SUFFICES ASSUME isMax(iset) # Nil, NEW w \in isetAbs PROVE isMax(iset) >= w
    OBVIOUS
  <2>1. PICK i \in 1 .. Len(b) : w = b[i]
    BY <1>1 DEF Members
  <2>2. n - 1 \in 0 .. n - 1 /\ (n - 1) + 1 = n /\ n \in 1 .. Len(b) /\ (i = n \/ i < n) /\ n # 0
    BY <1>1, <2>1
  <2>3. isMax(iset) = b[n] /\ b[n] \in Int /\ b[i] \in Int
    BY <1>1, <1>2, <2>2 DEF isMax
  <2>4. b[n] = b[i] \/ b[i] < b[n]
    BY <1>1, <2>2 DEF Ascends
  <2>5. QED
    BY <2>1, <2>3, <2>4
<1>14. isFromBytes(iset) = iset
  BY <1>0, ReloadSame
<1>15. QED
  BY <1>1, <1>4, <1>5, <1>6, <1>7, <1>8, <1>9, <1>10, <1>11, <1>12, <1>13, <1>14
  DEF IntsetHoldsTheSet

(* Whatever was added, removed, cleared and reloaded (encoding/intset.rs), *)
(* and however often the cells were widened on the way, the blob holds     *)
(* exactly that set, and every query answers as the set does: no value is  *)
(* truncated by a missed upgrade, none is missed by the binary search. For *)
(* cells of any three widths and any integers that fit the widest.         *)
THEOREM IntsetExact == isSpec => []IntsetHoldsTheSet
<1>1. isInit => IntsetInv
  <2> SUFFICES ASSUME isInit PROVE IntsetInv
    OBVIOUS
  <2>1. isNew \in [encoding : Widths, len : {0}, body : {<<>>}]
    BY DEF isNew, Widths
  <2>2. Holds(isNew, {})
    BY <2>1, EmptyHolds
  <2>3. QED
    BY <2>2 DEF isInit, IntsetInv
<1>2. QED
  BY <1>1, IntsetKeeps, HoldsAnswers, PTL DEF isSpec

-----------------------------------------------------------------------------
(* The configuration.                                                      *)

(* The fields of a configuration, and those a directive with one argument  *)
(* sets.                                                                   *)
Fields == DOMAIN CfgDefault
Plain == Fields \ {"requirepass", "save", "bind"}
IsConf(c) == c = [f \in Fields |-> c[f]]

LEMMA FieldNames ==
  Fields = {"port", "timeout", "databases", "samples", "appendonly", "maxmemory", "policy",
            "requirepass", "bind", "save"}
BY DEF Fields, CfgDefault

LEMMA DefaultIsConf == IsConf(CfgDefault)
BY DEF IsConf, Fields, CfgDefault

(* r is c with x for the field g.                                          *)
Becomes(c, r, g, x) ==
  IsConf(r) /\ r[g] = x /\ \A f \in Fields \ {g} : r[f] = c[f]

LEMMA SetField ==
  ASSUME NEW c, IsConf(c), NEW g \in Fields, NEW x, NEW r, r = [c EXCEPT ![g] = x]
  PROVE  Becomes(c, r, g, x)
<1>1. DOMAIN c = Fields
  BY DEF IsConf
<1>2. QED
  BY <1>1 DEF IsConf, Becomes

(* Every directive with one argument sets one of the plain fields.         *)
LEMMA SinglesPlain ==
  ASSUME NEW name \in CfgSingles, NEW a
  PROVE  CfgValue(name, a)[1] \in Plain /\ CfgValue(name, a)[1] \in Fields
<1>1. CASE name = "port"
  BY <1>1, FieldNames DEF CfgValue, Plain
<1>2. CASE name = "timeout"
  BY <1>2, FieldNames DEF CfgValue, Plain
<1>3. CASE name = "databases"
  BY <1>3, FieldNames DEF CfgValue, Plain
<1>4. CASE name = "maxmemory-samples"
  BY <1>4, FieldNames DEF CfgValue, Plain
<1>5. CASE name = "appendonly"
  BY <1>5, FieldNames DEF CfgValue, Plain
<1>6. CASE name = "maxmemory"
  BY <1>6, FieldNames DEF CfgValue, Plain
<1>7. CASE name = "maxmemory-policy"
  BY <1>7, FieldNames DEF CfgValue, Plain
<1>8. QED
  BY <1>1, <1>2, <1>3, <1>4, <1>5, <1>6, <1>7 DEF CfgSingles

(* What one directive does to r, that was c.                               *)
Effect(c, r, name, args) ==
  /\ IsConf(r)
  /\ \A f \in Plain : r[f] = IF name \in CfgSingles /\ CfgValue(name, args[1])[1] = f
                             THEN CfgValue(name, args[1])[2] ELSE c[f]
  /\ name \in CfgSingles => CfgValue(name, args[1])[2] # Nil
  /\ r.requirepass = IF name = "requirepass" THEN IF args[1] = "" THEN Nil ELSE args[1]
                     ELSE c.requirepass
  /\ name # "save" => r.save = c.save
  /\ name = "save" => /\ args = <<"">> => r.save = <<>>
                      /\ args # <<"">> => Len(args) % 2 # 1

(* A directive that is not refused does that, whatever its kind.           *)
LEMMA ApplyEffect ==
  ASSUME NEW c, IsConf(c), NEW name, NEW args,
         NEW r, r = CfgApply(c, name, args), r # Nil
  PROVE  Effect(c, r, name, args)
<1>0. Plain \subseteq Fields /\ {"requirepass", "save", "bind"} \subseteq Fields
  BY FieldNames DEF Plain
<1>1. CASE name = "bind"
  <2>1. r = [c EXCEPT !["bind"] = args]
    BY <1>1 DEF CfgApply, CfgIgnored, CfgSingles
  <2>2. QED
    <3>1. Becomes(c, r, "bind", args)
      BY <1>0, <2>1, SetField
    <3>2. QED
      BY <1>0, <1>1, <3>1 DEF Becomes, Effect, Plain, CfgSingles
<1>2. CASE name = "save"
  <2>1. r = CfgSave(c, args)
    BY <1>2 DEF CfgApply, CfgIgnored, CfgSingles
  <2>2. PICK x : r = [c EXCEPT !["save"] = x] /\ (args = <<"">> => x = <<>>)
                 /\ (args # <<"">> => Len(args) % 2 # 1)
    <3>1. CASE args = <<"">>
      BY <2>1, <3>1 DEF CfgSave
    <3>2. CASE args # <<"">>
      <4> DEFINE pairs == [k \in 1 .. Len(args) \div 2 |-> <<CfgUint(args[2 * k - 1]), CfgUint(args[2 * k])>>]
      <4>1. Len(args) % 2 # 1 /\ r = [c EXCEPT !["save"] = c["save"] \o pairs]
        BY <2>1, <3>2 DEF CfgSave
      <4> HIDE DEF pairs
      <4>2. QED
        BY <4>1, <3>2
    <3>3. QED
      BY <3>1, <3>2
  <2>3. QED
    <3>1. Becomes(c, r, "save", x)
      BY <1>0, <2>2, SetField
    <3>2. QED
      BY <1>0, <1>2, <2>2, <3>1 DEF Becomes, Effect, Plain, CfgSingles
<1>3. CASE name \in CfgIgnored
  <2>1. r = c
    BY <1>3 DEF CfgApply, CfgIgnored, CfgSingles
  <2>2. name \notin CfgSingles /\ name # "requirepass" /\ name # "save"
    BY <1>3 DEF CfgIgnored, CfgSingles
  <2>3. QED
    BY <2>1, <2>2 DEF Effect
<1>4. CASE name = "requirepass"
  <2>1. r = [c EXCEPT !["requirepass"] = IF args[1] = "" THEN Nil ELSE args[1]]
    BY <1>4 DEF CfgApply, CfgIgnored, CfgSingles
  <2> DEFINE x == IF args[1] = "" THEN Nil ELSE args[1]
  <2>2. r = [c EXCEPT !["requirepass"] = x]
    BY <2>1
  <2> HIDE DEF x
  <2>3. Becomes(c, r, "requirepass", x)
    BY <1>0, <2>2, SetField
  <2>4. QED
    BY <1>0, <1>4, <2>3 DEF Becomes, Effect, Plain, CfgSingles, x
<1>5. CASE name \in CfgSingles
  <2> DEFINE v == CfgValue(name, args[1])
  <2>1. r = [c EXCEPT ![v[1]] = v[2]] /\ v[2] # Nil
    <3> HIDE DEF v
    <3>1. name # "bind" /\ name # "save" /\ name \notin CfgIgnored /\ name # "requirepass"
      BY <1>5 DEF CfgSingles, CfgIgnored
    <3>2. QED
      BY <1>5, <3>1 DEF CfgApply, v
  <2>2. v[1] \in Plain /\ v[1] \in Fields
    BY <1>5, SinglesPlain
  <2> HIDE DEF v
  <2> DEFINE g == v[1]
             x == v[2]
  <2>a. r = [c EXCEPT ![g] = x] /\ g \in Fields
    BY <2>1, <2>2
  <2>b. Becomes(c, r, g, x)
    <3> HIDE DEF g, x
    <3>1. QED
      BY <2>a, SetField
  <2>3. IsConf(r) /\ r[v[1]] = v[2] /\ \A f \in Fields \ {v[1]} : r[f] = c[f]
    BY <2>b DEF Becomes
  <2>4. name # "save" /\ name # "requirepass"
    BY <1>5 DEF CfgSingles
  <2>5. "requirepass" # v[1] /\ "save" # v[1]
    BY <2>2 DEF Plain
  <2>6. \A f \in Plain : r[f] = IF v[1] = f THEN v[2] ELSE c[f]
    BY <1>0, <2>3
  <2>7. QED
    BY <1>0, <1>5, <2>1, <2>3, <2>4, <2>5, <2>6 DEF Effect, v
<1>6. CASE /\ name \notin {"bind", "save", "requirepass"}
           /\ name \notin CfgSingles /\ name \notin CfgIgnored
  BY <1>6 DEF CfgApply, CfgIgnored, CfgSingles
<1>7. QED
  BY <1>1, <1>2, <1>3, <1>4, <1>5, <1>6

-----------------------------------------------------------------------------
(* The largest of the directives up to n + 1 is n + 1, if it is one.       *)
LEMMA LargestNew ==
  ASSUME NEW n \in Nat, NEW T, T \subseteq 1 .. n + 1, n + 1 \in T
  PROVE  Seqs!Max(T) = n + 1
<1>1. \A y \in T : y \in Nat /\ n + 1 >= y
  OBVIOUS
<1>2. \E x \in T : \A y \in T : x >= y
  BY <1>1
<1>3. Seqs!Max(T) \in T /\ \A y \in T : Seqs!Max(T) >= y
  BY <1>2 DEF Seqs!Max
<1> DEFINE x == Seqs!Max(T)
<1>4. x \in Nat /\ x >= n + 1 /\ n + 1 >= x
  BY <1>1, <1>3
<1> HIDE DEF x
<1>5. x = n + 1
  BY <1>4
<1>6. QED
  BY <1>5 DEF x

(* CfgWhole for the first n directives of a request.                       *)
Named(req, f, n) ==
  {k \in 1 .. n : req[k][1] \in CfgSingles /\ CfgValue(req[k][1], req[k][2])[1] = f}
Passes(req, n) == {k \in 1 .. n : req[k][1] = "requirepass"}
Saves(req, n) == {k \in 1 .. n : req[k] = <<"save", "">>}
LastValue(req, ks) == CfgValue(req[Seqs!Max(ks)][1], req[Seqs!Max(ks)][2])[2]
LastPass(req, ks) == IF req[Seqs!Max(ks)][2] = "" THEN Nil ELSE req[Seqs!Max(ks)][2]

UpTo(old, new, req, n) ==
  /\ \A f \in Plain : new[f] = IF Named(req, f, n) = {} THEN old[f]
                                ELSE LastValue(req, Named(req, f, n))
  /\ new.requirepass = IF Passes(req, n) = {} THEN old.requirepass
                       ELSE LastPass(req, Passes(req, n))
  /\ new.save = IF Saves(req, n) = {} THEN old.save ELSE <<>>

(* No directive: nothing has changed.                                      *)
LEMMA UpToNone ==
  ASSUME NEW c, NEW req
  PROVE  UpTo(c, c, req, 0)
<1>1. 1 .. 0 = {}
  OBVIOUS
<1>2. (\A f \in Plain : Named(req, f, 0) = {}) /\ Passes(req, 0) = {} /\ Saves(req, 0) = {}
  BY <1>1 DEF Named, Passes, Saves
<1>3. QED
  BY <1>2 DEF UpTo

(* All directives: the whole request.                                      *)
LEMMA UpToAll ==
  ASSUME NEW old, NEW new, NEW req, CfgPairs(req), UpTo(old, new, req, Len(req))
  PROVE  CfgWhole(old, new, req)
<1> DEFINE n == Len(req)
<1>1. DOMAIN req = 1 .. n
  BY DEF CfgPairs
<1>2. \A f : CfgNames(req, f) = Named(req, f, n)
  BY <1>1 DEF CfgNames, Named
<1>3. {k \in DOMAIN req : req[k][1] = "requirepass"} = Passes(req, n)
  BY <1>1 DEF Passes
<1>4. (\E k \in DOMAIN req : req[k] = <<"save", "">>) <=> Saves(req, n) # {}
  BY <1>1 DEF Saves
<1> HIDE DEF n
<1>5. UpTo(old, new, req, n)
  BY DEF n
<1>6. \A f \in DOMAIN CfgDefault \ {"requirepass", "save", "bind"} :
        LET ks == CfgNames(req, f)
        IN new[f] = IF ks = {} THEN old[f]
                    ELSE CfgValue(req[Seqs!Max(ks)][1], req[Seqs!Max(ks)][2])[2]
  BY <1>2, <1>5 DEF UpTo, LastValue, Plain, Fields
<1>7. new.requirepass =
       LET ks == {k \in DOMAIN req : req[k][1] = "requirepass"}
       IN IF ks = {} THEN old.requirepass
          ELSE IF req[Seqs!Max(ks)][2] = "" THEN Nil ELSE req[Seqs!Max(ks)][2]
  BY <1>3, <1>5 DEF UpTo, LastPass
<1>8. new.save = IF \E k \in DOMAIN req : req[k] = <<"save", "">> THEN <<>> ELSE old.save
  BY <1>4, <1>5 DEF UpTo
<1>9. QED
  BY <1>6, <1>7, <1>8 DEF CfgWhole

(* One more directive.                                                     *)
LEMMA UpToStep ==
  ASSUME NEW old, NEW new, IsConf(new), NEW req, CfgPairs(req), NEW n \in Nat, n < Len(req),
         UpTo(old, new, req, n), NEW r,
         r = CfgApply(new, req[n + 1][1], <<req[n + 1][2]>>), r # Nil
  PROVE  IsConf(r) /\ UpTo(old, r, req, n + 1)
<1> DEFINE m == n + 1
           name == req[m][1]
           a == req[m][2]
<1>1. Effect(new, r, name, <<a>>)
  BY ApplyEffect
<1>2. m \in DOMAIN req /\ m \in 1 .. m /\ req[m] = <<name, a>> /\ <<a>>[1] = a
  BY DEF CfgPairs
<1>3. IsConf(r)
  BY <1>1 DEF Effect
<1>4. ASSUME NEW f \in Plain
      PROVE  r[f] = IF Named(req, f, m) = {} THEN old[f] ELSE LastValue(req, Named(req, f, m))
  <2>0. r[f] = IF name \in CfgSingles /\ CfgValue(name, a)[1] = f THEN CfgValue(name, a)[2] ELSE new[f]
    BY <1>1, <1>2 DEF Effect
  <2>1. CASE name \in CfgSingles /\ CfgValue(name, a)[1] = f
    <3>1. m \in Named(req, f, m) /\ Named(req, f, m) \subseteq 1 .. n + 1
      BY <1>2, <2>1 DEF Named
    <3>2. Seqs!Max(Named(req, f, m)) = m
      BY <3>1, LargestNew
    <3>3. LastValue(req, Named(req, f, m)) = CfgValue(name, a)[2]
      BY <3>2 DEF LastValue
    <3>4. QED
      BY <2>0, <2>1, <3>1, <3>3
  <2>2. CASE ~(name \in CfgSingles /\ CfgValue(name, a)[1] = f)
    <3>1. Named(req, f, m) = Named(req, f, n)
      BY <2>2 DEF Named
    <3>2. new[f] = IF Named(req, f, n) = {} THEN old[f] ELSE LastValue(req, Named(req, f, n))
      BY DEF UpTo
    <3> HIDE DEF m, name, a
    <3>3. QED
      BY <2>0, <2>2, <3>1, <3>2
  <2>3. QED
    BY <2>1, <2>2
<1>5. r.requirepass = IF Passes(req, m) = {} THEN old.requirepass ELSE LastPass(req, Passes(req, m))
  <2>0. r.requirepass = IF name = "requirepass" THEN IF a = "" THEN Nil ELSE a ELSE new.requirepass
    BY <1>1, <1>2 DEF Effect
  <2>1. CASE name = "requirepass"
    <3>1. m \in Passes(req, m) /\ Passes(req, m) \subseteq 1 .. n + 1
      BY <1>2, <2>1 DEF Passes
    <3>2. Seqs!Max(Passes(req, m)) = m
      BY <3>1, LargestNew
    <3>3. LastPass(req, Passes(req, m)) = IF a = "" THEN Nil ELSE a
      BY <3>2 DEF LastPass
    <3>4. QED
      BY <2>0, <2>1, <3>1, <3>3
  <2>2. CASE name # "requirepass"
    <3>1. Passes(req, m) = Passes(req, n)
      BY <2>2 DEF Passes
    <3>2. new.requirepass = IF Passes(req, n) = {} THEN old.requirepass ELSE LastPass(req, Passes(req, n))
      BY DEF UpTo
    <3> HIDE DEF m, name, a
    <3>3. QED
      BY <2>0, <2>2, <3>1, <3>2
  <2>3. QED
    BY <2>1, <2>2
<1>6. r.save = IF Saves(req, m) = {} THEN old.save ELSE <<>>
  <2>0. new.save = IF Saves(req, n) = {} THEN old.save ELSE <<>>
    BY DEF UpTo
  <2>1. CASE name = "save"
    <3>1. <<a>> = <<"">>
      <4>1. <<a>> # <<"">> => Len(<<a>>) % 2 # 1
        BY <1>1, <2>1 DEF Effect
      <4>2. Len(<<a>>) = 1 /\ 1 % 2 = 1
        OBVIOUS
      <4>3. QED
        BY <4>1, <4>2
    <3>2. a = ""
      BY <3>1, <1>2
    <3>3. m \in Saves(req, m)
      BY <1>2, <2>1, <3>2 DEF Saves
    <3>4. r.save = <<>>
      BY <1>1, <2>1, <3>1 DEF Effect
    <3> HIDE DEF m, name, a
    <3>5. QED
      BY <3>3, <3>4
  <2>2. CASE name # "save"
    <3>1. req[m] # <<"save", "">>
      <4> HIDE DEF m, name, a
      <4>1. <<name, a>>[1] = name /\ <<"save", "">>[1] = "save"
        OBVIOUS
      <4>2. QED
        BY <1>2, <2>2, <4>1
    <3>2. Saves(req, m) = Saves(req, n)
      <4>1. ASSUME NEW k PROVE k \in 1 .. m /\ req[k] = <<"save", "">> <=> k \in 1 .. n /\ req[k] = <<"save", "">>
        <5>1. k \in 1 .. m <=> k \in 1 .. n \/ k = m
          OBVIOUS
        <5> HIDE DEF m
        <5>2. QED
          BY <3>1, <5>1
      <4> HIDE DEF m
      <4>2. QED
        BY <4>1 DEF Saves
    <3>3. r.save = new.save
      BY <1>1, <2>2 DEF Effect
    <3> HIDE DEF m, name, a
    <3>4. QED
      BY <2>0, <3>2, <3>3
  <2>3. QED
    BY <2>1, <2>2
<1>7. QED
  BY <1>3, <1>4, <1>5, <1>6 DEF UpTo

-----------------------------------------------------------------------------
(* What one line of a file or of a command line does.                      *)
LineEffect(cli, c, r, l) ==
  /\ IsConf(r)
  /\ l[1] # "save" => r.save = c.save
  /\ cli /\ l = <<"save", <<"">> >> => r.save = <<>>
  /\ l[1] # "port" => r.port = c.port
  /\ l[1] = "port" => r.port = CfgInts[l[2][1]]

LEMMA PortTaken ==
  ASSUME NEW a, CfgU16(a) # Nil
  PROVE  CfgU16(a) = CfgInts[a]
BY DEF CfgU16, CfgInt

LEMMA PortEffect ==
  ASSUME NEW c, NEW r, NEW name, NEW args, Effect(c, r, name, args)
  PROVE  IF name = "port" THEN r.port = CfgInts[args[1]] ELSE r.port = c.port
<1>1. "port" \in Plain /\ "port" \in CfgSingles
  BY FieldNames DEF Plain, CfgSingles
<1> DEFINE v == CfgValue(name, args[1])
<1>2. /\ r["port"] = IF name \in CfgSingles /\ v[1] = "port" THEN v[2] ELSE c["port"]
      /\ name \in CfgSingles => v[2] # Nil
  BY <1>1 DEF Effect
<1>3. CASE name = "port"
  <2>1. v = <<"port", CfgU16(args[1])>>
    BY <1>3 DEF CfgValue
  <2> HIDE DEF v
  <2>2. v[1] = "port" /\ v[2] = CfgU16(args[1])
    BY <2>1
  <2>3. CfgU16(args[1]) # Nil /\ r["port"] = CfgU16(args[1])
    BY <1>1, <1>2, <1>3, <2>2
  <2>4. QED
    BY <1>3, <2>3, PortTaken
<1>4. CASE name \in CfgSingles /\ name # "port"
  <2>1. v[1] # "port"
    BY <1>4 DEF CfgValue, CfgSingles
  <2>2. QED
    BY <1>2, <1>4, <2>1
<1>5. CASE name \notin CfgSingles
  BY <1>1, <1>2, <1>5
<1>6. QED
  BY <1>3, <1>4, <1>5

(* A line that is not refused does that.                                   *)
LEMMA LineDoes ==
  ASSUME NEW cli \in BOOLEAN, NEW c, IsConf(c), NEW l, NEW r, r = CfgLine(cli, c, l), r # Nil
  PROVE  LineEffect(cli, c, r, l)
<1> DEFINE d == [c EXCEPT !["save"] = <<>>]
<1>1. Becomes(c, d, "save", <<>>)
  <2>1. "save" \in Fields
    BY FieldNames
  <2> DEFINE x == <<>>
  <2> HIDE DEF x
  <2>2. ASSUME NEW q, q = [c EXCEPT !["save"] = x] PROVE Becomes(c, q, "save", x)
    BY <2>1, <2>2, SetField
  <2>3. QED
    BY <2>2 DEF x
<1>2. IsConf(d) /\ d["save"] = <<>> /\ d["port"] = c["port"]
  <2> HIDE DEF d
  <2>1. QED
    BY <1>1, FieldNames DEF Becomes
<1>3. ASSUME NEW e, IsConf(e), e.port = c.port, l[1] # "save" => e = c, cli => l # <<"save", <<"">> >>,
             r = CfgApply(e, l[1], l[2])
      PROVE  LineEffect(cli, c, r, l)
  <2>1. Effect(e, r, l[1], l[2])
    BY <1>3, ApplyEffect
  <2>2. IF l[1] = "port" THEN r.port = CfgInts[l[2][1]] ELSE r.port = e.port
    BY <2>1, PortEffect
  <2>3. QED
    BY <1>3, <2>1, <2>2 DEF LineEffect, Effect
<1>4. CASE ~cli
  <2>1. r = CfgApply(c, l[1], l[2])
    BY <1>4 DEF CfgLine
  <2>2. QED
    BY <1>3, <1>4, <2>1
<1>5. CASE cli /\ l[1] # "save"
  <2>1. l # <<"save", <<"">> >>
    <3>1. <<"save", <<"">> >>[1] = "save"
      OBVIOUS
    <3>2. QED
      BY <3>1, <1>5
  <2>2. r = CfgApply(c, l[1], l[2])
    BY <1>5, <2>1 DEF CfgLine, CfgOverride
  <2>3. QED
    BY <1>3, <1>5, <2>1, <2>2
<1>6. CASE cli /\ l = <<"save", <<"">> >>
  <2>1. l[1] = "save"
    BY <1>6
  <2>2. r = d
    BY <1>6, <2>1 DEF CfgLine, CfgOverride
  <2> HIDE DEF d
  <2>3. QED
    BY <1>2, <2>1, <2>2 DEF LineEffect
<1>7. CASE cli /\ l[1] = "save" /\ l # <<"save", <<"">> >>
  <2>1. r = CfgApply(d, l[1], l[2])
    BY <1>7 DEF CfgLine, CfgOverride
  <2> HIDE DEF d
  <2>2. QED
    BY <1>2, <1>3, <1>7, <2>1
<1>8. QED
  BY <1>4, <1>5, <1>6, <1>7

(* The configurations after each line.                                     *)
Stages(cli, c, lines, g, n) ==
  g = [k \in 0 .. n |-> IF k = 0 THEN c
                        ELSE IF g[k - 1] = Nil THEN Nil ELSE CfgLine(cli, g[k - 1], lines[k])]

(* They exist, by induction on the number of lines.                        *)
LEMMA StagesExist ==
  ASSUME NEW cli, NEW c, NEW lines, NEW m \in Nat
  PROVE  \E g : Stages(cli, c, lines, g, m)
<1> DEFINE T == {n \in Nat : \E g : Stages(cli, c, lines, g, n)}
<1>1. 0 \in T
  <2> DEFINE g == [k \in 0 .. 0 |-> c]
  <2>1. Stages(cli, c, lines, g, 0)
    BY DEF Stages
  <2> HIDE DEF g
  <2>2. QED
    BY <2>1
<1>2. ASSUME NEW n \in Nat, n \in T PROVE n + 1 \in T
  <2>1. PICK g : Stages(cli, c, lines, g, n)
    BY <1>2
  <2> DEFINE t(h, k) == IF h[k - 1] = Nil THEN Nil ELSE CfgLine(cli, h[k - 1], lines[k])
             h == [k \in 0 .. n + 1 |-> IF k = n + 1 THEN t(g, n + 1) ELSE g[k]]
  <2>2. g = [k \in 0 .. n |-> IF k = 0 THEN c ELSE t(g, k)]
    BY <2>1 DEF Stages
  <2>3. \A k \in 0 .. n : h[k] = g[k]
    OBVIOUS
  <2>4. h[n + 1] = t(g, n + 1)
    OBVIOUS
  <2>5. DOMAIN h = 0 .. n + 1 /\ h = [k \in 0 .. n + 1 |-> h[k]]
    OBVIOUS
  <2> HIDE DEF h
  <2>6. ASSUME NEW k \in 1 .. n + 1 PROVE t(g, k) = t(h, k)
    <3>1. k - 1 \in 0 .. n
      OBVIOUS
    <3>2. QED
      BY <2>3, <3>1
  <2> HIDE DEF t
  <2>7. ASSUME NEW k \in 0 .. n PROVE g[k] = IF k = 0 THEN c ELSE t(g, k)
    BY <2>2
  <2>8. ASSUME NEW k \in 0 .. n + 1 PROVE h[k] = IF k = 0 THEN c ELSE t(h, k)
    <3>1. CASE k = n + 1
      <4>1. k # 0 /\ k \in 1 .. n + 1
        BY <3>1
      <4>2. QED
        BY <2>4, <2>6, <3>1, <4>1
    <3>2. CASE k # n + 1
      <4>1. k \in 0 .. n /\ (k # 0 => k \in 1 .. n + 1)
        BY <3>2
      <4>2. QED
        BY <2>3, <2>6, <2>7, <4>1
    <3>3. QED
      BY <3>1, <3>2
  <2>9. h = [k \in 0 .. n + 1 |-> IF k = 0 THEN c ELSE t(h, k)]
    BY <2>5, <2>8
  <2>10. Stages(cli, c, lines, h, n + 1)
    BY <2>9 DEF Stages, t
  <2>11. QED
    BY <2>10
<1>3. \A n \in Nat : n \in T
  <2> HIDE DEF T
  <2>1. QED
    BY <1>1, <1>2, Induction
<1>4. QED
  BY <1>3

(* CfgLines returns the last of them.                                      *)
LEMMA LinesStages ==
  ASSUME NEW cli, NEW c, NEW lines, Len(lines) \in Nat
  PROVE  \E g : Stages(cli, c, lines, g, Len(lines)) /\ CfgLines(cli, c, lines) = g[Len(lines)]
<1> DEFINE Q(g) == Stages(cli, c, lines, g, Len(lines))
           g == CHOOSE h : Q(h)
<1>1. \E h : Q(h)
  BY StagesExist
<1>2. Q(g)
  <2> HIDE DEF Q
  <2>1. QED
    BY <1>1
<1>3. CfgLines(cli, c, lines) = g[Len(lines)]
  BY DEF CfgLines, Stages
<1> HIDE DEF g
<1>4. QED
  BY <1>2, <1>3

(* What the first n lines did, where c was before them and r is after.     *)
AfterLines(cli, c, r, lines, n) ==
  /\ IsConf(r)
  /\ (\A k \in 1 .. n : lines[k][1] # "save") => r.save = c.save
  /\ cli /\ (\E k \in 1 .. n : lines[k][1] = "save")
         /\ (\A k \in 1 .. n : lines[k][1] = "save" => lines[k] = <<"save", <<"">> >>)
     => r.save = <<>>
  /\ \A a :
       (\E k \in 1 .. n : lines[k][1] = "port")
         /\ (\A k \in 1 .. n : lines[k][1] = "port" => lines[k][2][1] = a)
       => r.port = CfgInts[a]

LEMMA AfterNone ==
  ASSUME NEW cli, NEW c, IsConf(c), NEW lines
  PROVE  AfterLines(cli, c, c, lines, 0)
<1>1. \A k \in 1 .. 0 : FALSE
  OBVIOUS
<1>2. QED
  BY <1>1, Zenon DEF AfterLines

LEMMA AfterOneMore ==
  ASSUME NEW cli \in BOOLEAN, NEW c, NEW p, NEW r, NEW lines, NEW n \in Nat,
         AfterLines(cli, c, p, lines, n), LineEffect(cli, p, r, lines[n + 1])
  PROVE  AfterLines(cli, c, r, lines, n + 1)
<1> DEFINE m == n + 1
           l == lines[m]
<1>0. \A k : k \in 1 .. m <=> k \in 1 .. n \/ k = m
  OBVIOUS
<1>00. LineEffect(cli, p, r, l)
  OBVIOUS
<1> HIDE DEF m
<1>1. IsConf(r)
  BY <1>00 DEF LineEffect
<1>2. ASSUME \A k \in 1 .. m : lines[k][1] # "save" PROVE r.save = c.save
  BY <1>0, <1>00, <1>2 DEF LineEffect, AfterLines
<1>3. ASSUME cli, \E k \in 1 .. m : lines[k][1] = "save",
             \A k \in 1 .. m : lines[k][1] = "save" => lines[k] = <<"save", <<"">> >>
      PROVE  r.save = <<>>
  <2>1. CASE l[1] = "save"
    <3>1. l = <<"save", <<"">> >>
      BY <1>0, <1>3, <2>1
    <3>2. QED
      BY <1>00, <1>3, <3>1 DEF LineEffect
  <2>2. CASE l[1] # "save"
    <3>1. \E k \in 1 .. n : lines[k][1] = "save"
      BY <1>0, <1>3, <2>2
    <3>2. \A k \in 1 .. n : lines[k][1] = "save" => lines[k] = <<"save", <<"">> >>
      BY <1>0, <1>3
    <3>3. p.save = <<>>
      BY <1>3, <3>1, <3>2 DEF AfterLines
    <3>4. r.save = p.save
      BY <1>00, <2>2 DEF LineEffect
    <3>5. QED
      BY <3>3, <3>4
  <2>3. QED
    BY <2>1, <2>2
<1>4. ASSUME NEW a, \E k \in 1 .. m : lines[k][1] = "port",
             \A k \in 1 .. m : lines[k][1] = "port" => lines[k][2][1] = a
      PROVE  r.port = CfgInts[a]
  <2>1. CASE l[1] = "port"
    <3>1. l[2][1] = a
      BY <1>0, <1>4, <2>1
    <3>2. QED
      BY <1>00, <2>1, <3>1 DEF LineEffect
  <2>2. CASE l[1] # "port"
    <3>1. \E k \in 1 .. n : lines[k][1] = "port"
      BY <1>0, <1>4, <2>2
    <3>2. \A k \in 1 .. n : lines[k][1] = "port" => lines[k][2][1] = a
      BY <1>0, <1>4
    <3>3. p.port = CfgInts[a]
      BY <3>1, <3>2 DEF AfterLines
    <3>4. r.port = p.port
      BY <1>00, <2>2 DEF LineEffect
    <3>5. QED
      BY <3>3, <3>4
  <2>3. QED
    BY <2>1, <2>2
<1>5. AfterLines(cli, c, r, lines, m)
  BY <1>1, <1>2, <1>3, <1>4, Zenon DEF AfterLines
<1>6. QED
  BY <1>5 DEF m

(* All lines, by induction on their number.                                *)
LEMMA LinesDo ==
  ASSUME NEW cli \in BOOLEAN, NEW c, IsConf(c), NEW lines, CfgPairs(lines),
         NEW r, r = CfgLines(cli, c, lines), r # Nil
  PROVE  AfterLines(cli, c, r, lines, Len(lines))
<1> DEFINE L == Len(lines)
<1>0. L \in Nat
  BY DEF CfgPairs
<1>1. PICK g : Stages(cli, c, lines, g, L) /\ r = g[L]
  BY <1>0, LinesStages
<1> HIDE DEF L
<1>2. g[0] = c
  BY <1>0, <1>1 DEF Stages
<1>3. ASSUME NEW n \in Nat, n + 1 <= L
      PROVE  g[n + 1] = IF g[n] = Nil THEN Nil ELSE CfgLine(cli, g[n], lines[n + 1])
  <2> DEFINE t(k) == IF g[k - 1] = Nil THEN Nil ELSE CfgLine(cli, g[k - 1], lines[k])
  <2>1. g = [k \in 0 .. L |-> IF k = 0 THEN c ELSE t(k)]
    BY <1>1 DEF Stages
  <2>2. n + 1 \in 0 .. L /\ n + 1 # 0 /\ (n + 1) - 1 = n
    BY <1>0, <1>3
  <2> HIDE DEF t
  <2>3. g[n + 1] = t(n + 1)
    BY <2>1, <2>2
  <2>4. QED
    BY <2>2, <2>3 DEF t
<1> DEFINE T == {n \in Nat : n <= L => g[n] = Nil \/ AfterLines(cli, c, g[n], lines, n)}
<1>4. 0 \in T
  BY <1>2, AfterNone
<1>5. ASSUME NEW n \in Nat, n \in T PROVE n + 1 \in T
  <2>1. SUFFICES ASSUME n + 1 <= L, g[n + 1] # Nil PROVE AfterLines(cli, c, g[n + 1], lines, n + 1)
    OBVIOUS
  <2>2. g[n] # Nil /\ g[n + 1] = CfgLine(cli, g[n], lines[n + 1])
    BY <1>3, <2>1
  <2>3. AfterLines(cli, c, g[n], lines, n)
    BY <1>0, <1>5, <2>1, <2>2
  <2>4. IsConf(g[n])
    BY <2>3 DEF AfterLines
  <2>5. LineEffect(cli, g[n], g[n + 1], lines[n + 1])
    BY <2>1, <2>2, <2>4, LineDoes
  <2>6. QED
    BY <2>3, <2>5, AfterOneMore
<1>6. L \in T
  <2> HIDE DEF T
  <2>1. QED
    BY <1>0, <1>4, <1>5, Induction
<1>7. AfterLines(cli, c, r, lines, L)
  BY <1>0, <1>1, <1>6
<1>8. QED
  BY <1>7 DEF L

(* The part of the property about startup.                                 *)
Booted(c) ==
  LET points(lines) == {l[2] : l \in {x \in Seqs!Range(lines) : x[1] = "save"}}
  IN /\ points(boot.args) = {<<"">>} => c.save = <<>>
     /\ points(boot.args) = {} /\ points(boot.file) = {} => c.save = CfgDefault.save
     /\ \A l \in Seqs!Range(boot.args) : l[1] = "port" =>
          (c.port = CfgInts[l[2][1]] \/ \E x \in Seqs!Range(boot.args) : x # l /\ x[1] = "port")

(* A server that starts has a valid configuration, made as promised.       *)
LEMMA StartRight ==
  ASSUME boot \in [file : CfgFiles, args : CfgOverrides], NEW c,
         c = into_config(boot.file, boot.args), c # Nil
  PROVE  IsConf(c) /\ CfgValidate(c) /\ Booted(c)
<1> DEFINE file == boot.file
           args == boot.args
           d == load_str(CfgDefault, file)
<1>1. CfgPairs(file) /\ CfgPairs(args)
  BY CfgConstants
<1>2. d # Nil /\ c = apply_overrides(d, args) /\ CfgValidate(c)
  BY DEF into_config
<1>3. AfterLines(FALSE, CfgDefault, d, file, Len(file))
  <2>1. d = CfgLines(FALSE, CfgDefault, file)
    BY DEF load_str
  <2> HIDE DEF d, file
  <2>2. QED
    BY <1>1, <1>2, <2>1, DefaultIsConf, LinesDo
<1>4. IsConf(d)
  <2> HIDE DEF d, file
  <2>1. QED
    BY <1>3 DEF AfterLines
<1>5. AfterLines(TRUE, d, c, args, Len(args))
  <2>1. c = CfgLines(TRUE, d, args)
    BY <1>2 DEF apply_overrides
  <2> HIDE DEF d, args
  <2>2. QED
    BY <1>1, <1>2, <1>4, <2>1, LinesDo
<1> HIDE DEF d
<1> DEFINE points(lines) == {l[2] : l \in {x \in Seqs!Range(lines) : x[1] = "save"}}
<1>6. /\ Seqs!Range(file) = {file[k] : k \in 1 .. Len(file)}
      /\ Seqs!Range(args) = {args[k] : k \in 1 .. Len(args)}
  BY <1>1 DEF CfgPairs, Seqs!Range
<1> HIDE DEF file, args
<1>7. ASSUME points(args) = {<<"">>} PROVE c.save = <<>>
  <2>1. \E k \in 1 .. Len(args) : args[k][1] = "save"
    <3>1. <<"">> \in points(args)
      BY <1>7
    <3>2. PICK l \in Seqs!Range(args) : l[1] = "save"
      BY <3>1
    <3>3. QED
      BY <1>6, <3>2
  <2>2. ASSUME NEW k \in 1 .. Len(args), args[k][1] = "save" PROVE args[k] = <<"save", <<"">> >>
    <3>1. args[k][2] \in points(args)
      BY <1>6, <2>2
    <3>2. args[k][2] = <<"">>
      BY <1>7, <3>1
    <3>3. args[k] = <<args[k][1], args[k][2]>>
      BY <1>1 DEF CfgPairs
    <3>4. QED
      BY <2>2, <3>2, <3>3
  <2>3. QED
    BY <1>5, <2>1, <2>2 DEF AfterLines
<1>8. ASSUME points(args) = {}, points(file) = {} PROVE c.save = CfgDefault.save
  <2>1. \A k \in 1 .. Len(args) : args[k][1] # "save"
    <3>1. \A k \in 1 .. Len(args) : args[k][1] = "save" => args[k][2] \in points(args)
      BY <1>6
    <3>2. QED
      BY <1>8, <3>1
  <2>2. \A k \in 1 .. Len(file) : file[k][1] # "save"
    <3>1. \A k \in 1 .. Len(file) : file[k][1] = "save" => file[k][2] \in points(file)
      BY <1>6
    <3>2. QED
      BY <1>8, <3>1
  <2>3. c.save = d.save /\ d.save = CfgDefault.save
    BY <1>3, <1>5, <2>1, <2>2 DEF AfterLines
  <2>4. QED
    BY <2>3
<1>9. ASSUME NEW l \in Seqs!Range(args), l[1] = "port",
             ~ \E x \in Seqs!Range(args) : x # l /\ x[1] = "port"
      PROVE  c.port = CfgInts[l[2][1]]
  <2> DEFINE a == l[2][1]
  <2>1. \E k \in 1 .. Len(args) : args[k][1] = "port"
    BY <1>6, <1>9
  <2>2. \A k \in 1 .. Len(args) : args[k][1] = "port" => args[k][2][1] = a
    BY <1>6, <1>9
  <2> HIDE DEF a
  <2>3. c.port = CfgInts[a]
    BY <1>5, <2>1, <2>2 DEF AfterLines
  <2>4. QED
    BY <2>3 DEF a
<1>10. IsConf(c)
  BY <1>5 DEF AfterLines
<1>11. Booted(c)
  BY <1>7, <1>8, <1>9 DEF Booted, file, args
<1>12. QED
  BY <1>2, <1>10, <1>11

-----------------------------------------------------------------------------
(* The stores so far: each is valid and the whole outcome of a request on  *)
(* an earlier one.                                                         *)
History(st) ==
  /\ \E S : st \in Seq(S)
  /\ Len(st) >= 1
  /\ \A i \in 1 .. Len(st) : IsConf(st[i]) /\ CfgValidate(st[i])
  /\ \A i \in 2 .. Len(st) : \E j \in 1 .. i - 1 : \E req \in CfgRequests : CfgWhole(st[j], st[i], req)

(* The clone nx of a writer is some store with the first directives of its *)
(* request applied.                                                        *)
Under(st, req, nx, at) ==
  /\ req \in CfgRequests /\ at \in Nat /\ at <= Len(req)
  /\ IsConf(nx)
  /\ \E j \in 1 .. Len(st) : UpTo(st[j], nx, req, at)

(* What a reader holds: nothing yet, or a store.                           *)
Seen(st, x) == x = Nil \/ \E i \in 1 .. Len(st) : x = st[i]

(* A store appends; the earlier ones keep their places.                    *)
LEMMA OneMoreStore ==
  ASSUME NEW st, History(st), NEW x
  PROVE  /\ \E S : Append(st, x) \in Seq(S)
         /\ Len(st) \in Nat /\ Len(Append(st, x)) = Len(st) + 1
         /\ Append(st, x)[Len(st) + 1] = x
         /\ \A i \in 1 .. Len(st) : Append(st, x)[i] = st[i]
<1>1. PICK S : st \in Seq(S)
  BY DEF History
<1> DEFINE A == S \cup {x}
<1>2. st \in Seq(A)
  <2>1. st \in [1 .. Len(st) -> S] /\ Len(st) \in Nat
    BY <1>1
  <2>2. st \in [1 .. Len(st) -> A]
    BY <2>1
  <2> HIDE DEF A
  <2>3. QED
    BY <2>1, <2>2
<1>3. x \in A
  OBVIOUS
<1> HIDE DEF A
<1>4. QED
  BY <1>2, <1>3

(* A writer that is through with its request stores its whole outcome.     *)
LEMMA StoreKeepsHistory ==
  ASSUME NEW st, History(st), NEW req, NEW x, NEW at, Under(st, req, x, at), at = Len(req),
         CfgValidate(x)
  PROVE  History(Append(st, x))
<1> DEFINE t == Append(st, x)
           n == Len(st)
<1>1. /\ \E S : t \in Seq(S)
      /\ n \in Nat /\ Len(t) = n + 1 /\ t[n + 1] = x /\ \A i \in 1 .. n : t[i] = st[i]
  BY OneMoreStore
<1>2. n >= 1 /\ IsConf(x)
  BY DEF History, Under
<1>3. PICK j \in 1 .. n : CfgWhole(st[j], x, req)
  <2>1. PICK j \in 1 .. n : UpTo(st[j], x, req, at)
    BY DEF Under
  <2>2. CfgPairs(req)
    BY CfgConstants DEF Under
  <2>3. CfgWhole(st[j], x, req)
    BY <2>1, <2>2, UpToAll
  <2>4. QED
    BY <2>3
<1>4. req \in CfgRequests
  BY DEF Under
<1> HIDE DEF t
<1>5. ASSUME NEW i \in 1 .. Len(t) PROVE IsConf(t[i]) /\ CfgValidate(t[i])
  <2>1. CASE i \in 1 .. n
    BY <1>1, <2>1 DEF History
  <2>2. CASE i = n + 1
    BY <1>1, <1>2, <2>2
  <2>3. QED
    BY <1>1, <2>1, <2>2
<1>6. ASSUME NEW i \in 2 .. Len(t)
      PROVE  \E k \in 1 .. i - 1 : \E q \in CfgRequests : CfgWhole(t[k], t[i], q)
  <2>1. CASE i \in 2 .. n
    <3>1. PICK k \in 1 .. i - 1, q \in CfgRequests : CfgWhole(st[k], st[i], q)
      BY <2>1 DEF History
    <3>2. t[k] = st[k] /\ t[i] = st[i]
      BY <1>1, <2>1
    <3>3. QED
      BY <3>1, <3>2
  <2>2. CASE i = n + 1
    <3>1. t[j] = st[j] /\ t[i] = x /\ j \in 1 .. i - 1
      BY <1>1, <2>2
    <3>2. QED
      BY <1>3, <1>4, <3>1
  <2>3. QED
    BY <1>1, <2>1, <2>2
<1>7. Len(t) >= 1 /\ \E S : t \in Seq(S)
  BY <1>1, <1>2
<1>8. History(t)
  <2>1. \A i \in 2 .. Len(t) : \E k \in 1 .. i - 1 : \E q \in CfgRequests : CfgWhole(t[k], t[i], q)
    BY <1>6
  <2>2. \A i \in 1 .. Len(t) : IsConf(t[i]) /\ CfgValidate(t[i])
    BY <1>5
  <2> HIDE DEF n
  <2>3. QED
    BY <1>7, <2>1, <2>2, Zenon DEF History
<1>9. QED
  BY <1>8 DEF t

(* Another writer's clone is still of an earlier store.                    *)
LEMMA StoreKeepsUnder ==
  ASSUME NEW st, History(st), NEW x, NEW req, NEW nx, NEW at, Under(st, req, nx, at)
  PROVE  Under(Append(st, x), req, nx, at)
<1> DEFINE t == Append(st, x)
<1>1. Len(st) \in Nat /\ Len(t) = Len(st) + 1 /\ \A i \in 1 .. Len(st) : t[i] = st[i]
  BY OneMoreStore
<1> HIDE DEF t
<1>2. PICK j \in 1 .. Len(st) : UpTo(st[j], nx, req, at)
  BY DEF Under
<1>3. j \in 1 .. Len(t) /\ t[j] = st[j]
  BY <1>1
<1>4. UpTo(t[j], nx, req, at)
  BY <1>2, <1>3
<1>5. QED
  BY <1>3, <1>4 DEF Under, t

LEMMA StoreKeepsSeen ==
  ASSUME NEW st, History(st), NEW x, NEW y, Seen(st, y)
  PROVE  Seen(Append(st, x), y)
<1> DEFINE t == Append(st, x)
<1>1. Len(st) \in Nat /\ Len(t) = Len(st) + 1 /\ \A i \in 1 .. Len(st) : t[i] = st[i]
  BY OneMoreStore
<1> HIDE DEF t
<1>2. \A i \in 1 .. Len(st) : i \in 1 .. Len(t)
  BY <1>1
<1>3. QED
  BY <1>1, <1>2 DEF Seen, t

(* The invariant.  A server that refused to start does nothing.            *)
Refused == conf = Nil /\ \A w \in CfgWriters : cfgPc[w] = "idle"
Running ==
  /\ History(stored) /\ conf = stored[Len(stored)] /\ Booted(stored[1])
  /\ \A w \in CfgWriters : Seen(stored, cfgGot[w])
  /\ \A w \in CfgWriters : cfgPc[w] = "updating" => Under(stored, cfgReq[w], cfgNext[w], cfgAt[w])
CfgShape ==
  /\ DOMAIN cfgPc = CfgWriters /\ DOMAIN cfgReq = CfgWriters /\ DOMAIN cfgNext = CfgWriters
  /\ DOMAIN cfgAt = CfgWriters /\ DOMAIN cfgGot = CfgWriters
CfgInv == CfgShape /\ (Refused \/ Running)

LEMMA CfgStarts == cfgInit => CfgInv
<1> SUFFICES ASSUME cfgInit PROVE CfgInv
  OBVIOUS
<1>1. CfgShape
  BY DEF cfgInit, CfgShape
<1>2. \A w \in CfgWriters : cfgPc[w] = "idle" /\ cfgGot[w] = Nil
  BY DEF cfgInit
<1>3. CASE conf = Nil
  BY <1>1, <1>2, <1>3 DEF CfgInv, Refused
<1>4. CASE conf # Nil
  <2>1. IsConf(conf) /\ CfgValidate(conf) /\ Booted(conf)
    BY <1>4, StartRight DEF cfgInit
  <2>2. stored = <<conf>> /\ Len(stored) = 1 /\ stored[1] = conf /\ stored \in Seq({conf})
    BY DEF cfgInit
  <2>3. History(stored)
    <3>1. \E S : stored \in Seq(S)
      BY <2>2
    <3>2. QED
      BY <2>1, <2>2, <3>1 DEF History
  <2>4. Running
    BY <1>2, <2>1, <2>2, <2>3 DEF Running, Seen
  <2>5. QED
    BY <1>1, <2>4 DEF CfgInv
<1>5. QED
  BY <1>3, <1>4

(* Forgetting a request leaves its writer idle and the others as they are. *)
LEMMA Forgets ==
  ASSUME CfgShape, NEW w \in CfgWriters, CfgForget(w), UNCHANGED cfgGot
  PROVE  /\ CfgShape'
         /\ cfgPc'[w] = "idle"
         /\ \A v \in CfgWriters \ {w} :
              cfgPc'[v] = cfgPc[v] /\ cfgReq'[v] = cfgReq[v] /\ cfgNext'[v] = cfgNext[v] /\ cfgAt'[v] = cfgAt[v]
BY DEF CfgForget, CfgShape

(* Every step keeps the invariant.                                         *)
LEMMA CfgKeeps == CfgInv /\ [cfgNextStep]_cfgVars => CfgInv'
<1> SUFFICES ASSUME CfgInv, [cfgNextStep]_cfgVars PROVE CfgInv'
  OBVIOUS
<1>1. CfgShape
  BY DEF CfgInv
<1>2. ASSUME NEW w \in CfgWriters, NEW req \in CfgRequests, ConfigSet(w, req) PROVE CfgInv'
  <2>1. Running
    BY <1>2 DEF CfgInv, Refused, ConfigSet
  <2>2. CfgShape'
    BY <1>1, <1>2 DEF ConfigSet, CfgShape
  <2>3. /\ \A v \in CfgWriters \ {w} : cfgPc'[v] = cfgPc[v] /\ cfgReq'[v] = cfgReq[v]
                                       /\ cfgNext'[v] = cfgNext[v] /\ cfgAt'[v] = cfgAt[v]
        /\ cfgReq'[w] = req /\ cfgNext'[w] = conf /\ cfgAt'[w] = 0
        /\ conf' = conf /\ boot' = boot /\ cfgGot' = cfgGot /\ stored' = stored
    BY <1>1, <1>2 DEF ConfigSet, CfgShape
  <2>4. Under(stored, req, conf, 0)
    <3>1. Len(stored) \in 1 .. Len(stored) /\ conf = stored[Len(stored)] /\ IsConf(conf)
      <4>1. Len(stored) \in Nat /\ Len(stored) >= 1
        BY <2>1, OneMoreStore DEF Running, History
      <4>2. QED
        BY <2>1, <4>1 DEF Running, History
    <3>2. UpTo(conf, conf, req, 0)
      BY UpToNone
    <3>3. Len(req) \in Nat
      BY CfgConstants DEF CfgPairs
    <3>4. QED
      BY <3>1, <3>2, <3>3 DEF Under
  <2>5. Running'
    <3>1. \A v \in CfgWriters : cfgPc'[v] = "updating" => Under(stored, cfgReq'[v], cfgNext'[v], cfgAt'[v])
      BY <2>1, <2>3, <2>4 DEF Running
    <3>2. QED
      BY <2>1, <2>3, <3>1 DEF Running, Booted
  <2>6. QED
    BY <2>2, <2>5 DEF CfgInv
<1>3. ASSUME NEW w \in CfgWriters, ConfigApply(w) PROVE CfgInv'
  <2> DEFINE d == cfgReq[w][cfgAt[w] + 1]
             next == CfgApply(cfgNext[w], d[1], <<d[2]>>)
  <2>1. Running
    BY <1>3 DEF CfgInv, Refused, ConfigApply
  <2>2. /\ cfgPc[w] = "updating" /\ cfgAt[w] < Len(cfgReq[w])
        /\ conf' = conf /\ boot' = boot /\ cfgGot' = cfgGot /\ stored' = stored
    BY <1>3 DEF ConfigApply
  <2>3. Under(stored, cfgReq[w], cfgNext[w], cfgAt[w])
    BY <2>1, <2>2 DEF Running
  <2>4. CASE next = Nil
    <3>1. CfgForget(w)
      BY <1>3, <2>4 DEF ConfigApply
    <3>2. CfgShape' /\ cfgPc'[w] = "idle"
          /\ \A v \in CfgWriters \ {w} :
               cfgPc'[v] = cfgPc[v] /\ cfgReq'[v] = cfgReq[v] /\ cfgNext'[v] = cfgNext[v] /\ cfgAt'[v] = cfgAt[v]
      BY <1>1, <2>2, <3>1, Forgets
    <3>3. \A v \in CfgWriters : cfgPc'[v] = "updating" => Under(stored, cfgReq'[v], cfgNext'[v], cfgAt'[v])
      BY <2>1, <3>2 DEF Running
    <3>4. Running'
      BY <2>1, <2>2, <3>3 DEF Running, Booted
    <3>5. QED
      BY <3>2, <3>4 DEF CfgInv
  <2>5. CASE next # Nil
    <3>1. /\ cfgNext' = [cfgNext EXCEPT ![w] = next]
          /\ cfgAt' = [cfgAt EXCEPT ![w] = @ + 1]
          /\ cfgPc' = cfgPc /\ cfgReq' = cfgReq
      BY <1>3, <2>5 DEF ConfigApply
    <3>2. IsConf(next) /\ \E j \in 1 .. Len(stored) : UpTo(stored[j], next, cfgReq[w], cfgAt[w] + 1)
      <4>1. PICK j \in 1 .. Len(stored) : UpTo(stored[j], cfgNext[w], cfgReq[w], cfgAt[w])
        BY <2>3 DEF Under
      <4>2. CfgPairs(cfgReq[w]) /\ IsConf(cfgNext[w]) /\ cfgAt[w] \in Nat
        BY <2>3, CfgConstants DEF Under
      <4> DEFINE r == next
      <4>3. r = CfgApply(cfgNext[w], cfgReq[w][cfgAt[w] + 1][1], <<cfgReq[w][cfgAt[w] + 1][2]>>)
        OBVIOUS
      <4>4. r # Nil
        BY <2>5
      <4> HIDE DEF r
      <4>5. IsConf(r) /\ UpTo(stored[j], r, cfgReq[w], cfgAt[w] + 1)
        BY <2>2, <4>1, <4>2, <4>3, <4>4, UpToStep
      <4>6. QED
        BY <4>5 DEF r
    <3> HIDE DEF next
    <3>3. CfgShape'
      BY <1>1, <2>2, <3>1 DEF CfgShape
    <3>4. cfgNext'[w] = next /\ cfgAt'[w] = cfgAt[w] + 1
          /\ \A v \in CfgWriters \ {w} : cfgNext'[v] = cfgNext[v] /\ cfgAt'[v] = cfgAt[v]
      BY <1>1, <3>1 DEF CfgShape
    <3>5. Under(stored, cfgReq[w], next, cfgAt[w] + 1)
      <4>1. cfgReq[w] \in CfgRequests /\ cfgAt[w] \in Nat /\ Len(cfgReq[w]) \in Nat
        BY <2>3, CfgConstants DEF Under, CfgPairs
      <4>2. cfgAt[w] + 1 \in Nat /\ cfgAt[w] + 1 <= Len(cfgReq[w])
        BY <2>2, <4>1
      <4>3. QED
        BY <3>2, <4>1, <4>2 DEF Under
    <3>6. \A v \in CfgWriters : cfgPc'[v] = "updating" => Under(stored, cfgReq'[v], cfgNext'[v], cfgAt'[v])
      BY <2>1, <3>1, <3>4, <3>5 DEF Running
    <3>7. Running'
      BY <2>1, <2>2, <3>6 DEF Running, Booted
    <3>8. QED
      BY <3>3, <3>7 DEF CfgInv
  <2>6. QED
    BY <2>4, <2>5
<1>4. ASSUME NEW w \in CfgWriters, ConfigStore(w) PROVE CfgInv'
  <2>1. Running
    BY <1>4 DEF CfgInv, Refused, ConfigStore
  <2>2. /\ cfgPc[w] = "updating" /\ cfgAt[w] = Len(cfgReq[w])
        /\ CfgForget(w) /\ boot' = boot /\ cfgGot' = cfgGot
    BY <1>4 DEF ConfigStore
  <2>3. Under(stored, cfgReq[w], cfgNext[w], cfgAt[w])
    BY <2>1, <2>2 DEF Running
  <2>4. CfgShape' /\ cfgPc'[w] = "idle"
        /\ \A v \in CfgWriters \ {w} :
             cfgPc'[v] = cfgPc[v] /\ cfgReq'[v] = cfgReq[v] /\ cfgNext'[v] = cfgNext[v] /\ cfgAt'[v] = cfgAt[v]
    BY <1>1, <2>2, Forgets
  <2>5. \A v \in CfgWriters : cfgPc'[v] = "updating" => Under(stored, cfgReq'[v], cfgNext'[v], cfgAt'[v])
    BY <2>1, <2>4 DEF Running
  <2>6. CASE ~CfgValidate(cfgNext[w])
    <3>1. conf' = conf /\ stored' = stored
      BY <1>4, <2>6 DEF ConfigStore
    <3>2. Running'
      BY <2>1, <2>2, <2>5, <3>1 DEF Running, Booted
    <3>3. QED
      BY <2>4, <3>2 DEF CfgInv
  <2>7. CASE CfgValidate(cfgNext[w])
    <3> DEFINE x == cfgNext[w]
    <3>1. conf' = x /\ stored' = Append(stored, x)
      BY <1>4, <2>7 DEF ConfigStore
    <3>2. History(stored)
      BY <2>1 DEF Running
    <3>3. History(stored')
      BY <2>2, <2>3, <2>7, <3>1, <3>2, StoreKeepsHistory
    <3>4. stored'[Len(stored')] = conf' /\ stored'[1] = stored[1]
      <4>1. Len(stored) \in Nat /\ Len(stored) >= 1 /\ Len(stored') = Len(stored) + 1
            /\ stored'[Len(stored) + 1] = x /\ \A i \in 1 .. Len(stored) : stored'[i] = stored[i]
        BY <3>1, <3>2, OneMoreStore DEF History
      <4>2. QED
        BY <3>1, <4>1
    <3>5. \A v \in CfgWriters : Seen(stored', cfgGot'[v])
      BY <2>1, <2>2, <3>1, <3>2, StoreKeepsSeen DEF Running
    <3>6. \A v \in CfgWriters : cfgPc'[v] = "updating" => Under(stored', cfgReq'[v], cfgNext'[v], cfgAt'[v])
      BY <2>5, <3>1, <3>2, StoreKeepsUnder
    <3>7. Booted(stored[1])'
      <4>1. Booted(stored[1])
        BY <2>1 DEF Running
      <4>2. QED
        BY <2>2, <3>4, <4>1 DEF Booted
    <3>8. Running'
      BY <3>3, <3>4, <3>5, <3>6, <3>7 DEF Running
    <3>9. QED
      BY <2>4, <3>8 DEF CfgInv
  <2>8. QED
    BY <2>6, <2>7
<1>5. ASSUME NEW w \in CfgWriters, ConfigGet(w) PROVE CfgInv'
  <2>1. Running
    BY <1>5 DEF CfgInv, Refused, ConfigGet
  <2>2. CfgShape' /\ cfgGot'[w] = conf /\ \A v \in CfgWriters \ {w} : cfgGot'[v] = cfgGot[v]
    BY <1>1, <1>5 DEF ConfigGet, CfgShape
  <2>3. /\ conf' = conf /\ boot' = boot /\ stored' = stored /\ cfgPc' = cfgPc /\ cfgReq' = cfgReq
        /\ cfgNext' = cfgNext /\ cfgAt' = cfgAt
    BY <1>5 DEF ConfigGet
  <2>4. Seen(stored, conf)
    <3>1. Len(stored) \in Nat /\ Len(stored) >= 1
      BY <2>1, OneMoreStore DEF Running, History
    <3>2. QED
      BY <2>1, <3>1 DEF Running, Seen
  <2>5. \A v \in CfgWriters : Seen(stored, cfgGot'[v])
    BY <2>1, <2>2, <2>4 DEF Running
  <2>6. Running'
    BY <2>1, <2>3, <2>5 DEF Running, Booted
  <2>7. QED
    BY <2>2, <2>6 DEF CfgInv
<1>6. CASE UNCHANGED cfgVars
  BY <1>6 DEF cfgVars, CfgInv, CfgShape, Refused, Running, Booted
<1>7. QED
  BY <1>2, <1>3, <1>4, <1>5, <1>6 DEF cfgNextStep

(* The invariant implies the property.                                     *)
LEMMA CfgAnswers == CfgInv => ReadersSeeWholeChanges
<1> SUFFICES ASSUME CfgInv, conf # Nil PROVE ReadersSeeWholeChanges
  BY DEF ReadersSeeWholeChanges
<1>1. Running
  BY DEF CfgInv, Refused
<1>2. History(stored)
  BY <1>1 DEF Running
<1>3. Len(stored) \in Nat /\ DOMAIN stored = 1 .. Len(stored)
  <2>1. PICK S : stored \in Seq(S)
    BY <1>2 DEF History
  <2>2. QED
    BY <2>1
<1>4. \A i \in 2 .. Len(stored) : \E j \in 1 .. i - 1 : \E req \in CfgRequests :
        CfgWhole(stored[j], stored[i], req)
  BY <1>2 DEF History
<1>5. \A i \in DOMAIN stored : CfgValidate(stored[i])
  BY <1>2, <1>3 DEF History
<1>6. conf = Seqs!Last(stored)
  BY <1>1 DEF Running, Seqs!Last
<1>7. \A w \in CfgWriters : cfgGot[w] \in Seqs!Range(stored) \cup {Nil}
  BY <1>1, <1>3 DEF Running, Seen, Seqs!Range
<1>8. Booted(stored[1])
  BY <1>1 DEF Running
<1>9. QED
  BY <1>4, <1>5, <1>6, <1>7, <1>8 DEF ReadersSeeWholeChanges, Booted

(* What a reader of the configuration loads (ConfigHandle::load) was valid *)
(* and is, whole, the outcome of one CONFIG SET on a configuration that    *)
(* was in force earlier, whatever other writers do meanwhile; a request    *)
(* that fails leaves no trace; at startup the command line wins over the   *)
(* file.  For any files, command lines, requests and writers.              *)
THEOREM ConfigWhole == cfgSpec => []ReadersSeeWholeChanges
<1>1. cfgInit => CfgInv
  BY CfgStarts
<1>2. CfgInv /\ [cfgNextStep]_cfgVars => CfgInv'
  BY CfgKeeps
<1>3. CfgInv => ReadersSeeWholeChanges
  BY CfgAnswers
<1>4. QED
  BY <1>1, <1>2, <1>3, PTL DEF cfgSpec
-----------------------------------------------------------------------------
(* The request parser.                                                     *)

Byte == 0 .. 255

(* The least of a set of offsets.                                          *)
LEMMA MinIsLeast ==
  ASSUME NEW T \in SUBSET Nat, T # {}
  PROVE  Seqs!Min(T) \in T /\ \A y \in T : Seqs!Min(T) <= y
<1>1. \E z \in T : \A y \in T : z <= y
  BY LeastNumber
<1>2. QED
  BY <1>1 DEF Seqs!Min

(* A run of digits is a natural number or nothing.                         *)
LEMMA ParseDigitsNumber ==
  ASSUME NEW s \in Seq(Byte)
  PROVE  ParseDigits(s) \in Nat \cup {Nil}
<1> DEFINE A == Nat \cup {Nil}
           N == Len(s)
           next(n, v) == IF \/ v = Nil
                            \/ ~IsDigit(s[n])
                            \/ v > U64Max \div 10
                            \/ v * 10 > U64Max - (s[n] - 48)
                         THEN Nil
                         ELSE v * 10 + (s[n] - 48)
           step == [p \in Nat \X A |-> IF p[1] < N THEN next(p[1] + 1, p[2]) ELSE 0]
<1>1. N \in Nat
  OBVIOUS
<1>2. ASSUME NEW n \in Nat, NEW v \in A, n < N PROVE next(n + 1, v) \in A
  <2>1. n + 1 \in 1 .. N /\ s[n + 1] \in Int
    <3>1. n + 1 \in 1 .. N
      BY <1>1, <1>2
    <3>2. s[n + 1] \in Byte
      BY <3>1, ElementOfSeq
    <3> HIDE DEF N
    <3>3. \A c \in Byte : c \in Int
      BY DEF Byte
    <3>4. QED
      BY <3>1, <3>2, <3>3
  <2>2. CASE v = Nil
    BY <2>2
  <2>3. CASE v # Nil
    <3>1. v \in Nat
      BY <2>3
    <3>2. CASE IsDigit(s[n + 1])
      <4> DEFINE d == s[n + 1] - 48
      <4>1. d \in Nat
        BY <2>1, <3>2 DEF IsDigit
      <4>2. v * 10 + d \in Nat
        BY <3>1, <4>1
      <4> HIDE DEF d
      <4>3. QED
        BY <4>2 DEF d
    <3>3. CASE ~IsDigit(s[n + 1])
      BY <3>3
    <3>4. QED
      BY <3>2, <3>3
  <2>4. QED
    BY <2>2, <2>3
<1> HIDE DEF next
<1>3. step \in [Nat \X A -> A]
  <2> HIDE DEF N
  <2>0. 0 \in A
    OBVIOUS
  <2>1. ASSUME NEW p \in Nat \X A PROVE (IF p[1] < N THEN next(p[1] + 1, p[2]) ELSE 0) \in A
    <3> HIDE DEF A
    <3>0. p[1] \in Nat /\ p[2] \in A
      OBVIOUS
    <3>1. CASE p[1] < N
      <4>1. next(p[1] + 1, p[2]) \in A
        BY <1>2, <3>0, <3>1
      <4>2. QED
        BY <3>1, <4>1
    <3>2. CASE ~(p[1] < N)
      BY <2>0, <3>2
    <3>3. QED
      BY <3>1, <3>2
  <2>2. QED
    <3> HIDE DEF A
    <3>1. QED
      BY <2>1
<1>4. PICK g \in [Nat -> A] : g[0] = 0 /\ \A n \in Nat : g[n + 1] = step[<<n, g[n]>>]
  <2>1. 0 \in A
    OBVIOUS
  <2> HIDE DEF A, step
  <2>2. Unrolls(A, 0, step)
    BY <1>3, <2>1, Recursion
  <2>3. QED
    BY <2>2 DEF Unrolls
<1>5. ASSUME NEW n \in Nat, n < N PROVE g[n + 1] = next(n + 1, g[n])
  <2>1. <<n, g[n]>> \in Nat \X A
    OBVIOUS
  <2> HIDE DEF A, N
  <2>2. QED
    BY <1>4, <1>5, <2>1
<1> HIDE DEF step, A
<1> DEFINE Q(h) == h = [n \in 0 .. N |-> IF n = 0 THEN 0 ELSE next(n, h[n - 1])]
           h0 == CHOOSE h : Q(h)
           f == [n \in 0 .. N |-> g[n]]
<1>6. Q(f)
  <2>1. ASSUME NEW n \in 0 .. N PROVE g[n] = IF n = 0 THEN 0 ELSE next(n, f[n - 1])
    <3>1. CASE n = 0
      BY <1>4, <3>1
    <3>2. CASE n # 0
      <4>1. n - 1 \in Nat /\ n - 1 < N /\ (n - 1) + 1 = n /\ n - 1 \in 0 .. N
        BY <1>1, <3>2
      <4>2. g[n] = next(n, g[n - 1])
        BY <1>5, <4>1
      <4> HIDE DEF N
      <4>3. f[n - 1] = g[n - 1]
        BY <4>1
      <4> HIDE DEF f
      <4>4. QED
        BY <3>2, <4>2, <4>3
    <3>3. QED
      BY <3>1, <3>2
  <2> HIDE DEF N
  <2>2. f = [n \in 0 .. N |-> IF n = 0 THEN 0 ELSE next(n, f[n - 1])]
    BY <2>1
  <2>3. QED
    BY <2>2
<1>7. Q(h0)
  <2> HIDE DEF Q, f
  <2>1. QED
    BY <1>6
<1>8. ParseDigits(s) = h0[N]
  BY DEF ParseDigits, next
<1> HIDE DEF h0, f
<1> DEFINE T == {n \in Nat : n <= N => h0[n] = g[n]}
<1>9. 0 \in T
  <2>1. 0 \in 0 .. N
    BY <1>1
  <2> HIDE DEF N
  <2>2. h0[0] = 0
    BY <1>7, <2>1
  <2>3. QED
    BY <1>4, <2>2
<1>10. ASSUME NEW n \in Nat, n \in T PROVE n + 1 \in T
  <2>1. SUFFICES ASSUME n + 1 <= N PROVE h0[n + 1] = g[n + 1]
    OBVIOUS
  <2>2. n + 1 \in 0 .. N /\ n + 1 # 0 /\ (n + 1) - 1 = n /\ n < N
    BY <1>1, <2>1
  <2>3. h0[n] = g[n]
    BY <1>1, <1>10, <2>1
  <2> HIDE DEF N
  <2>4. h0[n + 1] = next(n + 1, h0[n])
    BY <1>7, <2>2
  <2>5. QED
    BY <1>5, <2>2, <2>3, <2>4
<1>11. \A n \in Nat : n \in T
  <2> HIDE DEF T
  <2>1. QED
    BY <1>9, <1>10, Induction
<1>12. QED
  BY <1>1, <1>8, <1>11 DEF A

LEMMA ParseNumber ==
  ASSUME NEW s \in Seq(Byte)
  PROVE  parse_i64_strict(s) \in Int \cup {Nil}
<1> DEFINE negative == s # <<>> /\ s[1] = Minus
           digits == IF negative THEN Tail(s) ELSE s
           v == ParseDigits(digits)
<1>1. digits \in Seq(Byte)
  OBVIOUS
<1> HIDE DEF digits
<1>2. v \in Nat \cup {Nil}
  BY <1>1, ParseDigitsNumber
<1>3. parse_i64_strict(s) \in {Nil, v} \/ (v # Nil /\ parse_i64_strict(s) = -v)
  BY DEF parse_i64_strict, digits
<1> HIDE DEF v
<1>4. QED
  BY <1>2, <1>3

(* No CR among the bytes at the offsets lo .. hi - 1.                      *)
NoCR(b, lo, hi) == \A i \in lo .. hi - 1 : b[i + 1] # CR

(* What a line at `from` can be: unfinished, with the offset up to which   *)
(* no CR is to be found; malformed; or closed, with its text.              *)
LineIs(b, from, l) ==
  \/ /\ l = [line |-> "Incomplete", next |-> l.next]
     /\ l.next \in from .. Len(b) /\ NoCR(b, from, l.next)
  \/ l = [line |-> "Malformed"]
  \/ /\ l.line = "Found" /\ l.next \in from + 2 .. Len(b) /\ l.text \in Seq(Byte)

(* A CR that closes the header line at `from`, with its LF.                *)
ClosesAt(b, from, cr) ==
  /\ cr \in from .. Len(b) - 2 /\ b[cr + 1] = CR /\ b[cr + 2] = LF
  /\ NoCR(b, from, cr)

LineOf(b, from, cr) ==
  [line |-> "Found", text |-> SubSeq(b, from + 1, cr), next |-> cr + 2]

LEMMA LineEndIs ==
  ASSUME NEW b \in Seq(Byte), NEW from \in Nat, from <= Len(b)
  PROVE  LineIs(b, from, line_end(b, from, from))
<1> DEFINE N == Len(b)
           crs == {i \in from .. N - 1 : b[i + 1] = CR}
           cr == Seqs!Min(crs)
           l == line_end(b, from, from)
<1>0. N \in Nat /\ from <= N
  OBVIOUS
<1>1. /\ crs = {} => l = [line |-> "Incomplete", next |-> N]
      /\ crs # {} /\ cr + 1 = N => l = [line |-> "Incomplete", next |-> cr]
      /\ crs # {} /\ cr + 1 # N /\ b[cr + 2] # LF => l = [line |-> "Malformed"]
      /\ crs # {} /\ cr + 1 # N /\ b[cr + 2] = LF => l = LineOf(b, from, cr)
  BY DEF line_end, LineOf
<1>2. crs # {} => cr \in from .. N - 1 /\ b[cr + 1] = CR /\ \A y \in crs : cr <= y
  <2>1. crs \in SUBSET Nat
    BY <1>0
  <2> HIDE DEF crs
  <2>2. crs # {} => cr \in crs /\ \A y \in crs : cr <= y
    BY <2>1, MinIsLeast
  <2>3. QED
    BY <2>2 DEF crs
<1> HIDE DEF l, cr
<1>3. CASE crs = {}
  <2>1. NoCR(b, from, N)
    BY <1>3 DEF NoCR
  <2>2. QED
    BY <1>0, <1>1, <1>3, <2>1 DEF LineIs, l
<1>4. CASE crs # {}
  <2>1. NoCR(b, from, cr)
    <3>1. SUFFICES ASSUME NEW i \in from .. cr - 1, b[i + 1] = CR PROVE FALSE
      BY DEF NoCR
    <3>2. cr \in from .. N - 1 /\ \A y \in crs : cr <= y
      BY <1>2, <1>4
    <3>3. i \in crs
      BY <1>0, <3>1, <3>2
    <3>4. cr <= i
      BY <3>2, <3>3
    <3>5. QED
      BY <1>0, <3>1, <3>2, <3>4
  <2>2. CASE cr + 1 = N
    BY <1>0, <1>1, <1>2, <1>4, <2>1, <2>2 DEF LineIs, l
  <2>3. CASE cr + 1 # N /\ b[cr + 2] # LF
    BY <1>1, <1>4, <2>3 DEF LineIs, l
  <2>4. CASE cr + 1 # N /\ b[cr + 2] = LF
    <3>1. cr + 2 \in from + 2 .. N
      BY <1>0, <1>2, <1>4, <2>4
    <3>2. SubSeq(b, from + 1, cr) \in Seq(Byte)
      BY <1>0, <1>2, <1>4
    <3>3. QED
      <4>1. l = LineOf(b, from, cr)
        BY <1>1, <1>4, <2>4
      <4>2. l.line = "Found" /\ l.next = cr + 2 /\ l.text = SubSeq(b, from + 1, cr)
        BY <4>1 DEF LineOf
      <4>3. LineIs(b, from, l)
        BY <3>1, <3>2, <4>2 DEF LineIs
      <4>4. QED
        BY <4>3 DEF l
  <2>5. QED
    BY <2>2, <2>3, <2>4
<1>5. QED
  BY <1>3, <1>4

(* Resuming the search behind bytes without CR changes nothing.            *)
LEMMA LineResumes ==
  ASSUME NEW b \in Seq(Byte), NEW from \in Nat, NEW scanned \in Nat, NoCR(b, from, scanned)
  PROVE  line_end(b, from, scanned) = line_end(b, from, from)
<1> DEFINE first == IF scanned > from THEN scanned ELSE from
           crs(x) == {i \in x .. Len(b) - 1 : b[i + 1] = CR}
<1>1. crs(first) = crs(from)
  BY DEF NoCR
<1>2. line_end(b, from, scanned) =
        LET cr == Seqs!Min(crs(first))
        IN IF crs(first) = {} THEN [line |-> "Incomplete", next |-> Len(b)]
           ELSE IF cr + 1 = Len(b) THEN [line |-> "Incomplete", next |-> cr]
           ELSE IF b[cr + 2] # LF THEN [line |-> "Malformed"]
           ELSE [line |-> "Found", text |-> SubSeq(b, from + 1, cr), next |-> cr + 2]
  BY DEF line_end
<1>3. line_end(b, from, from) =
        LET cr == Seqs!Min(crs(from))
        IN IF crs(from) = {} THEN [line |-> "Incomplete", next |-> Len(b)]
           ELSE IF cr + 1 = Len(b) THEN [line |-> "Incomplete", next |-> cr]
           ELSE IF b[cr + 2] # LF THEN [line |-> "Malformed"]
           ELSE [line |-> "Found", text |-> SubSeq(b, from + 1, cr), next |-> cr + 2]
  BY DEF line_end
<1> HIDE DEF first, crs
<1>4. QED
  BY <1>1, <1>2, <1>3

(* c has the bytes of b, and perhaps more after them.                      *)
Grows(b, c) ==
  /\ b \in Seq(Byte) /\ c \in Seq(Byte) /\ Len(b) <= Len(c)
  /\ \A i \in 1 .. Len(b) : c[i] = b[i]

(* A closed line is closed by one CR, and one such CR makes the line.      *)
LEMMA FoundCloses ==
  ASSUME NEW b \in Seq(Byte), NEW from \in Nat, line_end(b, from, from).line = "Found"
  PROVE  \E cr : ClosesAt(b, from, cr) /\ line_end(b, from, from) = LineOf(b, from, cr)
<1> DEFINE N == Len(b)
           crs == {i \in from .. N - 1 : b[i + 1] = CR}
           cr == Seqs!Min(crs)
           l == line_end(b, from, from)
<1>0. N \in Nat
  OBVIOUS
<1>1. /\ crs = {} => l = [line |-> "Incomplete", next |-> N]
      /\ crs # {} /\ cr + 1 = N => l = [line |-> "Incomplete", next |-> cr]
      /\ crs # {} /\ cr + 1 # N /\ b[cr + 2] # LF => l = [line |-> "Malformed"]
      /\ crs # {} /\ cr + 1 # N /\ b[cr + 2] = LF => l = LineOf(b, from, cr)
  BY DEF line_end, LineOf
<1>2. crs # {} => cr \in from .. N - 1 /\ b[cr + 1] = CR /\ \A y \in crs : cr <= y
  <2>1. crs \in SUBSET Nat
    BY <1>0
  <2> HIDE DEF crs
  <2>2. crs # {} => cr \in crs /\ \A y \in crs : cr <= y
    BY <2>1, MinIsLeast
  <2>3. QED
    BY <2>2 DEF crs
<1> HIDE DEF cr
<1>3. crs # {} /\ cr + 1 # N /\ b[cr + 2] = LF
  <2> HIDE DEF crs
  <2>1. QED
    BY <1>1
<1>4. NoCR(b, from, cr)
  <2>1. SUFFICES ASSUME NEW i \in from .. cr - 1, b[i + 1] = CR PROVE FALSE
    BY DEF NoCR
  <2>2. cr \in from .. N - 1 /\ \A y \in crs : cr <= y
    BY <1>2, <1>3
  <2>3. i \in crs
    BY <1>0, <2>1, <2>2
  <2>4. cr <= i
    BY <2>2, <2>3
  <2>5. QED
    BY <1>0, <2>1, <2>2, <2>4
<1>5. ClosesAt(b, from, cr)
  BY <1>0, <1>2, <1>3, <1>4 DEF ClosesAt
<1>6. l = LineOf(b, from, cr)
  BY <1>1, <1>3
<1> HIDE DEF crs
<1>7. QED
  BY <1>5, <1>6

LEMMA ClosesFound ==
  ASSUME NEW b \in Seq(Byte), NEW from \in Nat, NEW cr, ClosesAt(b, from, cr)
  PROVE  line_end(b, from, from) = LineOf(b, from, cr)
<1> DEFINE N == Len(b)
           crs == {i \in from .. N - 1 : b[i + 1] = CR}
           m == Seqs!Min(crs)
<1>0. N \in Nat
  OBVIOUS
<1>1. cr \in crs /\ \A y \in crs : cr <= y
  BY <1>0 DEF ClosesAt, NoCR
<1>2. m \in crs /\ \A y \in crs : m <= y
  <2>0. crs # {}
    <3> HIDE DEF crs
    <3>1. QED
      BY <1>1
  <2>1. crs \in SUBSET Nat /\ crs # {}
    BY <1>0, <2>0
  <2> HIDE DEF crs
  <2>2. QED
    BY <2>1, MinIsLeast
<1>3. m = cr
  BY <1>0, <1>1, <1>2
<1>4. m + 1 # N /\ b[m + 2] = LF /\ crs # {}
  <2>1. cr + 1 # N /\ b[cr + 2] = LF
    BY <1>0 DEF ClosesAt
  <2> HIDE DEF crs
  <2>2. QED
    BY <1>1, <1>3, <2>1
<1>5. QED
  BY <1>3, <1>4 DEF line_end, LineOf

(* A line once closed stays what it is however many bytes follow.          *)
LEMMA LineGrows ==
  ASSUME NEW b, NEW c, Grows(b, c), NEW from \in Nat, line_end(b, from, from).line = "Found"
  PROVE  line_end(c, from, from) = line_end(b, from, from)
<1>0. b \in Seq(Byte) /\ c \in Seq(Byte)
  BY DEF Grows
<1>1. PICK cr : ClosesAt(b, from, cr) /\ line_end(b, from, from) = LineOf(b, from, cr)
  BY <1>0, FoundCloses
<1>2. cr \in from .. Len(b) - 2 /\ Len(b) \in Nat /\ Len(c) \in Nat /\ cr \in Nat
  BY <1>0, <1>1 DEF ClosesAt
<1>3. ClosesAt(c, from, cr)
  <2>1. \A i \in from .. cr + 1 : c[i + 1] = b[i + 1]
    BY <1>2 DEF Grows
  <2>2. NoCR(c, from, cr)
    BY <1>1, <1>2, <2>1 DEF ClosesAt, NoCR
  <2>3. c[cr + 1] = CR
    BY <1>1, <1>2, <2>1 DEF ClosesAt
  <2>4. c[cr + 2] = LF
    <3>1. (cr + 1) + 1 = cr + 2 /\ cr + 1 \in from .. cr + 1
      BY <1>2
    <3>2. QED
      BY <1>1, <1>2, <2>1, <3>1 DEF ClosesAt
  <2>5. QED
    BY <1>0, <1>2, <2>2, <2>3, <2>4 DEF ClosesAt, Grows
<1>4. line_end(c, from, from) = LineOf(c, from, cr)
  BY <1>0, <1>3, ClosesFound
<1>5. SubSeq(c, from + 1, cr) = SubSeq(b, from + 1, cr)
  <2> DEFINE x == SubSeq(c, from + 1, cr)
             y == SubSeq(b, from + 1, cr)
  <2>1. x \in Seq(Byte) /\ y \in Seq(Byte) /\ Len(x) = cr - from /\ Len(y) = cr - from
    BY <1>0, <1>2 DEF Grows
  <2>2. ASSUME NEW i \in 1 .. cr - from PROVE x[i] = y[i]
    <3>1. x[i] = c[from + i] /\ y[i] = b[from + i] /\ from + i \in 1 .. Len(b)
      BY <1>0, <1>2 DEF Grows
    <3>2. QED
      BY <3>1 DEF Grows
  <2> HIDE DEF x, y
  <2>3. Len(x) = Len(y) /\ \A i \in 1 .. Len(x) : x[i] = y[i]
    BY <2>1, <2>2
  <2>4. x = y
    BY <2>1, <2>3, SeqEqual
  <2>5. QED
    BY <2>4 DEF x, y
<1>6. QED
  BY <1>1, <1>4, <1>5 DEF LineOf

(* The bulk header at pos is closed and announces len bytes from start.    *)
BulkLine(b, pos, start, len) ==
  /\ pos \in 1 .. Len(b) - 1 /\ b[pos + 1] = Dollar
  /\ line_end(b, pos + 1, pos + 1).line = "Found"
  /\ line_end(b, pos + 1, pos + 1).next = start
  /\ parse_i64_strict(line_end(b, pos + 1, pos + 1).text) = len
  /\ len \in Nat /\ len # Nil /\ ~(len > ProtoMaxBulkLen)

(* Where a line of the buffer ends, and what it reads.                     *)
LEMMA FoundLine ==
  ASSUME NEW b \in Seq(Byte), NEW from \in Nat, from <= Len(b), NEW l,
         l = line_end(b, from, from), l.line = "Found"
  PROVE  /\ l.next \in from + 2 .. Len(b)
         /\ parse_i64_strict(l.text) \in Int \cup {Nil}
<1>1. LineIs(b, from, l)
  BY LineEndIs
<1>2. l.next \in from + 2 .. Len(b) /\ l.text \in Seq(Byte)
  BY <1>1 DEF LineIs
<1>3. QED
  BY <1>2, ParseNumber

LEMMA BulkLineStart ==
  ASSUME NEW b \in Seq(Byte), NEW pos, NEW start, NEW len, BulkLine(b, pos, start, len)
  PROVE  start \in pos + 3 .. Len(b) /\ pos \in Nat /\ len \in Nat /\ Len(b) \in Nat
<1>1. pos \in 1 .. Len(b) - 1 /\ Len(b) \in Nat /\ pos + 1 \in Nat /\ pos + 1 <= Len(b)
  BY DEF BulkLine
<1>2. start \in (pos + 1) + 2 .. Len(b)
  BY <1>1, FoundLine DEF BulkLine
<1>3. QED
  BY <1>1, <1>2 DEF BulkLine

(* A bulk whose header is closed: an argument, or bytes are missing.       *)
LEMMA BulkOfLine ==
  ASSUME NEW b \in Seq(Byte), NEW pos, NEW start, NEW len, BulkLine(b, pos, start, len),
         NEW args
  PROVE  /\ Len(b) < start + len + 2 => OneShotBulk(b, Open(pos, args)) = Waits
         /\ ~(Len(b) < start + len + 2) =>
              OneShotBulk(b, Open(pos, args)) =
                Open(start + len + 2, Append(args, SubSeq(b, start + 1, start + len)))
<1> DEFINE o == Open(pos, args)
           l == line_end(b, pos + 1, pos + 1)
<1>1. o.pos = pos /\ o.args = args
  BY DEF Open
<1>2. l.line = "Found" /\ l.next = start /\ parse_i64_strict(l.text) = len
  BY DEF BulkLine
<1>3. ~(pos >= Len(b)) /\ b[pos + 1] = Dollar /\ len \in Nat /\ len # Nil
      /\ ~(len < 0) /\ ~(len > ProtoMaxBulkLen) /\ start \in Nat /\ Len(b) \in Nat
  <2>1. pos \in 1 .. Len(b) - 1 /\ b[pos + 1] = Dollar /\ len \in Nat /\ len # Nil
        /\ ~(len > ProtoMaxBulkLen)
    BY DEF BulkLine
  <2>2. start \in pos + 3 .. Len(b) /\ Len(b) \in Nat
    BY BulkLineStart
  <2>3. QED
    BY <2>1, <2>2
<1>4. (start + len + 2) - 2 = start + len
  BY <1>3
<1> HIDE DEF o, l
<1>5. /\ Len(b) < start + len + 2 => OneShotBulk(b, o) = Waits
      /\ ~(Len(b) < start + len + 2) =>
           OneShotBulk(b, o) =
             Open(start + len + 2, Append(args, SubSeq(b, start + 1, (start + len + 2) - 2)))
  BY <1>1, <1>2, <1>3 DEF OneShotBulk, l
<1>6. QED
  BY <1>4, <1>5 DEF o

(* What a bulk can come to.                                                *)
BulkErrors == {"ExpectedDollar", "TooBigBulkCount", "InvalidBulkLength"}
Results(b) ==
  {Waits} \cup {Refusal(e) : e \in BulkErrors}
  \cup {Open(p, a) : p \in 1 .. Len(b), a \in Seq(Seq(Byte))}

LEMMA OpenResult ==
  ASSUME NEW b, NEW p \in 1 .. Len(b), NEW a \in Seq(Seq(Byte))
  PROVE  Open(p, a) \in Results(b)
BY DEF Results

LEMMA BulkResult ==
  ASSUME NEW b \in Seq(Byte), NEW pos \in 1 .. Len(b), NEW args \in Seq(Seq(Byte))
  PROVE  OneShotBulk(b, Open(pos, args)) \in Results(b)
<1> DEFINE o == Open(pos, args)
           l == line_end(b, pos + 1, pos + 1)
           len == parse_i64_strict(l.text)
<1>0. Len(b) \in Nat /\ pos \in Nat
  OBVIOUS
<1>1. o.pos = pos /\ o.args = args
  BY DEF Open
<1>a. /\ Waits \in Results(b) /\ Refusal("ExpectedDollar") \in Results(b)
      /\ Refusal("TooBigBulkCount") \in Results(b) /\ Refusal("InvalidBulkLength") \in Results(b)
  BY DEF Results, BulkErrors
<1>2. CASE pos >= Len(b)
  <2> HIDE DEF o
  <2>1. OneShotBulk(b, o) = Waits
    BY <1>1, <1>2 DEF OneShotBulk
  <2>2. QED
    BY <1>a, <2>1 DEF o
<1>3. CASE ~(pos >= Len(b)) /\ b[pos + 1] # Dollar
  <2> HIDE DEF o
  <2>1. OneShotBulk(b, o) = Refusal("ExpectedDollar")
    BY <1>1, <1>3 DEF OneShotBulk
  <2>2. QED
    BY <1>a, <2>1 DEF o
<1>4. CASE ~(pos >= Len(b)) /\ b[pos + 1] = Dollar /\ l.line = "Incomplete"
  <2> HIDE DEF o, l, len
  <2>1. OneShotBulk(b, o) \in {Waits, Refusal("TooBigBulkCount")}
    BY <1>1, <1>4 DEF OneShotBulk, l
  <2>2. QED
    BY <1>a, <2>1 DEF o
<1>5. CASE ~(pos >= Len(b)) /\ b[pos + 1] = Dollar /\ l.line # "Incomplete"
           /\ (l.line = "Malformed" \/ len = Nil \/ len < 0 \/ len > ProtoMaxBulkLen)
  <2> HIDE DEF o, l, len
  <2>1. OneShotBulk(b, o) = Refusal("InvalidBulkLength")
    BY <1>1, <1>5 DEF OneShotBulk, l, len
  <2>2. QED
    BY <1>a, <2>1 DEF o
<1>6. CASE ~(pos >= Len(b)) /\ b[pos + 1] = Dollar /\ l.line # "Incomplete"
           /\ ~(l.line = "Malformed" \/ len = Nil \/ len < 0 \/ len > ProtoMaxBulkLen)
  <2>1. pos \in 1 .. Len(b) - 1 /\ pos + 1 \in Nat /\ pos + 1 <= Len(b)
    BY <1>0, <1>6
  <2>2. l.line = "Found"
    <3>1. LineIs(b, pos + 1, l)
      BY <2>1, LineEndIs
    <3> HIDE DEF l
    <3>2. QED
      BY <1>6, <3>1 DEF LineIs
  <2>3. l.next \in pos + 3 .. Len(b) /\ len \in Int \cup {Nil}
    <3> HIDE DEF len
    <3>1. l.next \in (pos + 1) + 2 .. Len(b) /\ len \in Int \cup {Nil}
      BY <2>1, <2>2, FoundLine DEF len
    <3> HIDE DEF l
    <3>2. QED
      BY <1>0, <3>1
  <2>4. BulkLine(b, pos, l.next, len)
    <3>1. len \in Nat
      <4> HIDE DEF len
      <4>1. QED
        BY <1>6, <2>3
    <3> HIDE DEF l, len
    <3>2. QED
      BY <1>6, <2>1, <2>2, <3>1 DEF BulkLine, l, len
  <2> DEFINE after == l.next + len + 2
             arg == SubSeq(b, l.next + 1, l.next + len)
  <2> HIDE DEF l, len
  <2>5. OneShotBulk(b, o) = Waits
        \/ (~(Len(b) < after) /\ OneShotBulk(b, o) = Open(after, Append(args, arg)))
    BY <2>4, BulkOfLine
  <2>6. len \in Nat /\ l.next \in 3 .. Len(b)
    BY <1>0, <2>3, <2>4 DEF BulkLine
  <2>7. CASE ~(Len(b) < after) /\ OneShotBulk(b, o) = Open(after, Append(args, arg))
    <3>1. after \in 1 .. Len(b)
      BY <1>0, <2>6, <2>7
    <3>2. arg \in Seq(Byte)
      BY <1>0, <2>6, <2>7
    <3>3. Append(args, arg) \in Seq(Seq(Byte))
      BY <3>2
    <3> HIDE DEF after, arg, o
    <3>4. Open(after, Append(args, arg)) \in Results(b)
      BY <3>1, <3>3, OpenResult
    <3>5. QED
      BY <2>7, <3>4 DEF o
  <2>8. QED
    BY <1>a, <2>5, <2>7
<1>7. QED
  BY <1>2, <1>3, <1>4, <1>5, <1>6

(* The bulks one after the other: g[k] is what the first k come to.        *)
NextBulk(b, o) == IF o.is = "Open" THEN OneShotBulk(b, o) ELSE o
BulkRun(b, pos, count, g) ==
  /\ g \in [0 .. count -> Results(b)]
  /\ g[0] = Open(pos, <<>>)
  /\ \A k \in 0 .. count - 1 : g[k + 1] = NextBulk(b, g[k])
EndOfRun(o) == IF o.is = "Open" THEN Done(Command(o.args), o.pos) ELSE o

LEMMA ResultIs ==
  ASSUME NEW b, NEW o \in Results(b)
  PROVE  \/ o.is # "Open" /\ (o = Waits \/ \E e \in BulkErrors : o = Refusal(e))
         \/ o.is = "Open" /\ \E p \in 1 .. Len(b), a \in Seq(Seq(Byte)) : o = Open(p, a)
<1>1. CASE o = Waits
  BY <1>1 DEF Waits
<1>2. CASE \E e \in BulkErrors : o = Refusal(e)
  <2>1. o.is = "Done"
    BY <1>2 DEF Refusal, Done
  <2>2. QED
    BY <1>2, <2>1
<1>3. CASE \E p \in 1 .. Len(b), a \in Seq(Seq(Byte)) : o = Open(p, a)
  <2>1. o.is = "Open"
    BY <1>3 DEF Open
  <2>2. QED
    BY <1>3, <2>1
<1>4. QED
  BY <1>1, <1>2, <1>3 DEF Results

LEMMA NextBulkResult ==
  ASSUME NEW b \in Seq(Byte), NEW o \in Results(b)
  PROVE  NextBulk(b, o) \in Results(b)
<1>1. CASE o.is = "Open"
  <2>1. PICK p \in 1 .. Len(b), a \in Seq(Seq(Byte)) : o = Open(p, a)
    BY <1>1, ResultIs
  <2>2. QED
    BY <1>1, <2>1, BulkResult DEF NextBulk
<1>2. CASE o.is # "Open"
  BY <1>2 DEF NextBulk
<1>3. QED
  BY <1>1, <1>2

LEMMA BulkRunExists ==
  ASSUME NEW b \in Seq(Byte), NEW pos \in 1 .. Len(b), NEW count \in Nat
  PROVE  \E g : BulkRun(b, pos, count, g) /\ OneShotBulks(b, pos, count) = EndOfRun(g[count])
<1> DEFINE A == Results(b)
           a == Open(pos, <<>>)
           step == [p \in Nat \X A |-> NextBulk(b, p[2])]
<1>1. a \in A
  <2>1. <<>> \in Seq(Seq(Byte))
    OBVIOUS
  <2>2. QED
    BY <2>1, OpenResult
<1> HIDE DEF a
<1>2. step \in [Nat \X A -> A] /\ \A n \in Nat, v \in A : step[<<n, v>>] = NextBulk(b, v)
  <2>1. \A v \in A : NextBulk(b, v) \in A
    BY NextBulkResult
  <2> HIDE DEF A
  <2>2. QED
    BY <2>1
<1> HIDE DEF step, A
<1>3. PICK g \in [Nat -> A] : g[0] = a /\ \A n \in Nat : g[n + 1] = step[<<n, g[n]>>]
  <2>1. Unrolls(A, a, step)
    BY <1>1, <1>2, Recursion
  <2>2. QED
    BY <2>1 DEF Unrolls
<1>4. \A n \in Nat : g[n] \in A /\ g[n + 1] = NextBulk(b, g[n])
  BY <1>2, <1>3
<1> DEFINE Q(h) == h = [k \in 0 .. count |->
                          IF k = 0 THEN Open(pos, <<>>)
                          ELSE IF h[k - 1].is = "Open" THEN OneShotBulk(b, h[k - 1])
                          ELSE h[k - 1]]
           h0 == CHOOSE h : Q(h)
           f == [n \in 0 .. count |-> g[n]]
<1>5. Q(f)
  <2>1. ASSUME NEW n \in 0 .. count
        PROVE  g[n] = IF n = 0 THEN Open(pos, <<>>)
                      ELSE IF f[n - 1].is = "Open" THEN OneShotBulk(b, f[n - 1]) ELSE f[n - 1]
    <3>1. CASE n = 0
      BY <1>3, <3>1 DEF a
    <3>2. CASE n # 0
      <4>1. n - 1 \in Nat /\ (n - 1) + 1 = n /\ n - 1 \in 0 .. count
        BY <3>2
      <4>2. g[n] = NextBulk(b, g[n - 1])
        BY <1>4, <4>1
      <4>3. f[n - 1] = g[n - 1]
        BY <4>1
      <4> HIDE DEF f
      <4>4. QED
        BY <3>2, <4>2, <4>3 DEF NextBulk
    <3>3. QED
      BY <3>1, <3>2
  <2>2. f = [n \in 0 .. count |->
               IF n = 0 THEN Open(pos, <<>>)
               ELSE IF f[n - 1].is = "Open" THEN OneShotBulk(b, f[n - 1]) ELSE f[n - 1]]
    BY <2>1
  <2>3. QED
    BY <2>2
<1>6. Q(h0)
  <2> HIDE DEF Q, f
  <2>1. QED
    BY <1>5
<1>7. OneShotBulks(b, pos, count) = EndOfRun(h0[count])
  BY DEF OneShotBulks, EndOfRun
<1> HIDE DEF h0, f
<1>8. h0[0] = a
  <2>1. 0 \in 0 .. count
    OBVIOUS
  <2>2. QED
    BY <1>6, <2>1 DEF a
<1>9. ASSUME NEW k \in 0 .. count - 1 PROVE h0[k + 1] = NextBulk(b, h0[k])
  <2>1. k + 1 \in 0 .. count /\ k + 1 # 0 /\ (k + 1) - 1 = k
    OBVIOUS
  <2>2. QED
    BY <1>6, <2>1 DEF NextBulk
<1> DEFINE T == {n \in Nat : n <= count => h0[n] \in A}
<1>10. 0 \in T
  BY <1>1, <1>8
<1>11. ASSUME NEW n \in Nat, n \in T PROVE n + 1 \in T
  <2>1. SUFFICES ASSUME n + 1 <= count PROVE h0[n + 1] \in A
    OBVIOUS
  <2>2. n \in 0 .. count - 1 /\ n <= count
    BY <2>1
  <2>3. h0[n] \in A /\ h0[n + 1] = NextBulk(b, h0[n])
    BY <1>9, <1>11, <2>2
  <2>4. QED
    BY <2>3, NextBulkResult DEF A
<1>12. \A n \in Nat : n \in T
  <2> HIDE DEF T
  <2>1. QED
    BY <1>10, <1>11, Induction
<1>13. h0 \in [0 .. count -> A]
  <2>1. DOMAIN h0 = 0 .. count /\ h0 = [k \in 0 .. count |-> h0[k]]
    BY <1>6
  <2>2. \A k \in 0 .. count : h0[k] \in A
    BY <1>12
  <2> HIDE DEF T, Q
  <2>3. QED
    BY <2>1, <2>2
<1>14. BulkRun(b, pos, count, h0)
  BY <1>8, <1>9, <1>13 DEF BulkRun, A, a
<1>15. QED
  BY <1>7, <1>14

(* Once a bulk is refused or unfinished, that is what the run comes to.    *)
LEMMA RunStops ==
  ASSUME NEW b, NEW pos, NEW count \in Nat, NEW g, BulkRun(b, pos, count, g),
         NEW k \in 0 .. count, g[k].is # "Open"
  PROVE  g[count] = g[k]
<1> DEFINE T == {n \in Nat : k + n <= count => g[k + n] = g[k]}
<1>1. 0 \in T
  OBVIOUS
<1>2. ASSUME NEW n \in Nat, n \in T PROVE n + 1 \in T
  <2>1. SUFFICES ASSUME k + (n + 1) <= count PROVE g[k + (n + 1)] = g[k]
    OBVIOUS
  <2>2. k + n \in 0 .. count - 1 /\ (k + n) + 1 = k + (n + 1)
    BY <2>1
  <2>3. g[k + n] = g[k]
    BY <1>2, <2>2
  <2>4. QED
    BY <2>2, <2>3 DEF BulkRun, NextBulk
<1>3. \A n \in Nat : n \in T
  <2> HIDE DEF T
  <2>1. QED
    BY <1>1, <1>2, Induction
<1>4. count - k \in Nat /\ k + (count - k) = count
  OBVIOUS
<1>5. QED
  BY <1>3, <1>4

(* The recorded ranges rs are the arguments that start at first, each      *)
(* behind its header, all of them in the buffer.                           *)
BulkPos(first, rs, k) == IF k = 0 THEN first ELSE rs[k][2] + 2
Chain(b, first, rs) ==
  /\ rs \in Seq(Nat \X Nat)
  /\ \A k \in 1 .. Len(rs) :
       /\ BulkLine(b, BulkPos(first, rs, k - 1), rs[k][1], rs[k][2] - rs[k][1])
       /\ rs[k][2] + 2 <= Len(b)
ArgsTo(b, rs, n) == [i \in 1 .. n |-> SubSeq(b, rs[i][1] + 1, rs[i][2])]

LEMMA ChainEntry ==
  ASSUME NEW b \in Seq(Byte), NEW first, NEW rs, Chain(b, first, rs), NEW k \in 1 .. Len(rs)
  PROVE  /\ Len(rs) \in Nat /\ rs[k][1] \in Nat /\ rs[k][2] \in Nat
         /\ rs[k][1] <= rs[k][2] /\ rs[k][2] + 2 <= Len(b) /\ 3 <= rs[k][1]
         /\ SubSeq(b, rs[k][1] + 1, rs[k][2]) \in Seq(Byte)
         /\ rs[k][1] + (rs[k][2] - rs[k][1]) = rs[k][2]
<1> DEFINE s == rs[k][1]
           e == rs[k][2]
<1>1. Len(rs) \in Nat /\ s \in Nat /\ e \in Nat
  BY DEF Chain
<1>2. BulkLine(b, BulkPos(first, rs, k - 1), s, e - s) /\ e + 2 <= Len(b)
  BY DEF Chain
<1> HIDE DEF s, e
<1>3. s \in BulkPos(first, rs, k - 1) + 3 .. Len(b) /\ e - s \in Nat /\ Len(b) \in Nat
      /\ BulkPos(first, rs, k - 1) \in Nat
  BY <1>2, BulkLineStart
<1>4. s <= e /\ 3 <= s /\ s + (e - s) = e
  BY <1>1, <1>3
<1>5. SubSeq(b, s + 1, e) \in Seq(Byte)
  BY <1>1, <1>2, <1>3, <1>4
<1>6. QED
  BY <1>1, <1>2, <1>4, <1>5 DEF s, e

LEMMA ArgsGrow ==
  ASSUME NEW b \in Seq(Byte), NEW first, NEW rs, Chain(b, first, rs), NEW n \in 0 .. Len(rs)
  PROVE  /\ ArgsTo(b, rs, n) \in Seq(Seq(Byte))
         /\ n + 1 <= Len(rs) =>
              ArgsTo(b, rs, n + 1) =
                Append(ArgsTo(b, rs, n), SubSeq(b, rs[n + 1][1] + 1, rs[n + 1][2]))
<1> DEFINE arg(i) == SubSeq(b, rs[i][1] + 1, rs[i][2])
<1>0. Len(rs) \in Nat
  BY DEF Chain
<1>1. \A i \in 1 .. Len(rs) : arg(i) \in Seq(Byte)
  BY ChainEntry
<1> HIDE DEF arg
<1>2. \A m \in 0 .. Len(rs) : [i \in 1 .. m |-> arg(i)] \in Seq(Seq(Byte))
  BY <1>0, <1>1
<1>3. ASSUME n + 1 <= Len(rs)
      PROVE  [i \in 1 .. n + 1 |-> arg(i)] = Append([i \in 1 .. n |-> arg(i)], arg(n + 1))
  <2> DEFINE x == [i \in 1 .. n + 1 |-> arg(i)]
             y == [i \in 1 .. n |-> arg(i)]
             z == Append(y, arg(n + 1))
  <2>1. y \in Seq(Seq(Byte)) /\ x \in Seq(Seq(Byte)) /\ Len(y) = n /\ Len(x) = n + 1
    BY <1>0, <1>2, <1>3
  <2>2. arg(n + 1) \in Seq(Byte)
    BY <1>0, <1>1, <1>3
  <2>3. \A i \in 1 .. n : y[i] = arg(i)
    OBVIOUS
  <2>4. \A i \in 1 .. n + 1 : x[i] = arg(i)
    OBVIOUS
  <2> HIDE DEF x, y
  <2>5. z \in Seq(Seq(Byte)) /\ Len(z) = n + 1 /\ z[n + 1] = arg(n + 1)
        /\ \A i \in 1 .. n : z[i] = y[i]
    BY <2>1, <2>2, AppendProperties
  <2> HIDE DEF z
  <2>6. Len(x) = Len(z) /\ \A i \in 1 .. Len(x) : x[i] = z[i]
    BY <2>1, <2>3, <2>4, <2>5
  <2>7. x = z
    BY <2>1, <2>5, <2>6, SeqEqual
  <2>8. QED
    BY <2>7 DEF x, y, z
<1>4. QED
  BY <1>2, <1>3 DEF ArgsTo, arg

(* The run agrees with the recorded ranges as far as they go.              *)
LEMMA ChainOpens ==
  ASSUME NEW b \in Seq(Byte), NEW first \in 1 .. Len(b), NEW rs, Chain(b, first, rs),
         NEW count \in Nat, Len(rs) <= count, NEW g, BulkRun(b, first, count, g)
  PROVE  g[Len(rs)] = Open(BulkPos(first, rs, Len(rs)), ArgsTo(b, rs, Len(rs)))
<1> DEFINE T == {k \in Nat : k <= Len(rs) =>
                    g[k] = Open(BulkPos(first, rs, k), ArgsTo(b, rs, k))}
<1>0. Len(rs) \in Nat
  BY DEF Chain
<1>1. 0 \in T
  <2>1. ArgsTo(b, rs, 0) = <<>>
    BY DEF ArgsTo
  <2>2. QED
    BY <2>1 DEF BulkRun, BulkPos
<1>2. ASSUME NEW k \in Nat, k \in T PROVE k + 1 \in T
  <2>1. SUFFICES ASSUME k + 1 <= Len(rs)
                 PROVE  g[k + 1] = Open(BulkPos(first, rs, k + 1), ArgsTo(b, rs, k + 1))
    OBVIOUS
  <2> DEFINE pos == BulkPos(first, rs, k)
             args == ArgsTo(b, rs, k)
             s == rs[k + 1][1]
             e == rs[k + 1][2]
  <2>2. k + 1 \in 1 .. Len(rs) /\ (k + 1) - 1 = k /\ k \in 0 .. count - 1 /\ k \in 0 .. Len(rs)
    BY <1>0, <2>1
  <2>3. g[k] = Open(pos, args)
    BY <1>2, <2>2
  <2>4. BulkLine(b, pos, s, e - s)
    BY <2>2 DEF Chain
  <2>5. s \in Nat /\ e \in Nat /\ e + 2 <= Len(b) /\ s + (e - s) = e /\ Len(b) \in Nat
    BY <2>2, ChainEntry
  <2>6. ArgsTo(b, rs, k + 1) = Append(args, SubSeq(b, s + 1, e))
    BY <2>1, <2>2, ArgsGrow
  <2>7. BulkPos(first, rs, k + 1) = e + 2
    BY <2>2 DEF BulkPos
  <2> HIDE DEF pos, args, s, e
  <2>8. OneShotBulk(b, Open(pos, args)) =
          Open(s + (e - s) + 2, Append(args, SubSeq(b, s + 1, s + (e - s))))
    <3>1. ~(Len(b) < s + (e - s) + 2)
      BY <2>5
    <3>2. QED
      BY <2>4, <3>1, BulkOfLine
  <2>9. g[k + 1] = OneShotBulk(b, Open(pos, args))
    <3>1. Open(pos, args).is = "Open"
      BY DEF Open
    <3>2. QED
      BY <2>2, <2>3, <3>1 DEF BulkRun, NextBulk
  <2>10. g[k + 1] = Open(e + 2, Append(args, SubSeq(b, s + 1, e)))
    BY <2>5, <2>8, <2>9
  <2>11. QED
    BY <2>6, <2>7, <2>10
<1>3. \A k \in Nat : k \in T
  <2> HIDE DEF T
  <2>1. QED
    BY <1>1, <1>2, Induction
<1>4. QED
  BY <1>0, <1>3

(* The header of a frame of count bulks, the first of them at first.       *)
CountLine(b, count, first) ==
  /\ b # <<>> /\ b[1] = Star
  /\ line_end(b, 1, 1).line = "Found" /\ line_end(b, 1, 1).next = first
  /\ parse_i64_strict(line_end(b, 1, 1).text) = count
  /\ count \in Nat \ {0} /\ count # Nil /\ ~(count > MULTIBULK_MAX)

LEMMA CountLineFresh ==
  ASSUME NEW b \in Seq(Byte), NEW count, NEW first, CountLine(b, count, first)
  PROVE  first \in 1 .. Len(b) /\ count \in Nat /\ OneShot(b) = OneShotBulks(b, first, count)
<1> DEFINE l == line_end(b, 1, 1)
<1>1. 1 <= Len(b) /\ Len(b) \in Nat
  BY DEF CountLine
<1>2. l.line = "Found" /\ l.next = first /\ parse_i64_strict(l.text) = count
      /\ count \in Nat /\ count # 0 /\ count # Nil /\ ~(count > MULTIBULK_MAX)
      /\ b # <<>> /\ b[1] = Star
  BY DEF CountLine
<1>3. l.next \in 1 + 2 .. Len(b)
  BY <1>1, <1>2, FoundLine
<1> HIDE DEF l
<1>4. ~(count <= 0) /\ ~(l.line = "Malformed" \/ count = Nil \/ count > MULTIBULK_MAX)
  BY <1>2
<1>5. OneShotMbulk(b) = OneShotBulks(b, first, count)
  BY <1>2, <1>4 DEF OneShotMbulk, l
<1>6. QED
  BY <1>1, <1>2, <1>3, <1>5 DEF OneShot

(* The arguments so far, count bulks in all: the frame is done, or it      *)
(* comes to what the next bulk does unless that is an argument too.        *)
LEMMA ChainFresh ==
  ASSUME NEW b \in Seq(Byte), NEW count, NEW first, CountLine(b, count, first),
         NEW rs, Chain(b, first, rs), Len(rs) <= count, NEW pos, NEW args,
         pos = BulkPos(first, rs, Len(rs)), args = ArgsTo(b, rs, Len(rs))
  PROVE  /\ Len(rs) = count => OneShot(b) = Done(Command(args), pos)
         /\ Len(rs) < count /\ OneShotBulk(b, Open(pos, args)).is # "Open" =>
              OneShot(b) = OneShotBulk(b, Open(pos, args))
<1>1. first \in 1 .. Len(b) /\ count \in Nat /\ OneShot(b) = OneShotBulks(b, first, count)
  BY CountLineFresh
<1>2. PICK g : BulkRun(b, first, count, g) /\ OneShotBulks(b, first, count) = EndOfRun(g[count])
  BY <1>1, BulkRunExists
<1>3. g[Len(rs)] = Open(pos, args)
  BY <1>1, <1>2, ChainOpens
<1>4. Open(pos, args).is = "Open" /\ Open(pos, args).args = args /\ Open(pos, args).pos = pos
  BY DEF Open
<1>5. Len(rs) = count => OneShot(b) = Done(Command(args), pos)
  BY <1>1, <1>2, <1>3, <1>4 DEF EndOfRun
<1>6. ASSUME Len(rs) < count, OneShotBulk(b, Open(pos, args)).is # "Open"
      PROVE  OneShot(b) = OneShotBulk(b, Open(pos, args))
  <2> DEFINE k == Len(rs)
  <2>1. k \in 0 .. count - 1 /\ k + 1 \in 0 .. count
    BY <1>1, <1>6 DEF Chain
  <2>2. g[k + 1] = OneShotBulk(b, Open(pos, args))
    BY <1>2, <1>3, <1>4, <2>1 DEF BulkRun, NextBulk
  <2> HIDE DEF k
  <2>a. g[k + 1].is # "Open"
    BY <1>6, <2>2
  <2>3. g[count] = g[k + 1]
    BY <1>1, <1>2, <2>1, <2>a, RunStops
  <2>4. QED
    BY <1>1, <1>2, <1>6, <2>2, <2>3 DEF EndOfRun
<1>7. QED
  BY <1>5, <1>6

(* What the parser may have recorded of a half-read frame that is the      *)
(* buffer b: everything it resumes from is so in b.                        *)
InMbulkHeader(b, st) ==
  \E s \in 1 .. Len(b) :
    st = MbulkHeader(s) /\ b # <<>> /\ b[1] = Star /\ NoCR(b, 1, s)
AtBulk(b, rs, count, first, pos) ==
  /\ CountLine(b, count, first) /\ Chain(b, first, rs)
  /\ Len(rs) < count /\ pos = BulkPos(first, rs, Len(rs))
InBulkHeader(b, st, rs) ==
  \E count, first, pos : \E s \in 0 .. Len(b) :
    /\ st = BulkHeader(pos, count - Len(rs), s)
    /\ AtBulk(b, rs, count, first, pos) /\ NoCR(b, pos + 1, s)
InBulkBody(b, st, rs) ==
  \E count, first, pos, start, len :
    /\ st = BulkBody(start, len, (count - Len(rs)) - 1)
    /\ AtBulk(b, rs, count, first, pos) /\ BulkLine(b, pos, start, len)
InInline(b, st) ==
  \E s \in 0 .. Len(b) :
    st = Inline(s) /\ b # <<>> /\ b[1] # Star /\ \A i \in 0 .. s - 1 : b[i + 1] # LF
Resumes(b, st, rs) ==
  \/ st = Start
  \/ InMbulkHeader(b, st)
  \/ InBulkHeader(b, st, rs)
  \/ InBulkBody(b, st, rs)
  \/ InInline(b, st)

(* All of it survives the arrival of more bytes.                           *)
LEMMA BulkLineGrows ==
  ASSUME NEW b, NEW c, Grows(b, c), NEW pos, NEW start, NEW len, BulkLine(b, pos, start, len)
  PROVE  BulkLine(c, pos, start, len)
<1>1. pos \in 1 .. Len(b) - 1 /\ Len(b) \in Nat /\ Len(c) \in Nat /\ Len(b) <= Len(c)
  BY DEF BulkLine, Grows
<1>2. pos + 1 \in Nat /\ pos + 1 \in 1 .. Len(b) /\ pos \in 1 .. Len(c) - 1
  BY <1>1
<1>3. c[pos + 1] = b[pos + 1]
  BY <1>2 DEF Grows
<1>4. line_end(c, pos + 1, pos + 1) = line_end(b, pos + 1, pos + 1)
  BY <1>2, LineGrows DEF BulkLine
<1>5. QED
  BY <1>2, <1>3, <1>4 DEF BulkLine

LEMMA AtBulkGrows ==
  ASSUME NEW b, NEW c, Grows(b, c), NEW rs, NEW count, NEW first, NEW pos,
         AtBulk(b, rs, count, first, pos)
  PROVE  AtBulk(c, rs, count, first, pos)
<1>0. b \in Seq(Byte) /\ c \in Seq(Byte) /\ Len(b) \in Nat /\ Len(c) \in Nat /\ Len(b) <= Len(c)
  BY DEF Grows
<1>1. CountLine(c, count, first)
  <2>1. CountLine(b, count, first)
    BY DEF AtBulk
  <2>2. 1 \in 1 .. Len(b)
    BY <1>0, <2>1 DEF CountLine
  <2>3. c # <<>> /\ c[1] = b[1]
    BY <1>0, <2>2 DEF Grows
  <2>4. line_end(c, 1, 1) = line_end(b, 1, 1)
    BY <2>1, LineGrows DEF CountLine
  <2>5. QED
    BY <2>1, <2>3, <2>4 DEF CountLine
<1>2. Chain(c, first, rs)
  <2>1. rs \in Seq(Nat \X Nat)
    BY DEF AtBulk, Chain
  <2>2. ASSUME NEW k \in 1 .. Len(rs)
        PROVE  /\ BulkLine(c, BulkPos(first, rs, k - 1), rs[k][1], rs[k][2] - rs[k][1])
               /\ rs[k][2] + 2 <= Len(c)
    <3>1. /\ BulkLine(b, BulkPos(first, rs, k - 1), rs[k][1], rs[k][2] - rs[k][1])
          /\ rs[k][2] + 2 <= Len(b)
      BY DEF AtBulk, Chain
    <3>2. BulkLine(c, BulkPos(first, rs, k - 1), rs[k][1], rs[k][2] - rs[k][1])
      BY <3>1, BulkLineGrows
    <3>3. rs[k][2] \in Nat
      BY <2>1
    <3>4. QED
      BY <1>0, <3>1, <3>2, <3>3
  <2>3. QED
    BY <2>1, <2>2 DEF Chain
<1>3. QED
  BY <1>1, <1>2 DEF AtBulk

LEMMA NoCRGrows ==
  ASSUME NEW b, NEW c, Grows(b, c), NEW lo \in Nat, NEW s \in 0 .. Len(b), NoCR(b, lo, s)
  PROVE  NoCR(c, lo, s) /\ s \in 0 .. Len(c)
<1>0. Len(b) \in Nat /\ Len(c) \in Nat /\ Len(b) <= Len(c)
  BY DEF Grows
<1>1. \A i \in lo .. s - 1 : i + 1 \in 1 .. Len(b)
  BY <1>0
<1>2. QED
  BY <1>0, <1>1 DEF NoCR, Grows

LEMMA AtBulkPos ==
  ASSUME NEW b \in Seq(Byte), NEW rs, NEW count, NEW first, NEW pos,
         AtBulk(b, rs, count, first, pos)
  PROVE  /\ pos \in 1 .. Len(b) /\ Len(rs) \in Nat /\ count \in Nat /\ Len(b) \in Nat
         /\ first \in 1 .. Len(b) /\ rs \in Seq(Nat \X Nat)
<1>1. Len(rs) \in Nat /\ rs \in Seq(Nat \X Nat) /\ Chain(b, first, rs)
      /\ CountLine(b, count, first) /\ pos = BulkPos(first, rs, Len(rs))
  BY DEF AtBulk, Chain
<1>2. first \in 1 .. Len(b) /\ count \in Nat
  BY <1>1, CountLineFresh
<1>3. pos \in 1 .. Len(b)
  <2>1. CASE Len(rs) = 0
    BY <1>1, <1>2, <2>1 DEF BulkPos
  <2>2. CASE Len(rs) # 0
    <3>1. Len(rs) \in 1 .. Len(rs)
      BY <1>1, <2>2
    <3>2. rs[Len(rs)][2] \in Nat /\ rs[Len(rs)][2] + 2 <= Len(b)
      BY <1>1, <3>1, ChainEntry
    <3>3. QED
      BY <1>1, <2>2, <3>2 DEF BulkPos
  <2>3. QED
    BY <2>1, <2>2
<1>4. QED
  BY <1>1, <1>2, <1>3

LEMMA ResumesGrows ==
  ASSUME NEW b, NEW c, Grows(b, c), NEW st, NEW rs, Resumes(b, st, rs)
  PROVE  Resumes(c, st, rs)
<1>0. b \in Seq(Byte) /\ c \in Seq(Byte) /\ Len(b) \in Nat /\ Len(c) \in Nat /\ Len(b) <= Len(c)
  BY DEF Grows
<1>a. b # <<>> => c # <<>> /\ c[1] = b[1]
  <2>1. b # <<>> => 1 \in 1 .. Len(b)
    BY <1>0
  <2>2. QED
    BY <1>0, <2>1 DEF Grows
<1>1. CASE st = Start
  BY <1>1 DEF Resumes
<1>2. CASE InMbulkHeader(b, st)
  <2>1. PICK s \in 1 .. Len(b) : st = MbulkHeader(s) /\ b # <<>> /\ b[1] = Star /\ NoCR(b, 1, s)
    BY <1>2 DEF InMbulkHeader
  <2>2. NoCR(c, 1, s)
    BY <1>0, <2>1, NoCRGrows
  <2>3. s \in 1 .. Len(c)
    BY <1>0
  <2>4. QED
    BY <1>a, <2>1, <2>2, <2>3 DEF Resumes, InMbulkHeader
<1>3. CASE InBulkHeader(b, st, rs)
  <2>1. PICK count, first, pos : \E s \in 0 .. Len(b) :
          /\ st = BulkHeader(pos, count - Len(rs), s)
          /\ AtBulk(b, rs, count, first, pos) /\ NoCR(b, pos + 1, s)
    BY <1>3 DEF InBulkHeader
  <2>2. PICK s \in 0 .. Len(b) :
          /\ st = BulkHeader(pos, count - Len(rs), s)
          /\ AtBulk(b, rs, count, first, pos) /\ NoCR(b, pos + 1, s)
    BY <2>1
  <2>3. AtBulk(c, rs, count, first, pos)
    BY <2>2, AtBulkGrows
  <2>4. pos + 1 \in Nat
    BY <1>0, <2>2, AtBulkPos
  <2>5. NoCR(c, pos + 1, s) /\ s \in 0 .. Len(c)
    BY <2>2, <2>4, NoCRGrows
  <2>6. QED
    BY <2>2, <2>3, <2>5 DEF Resumes, InBulkHeader
<1>4. CASE InBulkBody(b, st, rs)
  <2>1. PICK count, first, pos, start, len :
          /\ st = BulkBody(start, len, (count - Len(rs)) - 1)
          /\ AtBulk(b, rs, count, first, pos) /\ BulkLine(b, pos, start, len)
    BY <1>4 DEF InBulkBody
  <2>2. AtBulk(c, rs, count, first, pos) /\ BulkLine(c, pos, start, len)
    BY <2>1, AtBulkGrows, BulkLineGrows
  <2>3. QED
    BY <2>1, <2>2 DEF Resumes, InBulkBody
<1>5. CASE InInline(b, st)
  <2>1. PICK s \in 0 .. Len(b) :
          st = Inline(s) /\ b # <<>> /\ b[1] # Star /\ \A i \in 0 .. s - 1 : b[i + 1] # LF
    BY <1>5 DEF InInline
  <2>2. s \in 0 .. Len(c)
    BY <1>0
  <2>3. \A i \in 0 .. s - 1 : c[i + 1] # LF
    <3>1. \A i \in 0 .. s - 1 : i + 1 \in 1 .. Len(b)
      BY <1>0
    <3>2. QED
      BY <2>1, <3>1 DEF Grows
  <2>4. QED
    BY <1>a, <2>1, <2>2, <2>3 DEF Resumes, InInline
<1>6. QED
  BY <1>1, <1>2, <1>3, <1>4, <1>5 DEF Resumes

(* A request that is not refused takes some of the bytes it is made of.    *)
Takes(b, f) == f # Waits /\ f.out.is # "Error" => f.used \in 1 .. Len(b)

LEMMA RefusalTakes ==
  ASSUME NEW b, NEW e
  PROVE  Takes(b, Refusal(e)) /\ Refusal(e) # Waits /\ Refusal(e).out = ProtoError(e)
<1>1. Refusal(e).out = ProtoError(e) /\ ProtoError(e).is = "Error" /\ Refusal(e).is = "Done"
  BY DEF Refusal, Done, ProtoError
<1>2. Waits.is = "Waits"
  BY DEF Waits
<1>3. QED
  BY <1>1, <1>2 DEF Takes

LEMMA DoneTakes ==
  ASSUME NEW b, NEW out, NEW used \in 1 .. Len(b)
  PROVE  Takes(b, Done(out, used)) /\ Done(out, used) # Waits
<1>1. Done(out, used).used = used /\ Done(out, used).is = "Done"
  BY DEF Done
<1>2. Waits.is = "Waits"
  BY DEF Waits
<1>3. QED
  BY <1>1, <1>2 DEF Takes

LEMMA FreshTakes ==
  ASSUME NEW b \in Seq(Byte)
  PROVE  Takes(b, OneShot(b))
<1>0. Len(b) \in Nat /\ Takes(b, Waits)
  BY DEF Takes
<1>1. CASE b = <<>>
  BY <1>0, <1>1 DEF OneShot
<1>2. CASE b # <<>> /\ b[1] = Star
  <2> DEFINE l == line_end(b, 1, 1)
             count == parse_i64_strict(l.text)
  <2>0. OneShot(b) = OneShotMbulk(b) /\ 1 <= Len(b)
    BY <1>0, <1>2 DEF OneShot
  <2>1. LineIs(b, 1, l)
    BY <2>0, LineEndIs
  <2>2. CASE l.line = "Incomplete"
    <3> HIDE DEF l
    <3>1. OneShotMbulk(b) = Refusal("TooBigMbulkCount") \/ OneShotMbulk(b) = Waits
      BY <2>2 DEF OneShotMbulk, l
    <3>2. QED
      BY <1>0, <2>0, <3>1, RefusalTakes
  <2>3. CASE l.line # "Incomplete" /\ (l.line = "Malformed" \/ count = Nil \/ count > MULTIBULK_MAX)
    <3> HIDE DEF l
    <3>1. OneShotMbulk(b) = Refusal("InvalidMultibulkLength")
      BY <2>3 DEF OneShotMbulk, l
    <3>2. QED
      BY <2>0, <3>1, RefusalTakes
  <2>4. CASE l.line # "Incomplete" /\ ~(l.line = "Malformed" \/ count = Nil \/ count > MULTIBULK_MAX)
    <3>0. l.line = "Found"
      <4> HIDE DEF l
      <4>1. QED
        BY <2>1, <2>4 DEF LineIs
    <3>1. l.next \in 1 + 2 .. Len(b) /\ count \in Int \cup {Nil}
      <4> HIDE DEF count
      <4>1. QED
        BY <2>0, <3>0, FoundLine DEF count
    <3>2. l.next \in 1 .. Len(b) /\ count \in Int
      <4> HIDE DEF l, count
      <4>1. QED
        BY <1>0, <2>4, <3>1
    <3>3. CASE count <= 0
      <4> HIDE DEF l
      <4>1. OneShotMbulk(b) = Done(Empty, l.next)
        BY <2>4, <3>3 DEF OneShotMbulk, l
      <4>2. QED
        BY <2>0, <3>2, <4>1, DoneTakes
    <3>4. CASE ~(count <= 0)
      <4>1. count \in Nat
        <5> HIDE DEF count
        <5>1. QED
          BY <3>2, <3>4
      <4> HIDE DEF l
      <4>2. OneShotMbulk(b) = OneShotBulks(b, l.next, count)
        BY <2>4, <3>4 DEF OneShotMbulk, l
      <4> HIDE DEF count
      <4>3. PICK g : BulkRun(b, l.next, count, g) /\ OneShotBulks(b, l.next, count) = EndOfRun(g[count])
        BY <3>2, <4>1, BulkRunExists
      <4> DEFINE o == g[count]
      <4>4. o \in Results(b)
        BY <4>1, <4>3 DEF BulkRun
      <4> HIDE DEF o
      <4>5. Takes(b, EndOfRun(o))
        <5>1. CASE o.is # "Open"
          BY <1>0, <4>4, <5>1, ResultIs, RefusalTakes DEF EndOfRun
        <5>2. CASE o.is = "Open"
          <6>1. PICK p \in 1 .. Len(b), a \in Seq(Seq(Byte)) : o = Open(p, a)
            BY <4>4, <5>2, ResultIs
          <6>2. o.pos = p
            BY <6>1 DEF Open
          <6>3. QED
            BY <5>2, <6>2, DoneTakes DEF EndOfRun
        <5>3. QED
          BY <5>1, <5>2
      <4>6. QED
        BY <2>0, <4>2, <4>3, <4>5 DEF o
    <3>5. QED
      BY <3>3, <3>4
  <2>5. QED
    BY <2>2, <2>3, <2>4
<1>3. CASE b # <<>> /\ b[1] # Star
  <2> DEFINE nls == {i \in 0 .. Len(b) - 1 : b[i + 1] = LF}
             nl == Seqs!Min(nls)
             args == split_inline(SubSeq(b, 1, IF nl > 0 /\ b[nl] = CR THEN nl - 1 ELSE nl))
  <2>0. OneShot(b) = OneShotInline(b)
    BY <1>3 DEF OneShot
  <2>1. nls # {} => nl + 1 \in 1 .. Len(b)
    <3>1. nls \in SUBSET Nat
      BY <1>0
    <3> HIDE DEF nls
    <3>2. nls # {} => nl \in nls
      BY <3>1, MinIsLeast
    <3> HIDE DEF nl
    <3>3. QED
      BY <1>0, <3>2 DEF nls
  <2> DEFINE x == IF args = <<>> THEN Empty ELSE Command(args)
  <2> HIDE DEF args, nl, nls
  <2>2. \/ OneShotInline(b) = Waits
        \/ OneShotInline(b) = Refusal("TooBigInline")
        \/ OneShotInline(b) = Refusal("UnbalancedQuotes")
        \/ nls # {} /\ OneShotInline(b) = Done(x, nl + 1)
    BY DEF OneShotInline, nls, nl, args
  <2>3. QED
    BY <1>0, <2>0, <2>1, <2>2, RefusalTakes, DoneTakes
<1>4. QED
  BY <1>1, <1>2, <1>3

(* What may come of the bytes behind p, where g says it of those further   *)
(* behind.                                                                 *)
Follow(p, f, g) == IF f.out.is = "Error" THEN {<<>>} ELSE g[p + f.used]
Stage(bytes, p, g) ==
  (IF OneShot(SubSeq(bytes, p + 1, Len(bytes))) = Waits THEN {<<>>} ELSE {})
  \cup UNION {{<<f.out>> \o rest :
                rest \in IF f.out.is = "Error" THEN {<<>>} ELSE g[p + f.used]} :
              f \in Finished(bytes, p)}

OfFrame(bytes, p, g, x) ==
  \E f \in Finished(bytes, p) : \E rest \in Follow(p, f, g) : x = <<f.out>> \o rest
OfNothing(bytes, p, x) == OneShot(SubSeq(bytes, p + 1, Len(bytes))) = Waits /\ x = <<>>

LEMMA StageMember ==
  ASSUME NEW bytes, NEW p, NEW g, NEW x
  PROVE  x \in Stage(bytes, p, g) <=> OfNothing(bytes, p, x) \/ OfFrame(bytes, p, g, x)
<1> DEFINE F == Finished(bytes, p)
           W(f) == {<<f.out>> \o rest : rest \in IF f.out.is = "Error" THEN {<<>>} ELSE g[p + f.used]}
           V == IF OneShot(SubSeq(bytes, p + 1, Len(bytes))) = Waits THEN {<<>>} ELSE {}
<1>1. Stage(bytes, p, g) = V \cup UNION {W(f) : f \in F}
  BY DEF Stage
<1>2. \A f : x \in W(f) <=> \E rest \in Follow(p, f, g) : x = <<f.out>> \o rest
  BY DEF Follow
<1>3. x \in V <=> OneShot(SubSeq(bytes, p + 1, Len(bytes))) = Waits /\ x = <<>>
  OBVIOUS
<1> HIDE DEF F, W, V
<1>4. x \in UNION {W(f) : f \in F} <=> \E f \in F : x \in W(f)
  OBVIOUS
<1>5. QED
  BY <1>1, <1>2, <1>3, <1>4 DEF F, OfNothing, OfFrame

(* A finished frame at p, of the bytes up to some q.                       *)
LEMMA FinishedTakes ==
  ASSUME NEW bytes \in Seq(Byte), NEW p \in 0 .. Len(bytes), NEW f \in Finished(bytes, p)
  PROVE  /\ f # Waits /\ Len(bytes) \in Nat
         /\ f.out.is # "Error" => f.used \in 1 .. Len(bytes) - p
         /\ \E q \in p .. Len(bytes) : f = OneShot(SubSeq(bytes, p + 1, q))
<1>1. PICK q \in p .. Len(bytes) : f = OneShot(SubSeq(bytes, p + 1, q)) /\ f # Waits
  BY DEF Finished
<1> DEFINE b == SubSeq(bytes, p + 1, q)
<1>2. b \in Seq(Byte) /\ Len(b) = q - p /\ Len(bytes) \in Nat /\ q \in Nat
  OBVIOUS
<1> HIDE DEF b
<1>3. f = OneShot(b)
  BY <1>1 DEF b
<1>4. Takes(b, f)
  BY <1>2, <1>3, FreshTakes
<1>5. f.out.is # "Error" => f.used \in 1 .. Len(bytes) - p
  <2>1. SUFFICES ASSUME f.out.is # "Error" PROVE f.used \in 1 .. Len(bytes) - p
    OBVIOUS
  <2>2. f.used \in 1 .. q - p
    BY <1>1, <1>2, <1>4, <2>1 DEF Takes
  <2>3. QED
    BY <1>2, <2>2
<1>6. QED
  BY <1>1, <1>2, <1>5

(* All that can be yielded of the bytes.                                   *)
OutsOf(bytes) ==
  {OneShot(SubSeq(bytes, w[1] + 1, w[2])).out : w \in (0 .. Len(bytes)) \X (0 .. Len(bytes))}

LEMMA FinishedOut ==
  ASSUME NEW bytes \in Seq(Byte), NEW p \in 0 .. Len(bytes), NEW f \in Finished(bytes, p)
  PROVE  f.out \in OutsOf(bytes)
<1> DEFINE S == 0 .. Len(bytes)
           out(a, q) == OneShot(SubSeq(bytes, a + 1, q)).out
<1>1. PICK q \in p .. Len(bytes) : f = OneShot(SubSeq(bytes, p + 1, q))
  BY FinishedTakes
<1>2. q \in S /\ p \in S /\ f.out = out(p, q)
  BY <1>1
<1> HIDE DEF S, out
<1>3. <<p, q>> \in S \X S /\ <<p, q>>[1] = p /\ <<p, q>>[2] = q
  BY <1>2
<1>4. f.out \in {out(w[1], w[2]) : w \in S \X S}
  BY <1>2, <1>3
<1>5. QED
  BY <1>4 DEF OutsOf, S, out

(* The family of which Meaning is the member at 0.                         *)
IsFrom(bytes, g) == g = [p \in 0 .. Len(bytes) |-> Stage(bytes, p, g)]

LEMMA FromExists ==
  ASSUME NEW bytes \in Seq(Byte)
  PROVE  \E g : IsFrom(bytes, g)
<1> DEFINE n == Len(bytes)
           S == 0 .. n
           Outs == OutsOf(bytes)
           A == SUBSET Seq(Outs)
           m == [p \in S |-> n - p]
           step == [w \in S \X [S -> A] |-> Stage(bytes, w[1], w[2])]
<1>0. n \in Nat
  OBVIOUS
<1>1. ASSUME NEW p \in S, NEW f \in Finished(bytes, p)
      PROVE  /\ f.out \in Outs
             /\ f.out.is # "Error" => p + f.used \in S /\ m[p + f.used] < m[p]
  <2>1. f.out.is # "Error" => f.used \in 1 .. n - p
    BY FinishedTakes
  <2>4. f.out \in Outs
    BY FinishedOut
  <2>5. ASSUME f.out.is # "Error" PROVE p + f.used \in S /\ m[p + f.used] < m[p]
    <3>1. f.used \in 1 .. n - p
      BY <2>1, <2>5
    <3> HIDE DEF n
    <3>2. QED
      BY <1>0, <3>1
  <2>6. QED
    BY <2>4, <2>5
<1> HIDE DEF Outs, n
<1>2. ASSUME NEW p \in S, NEW g \in [S -> A] PROVE Stage(bytes, p, g) \in A
  <2>1. ASSUME NEW x \in Stage(bytes, p, g) PROVE x \in Seq(Outs)
    <3>1. CASE x = <<>>
      BY <3>1
    <3>2. CASE \E f \in Finished(bytes, p) : \E rest \in Follow(p, f, g) : x = <<f.out>> \o rest
      <4>1. PICK f \in Finished(bytes, p) : \E rest \in Follow(p, f, g) : x = <<f.out>> \o rest
        BY <3>2
      <4>2. PICK rest \in Follow(p, f, g) : x = <<f.out>> \o rest
        BY <4>1
      <4>3. f.out \in Outs
        BY <1>1
      <4>4. rest \in Seq(Outs)
        <5>1. CASE f.out.is = "Error"
          BY <5>1 DEF Follow
        <5>2. CASE f.out.is # "Error"
          <6>1. p + f.used \in S
            BY <1>1, <5>2
          <6>2. g[p + f.used] \in A
            <7> HIDE DEF S, A
            <7>1. QED
              BY <6>1
          <6>3. QED
            BY <5>2, <6>2 DEF Follow
        <5>3. QED
          BY <5>1, <5>2
      <4>5. QED
        BY <4>2, <4>3, <4>4
    <3>3. OfNothing(bytes, p, x) \/ OfFrame(bytes, p, g, x)
      BY StageMember
    <3>4. QED
      BY <3>1, <3>2, <3>3 DEF OfNothing, OfFrame
  <2>2. QED
    BY <2>1
<1>3. ASSUME NEW p \in S, NEW g \in [S -> A], NEW h \in [S -> A],
             \A y \in S : m[y] < m[p] => g[y] = h[y]
      PROVE  Stage(bytes, p, g) = Stage(bytes, p, h)
  <2>1. ASSUME NEW f \in Finished(bytes, p) PROVE Follow(p, f, g) = Follow(p, f, h)
    <3>1. CASE f.out.is = "Error"
      BY <3>1 DEF Follow
    <3>2. CASE f.out.is # "Error"
      <4>1. p + f.used \in S /\ m[p + f.used] < m[p]
        BY <1>1, <3>2
      <4> HIDE DEF S, m, A
      <4>2. g[p + f.used] = h[p + f.used]
        BY <1>3, <4>1
      <4>3. QED
        BY <3>2, <4>2 DEF Follow
    <3>3. QED
      BY <3>1, <3>2
  <2>2. ASSUME NEW x PROVE x \in Stage(bytes, p, g) <=> x \in Stage(bytes, p, h)
    <3>1. OfFrame(bytes, p, g, x) <=> OfFrame(bytes, p, h, x)
      BY <2>1 DEF OfFrame
    <3>2. QED
      BY <3>1, StageMember
  <2>3. QED
    BY <2>2
<1>4. step \in [S \X [S -> A] -> A]
      /\ \A p \in S : \A g \in [S -> A] : step[<<p, g>>] = Stage(bytes, p, g)
  <2> HIDE DEF S, A
  <2>1. \A w \in S \X [S -> A] : Stage(bytes, w[1], w[2]) \in A
    BY <1>2
  <2>2. QED
    BY <2>1
<1>5. m \in [S -> Nat]
  BY <1>0
<1> HIDE DEF S, A, m, step
<1>6. Measured(S, A, m, step)
  <2>1. ASSUME NEW p \in S, NEW g \in [S -> A], NEW h \in [S -> A],
               \A y \in S : m[y] < m[p] => g[y] = h[y]
        PROVE  step[<<p, g>>] = step[<<p, h>>]
    BY <1>3, <1>4, <2>1
  <2>2. QED
    BY <1>4, <1>5, <2>1 DEF Measured
<1>7. PICK g \in [S -> A] : \A p \in S : g[p] = step[<<p, g>>]
  <2>1. {} \in A
    BY DEF A
  <2>2. Solvable(S, A, step)
    BY <1>6, <2>1, MeasuredRecursion
  <2>3. QED
    BY <2>2 DEF Solvable
<1>8. \A p \in S : g[p] = Stage(bytes, p, g)
  BY <1>4, <1>7
<1>9. g = [p \in S |-> Stage(bytes, p, g)]
  BY <1>8
<1>10. QED
  BY <1>9 DEF IsFrom, S, n

From(bytes) == CHOOSE g : IsFrom(bytes, g)

LEMMA FromIs ==
  ASSUME NEW bytes \in Seq(Byte)
  PROVE  /\ Meaning(bytes) = From(bytes)[0]
         /\ \A p \in 0 .. Len(bytes) : From(bytes)[p] = Stage(bytes, p, From(bytes))
<1>1. IsFrom(bytes, From(bytes))
  BY FromExists DEF From
<1>2. Meaning(bytes) = From(bytes)[0]
  BY DEF Meaning, From, IsFrom, Stage
<1> DEFINE g == From(bytes)
<1> HIDE DEF g
<1>3. g = [p \in 0 .. Len(bytes) |-> Stage(bytes, p, g)]
  BY <1>1 DEF IsFrom, g
<1>4. \A p \in 0 .. Len(bytes) : g[p] = Stage(bytes, p, g)
  BY <1>3
<1>5. QED
  BY <1>2, <1>4 DEF g

(* Something comes of any bytes.                                           *)
LEMMA FromInhabited ==
  ASSUME NEW bytes \in Seq(Byte), NEW p \in 0 .. Len(bytes)
  PROVE  From(bytes)[p] # {}
<1> DEFINE n == Len(bytes)
           g == From(bytes)
           T == {k \in Nat : \A i \in 0 .. n : n - i <= k => g[i] # {}}
<1>0. n \in Nat
  OBVIOUS
<1> HIDE DEF g
<1>1. ASSUME NEW k \in Nat, NEW i \in 0 .. n, n - i <= k,
             \A j \in 0 .. n : n - j < k => g[j] # {}
      PROVE  g[i] # {}
  <2> DEFINE f == OneShot(SubSeq(bytes, i + 1, n))
  <2>1. g[i] = Stage(bytes, i, g)
    BY FromIs DEF g
  <2>2. CASE f = Waits
    <3>1. <<>> \in Stage(bytes, i, g)
      BY <2>2, StageMember DEF OfNothing, n
    <3>2. QED
      BY <2>1, <3>1
  <2>3. CASE f # Waits
    <3>1. f \in Finished(bytes, i)
      <4>1. n \in i .. n
        BY <1>0
      <4>2. QED
        BY <2>3, <4>1 DEF Finished
    <3> HIDE DEF f
    <3>2. Follow(i, f, g) # {}
      <4>1. CASE f.out.is = "Error"
        BY <4>1 DEF Follow
      <4>2. CASE f.out.is # "Error"
        <5>1. f.used \in 1 .. n - i
          BY <3>1, <4>2, FinishedTakes
        <5>2. i + f.used \in 0 .. n /\ n - (i + f.used) < k
          <6> HIDE DEF n
          <6>1. QED
            BY <1>0, <1>1, <5>1
        <5>3. g[i + f.used] # {}
          BY <1>1, <5>2
        <5>4. QED
          BY <4>2, <5>3 DEF Follow
      <4>3. QED
        BY <4>1, <4>2
    <3>3. PICK rest : rest \in Follow(i, f, g)
      BY <3>2
    <3>4. <<f.out>> \o rest \in Stage(bytes, i, g)
      <4>1. OfFrame(bytes, i, g, <<f.out>> \o rest)
        BY <3>1, <3>3 DEF OfFrame
      <4>2. QED
        BY <4>1, StageMember
    <3>5. QED
      BY <2>1, <3>4
  <2>4. QED
    BY <2>2, <2>3
<1> HIDE DEF n
<1>2. 0 \in T
  <2>1. ASSUME NEW i \in 0 .. n, n - i <= 0 PROVE g[i] # {}
    <3>1. \A j \in 0 .. n : n - j < 0 => g[j] # {}
      BY <1>0
    <3>2. QED
      BY <1>1, <2>1, <3>1
  <2>2. QED
    BY <2>1
<1>3. ASSUME NEW k \in Nat, k \in T PROVE k + 1 \in T
  <2>1. ASSUME NEW i \in 0 .. n, n - i <= k + 1 PROVE g[i] # {}
    <3>1. ASSUME NEW j \in 0 .. n, n - j < k + 1 PROVE g[j] # {}
      <4>1. n - j <= k
        BY <1>0, <3>1
      <4>2. QED
        BY <1>3, <4>1
    <3>2. k + 1 \in Nat
      OBVIOUS
    <3>3. QED
      BY <1>1, <2>1, <3>1, <3>2
  <2>2. k + 1 \in Nat
    OBVIOUS
  <2>3. QED
    BY <2>1, <2>2
<1>4. \A k \in Nat : k \in T
  <2> HIDE DEF T
  <2>1. QED
    BY <1>2, <1>3, Induction
<1>5. n \in T /\ p \in 0 .. n /\ n - p <= n
  <2>1. p \in 0 .. n
    BY DEF n
  <2>2. n \in T
    <3> HIDE DEF T
    <3>1. QED
      BY <1>0, <1>4
  <2>3. QED
    BY <1>0, <2>1, <2>2
<1>6. g[p] # {}
  BY <1>5
<1>7. QED
  BY <1>6 DEF g

(* All that comes of bytes is sequences of what they yield.                *)
LEMMA FromSeqs ==
  ASSUME NEW bytes \in Seq(Byte), NEW p \in 0 .. Len(bytes)
  PROVE  From(bytes)[p] \subseteq Seq(OutsOf(bytes))
<1> DEFINE n == Len(bytes)
           g == From(bytes)
           Q == Seq(OutsOf(bytes))
           T == {k \in Nat : \A i \in 0 .. n : n - i <= k => g[i] \subseteq Q}
<1>0. n \in Nat
  OBVIOUS
<1>e. <<>> \in Q
  OBVIOUS
<1> HIDE DEF g
<1>1. ASSUME NEW k \in Nat, NEW i \in 0 .. n, n - i <= k,
             \A j \in 0 .. n : n - j < k => g[j] \subseteq Q
      PROVE  g[i] \subseteq Q
  <2>1. g[i] = Stage(bytes, i, g)
    BY FromIs DEF g
  <2>2. ASSUME NEW x \in Stage(bytes, i, g) PROVE x \in Q
    <3>1. OfNothing(bytes, i, x) \/ OfFrame(bytes, i, g, x)
      BY StageMember
    <3>2. CASE OfNothing(bytes, i, x)
      BY <1>e, <3>2 DEF OfNothing
    <3>3. CASE OfFrame(bytes, i, g, x)
      <4>1. PICK f \in Finished(bytes, i) : \E rest \in Follow(i, f, g) : x = <<f.out>> \o rest
        BY <3>3 DEF OfFrame
      <4>2. PICK rest \in Follow(i, f, g) : x = <<f.out>> \o rest
        BY <4>1
      <4>3. rest \in Q
        <5>1. CASE f.out.is = "Error"
          BY <1>e, <5>1 DEF Follow
        <5>2. CASE f.out.is # "Error"
          <6>1. f.used \in 1 .. n - i
            BY <5>2, FinishedTakes
          <6>2. i + f.used \in 0 .. n /\ n - (i + f.used) < k
            <7> HIDE DEF n
            <7>1. QED
              BY <1>0, <1>1, <6>1
          <6> HIDE DEF Q, n
          <6>3. g[i + f.used] \subseteq Q
            BY <1>1, <6>2
          <6>4. QED
            BY <5>2, <6>3 DEF Follow
        <5>3. QED
          BY <5>1, <5>2
      <4>4. f.out \in OutsOf(bytes)
        BY FinishedOut
      <4>5. QED
        BY <4>2, <4>3, <4>4
    <3>4. QED
      BY <3>1, <3>2, <3>3
  <2>3. QED
    BY <2>1, <2>2
<1> HIDE DEF n, Q
<1>2. 0 \in T
  <2>1. ASSUME NEW i \in 0 .. n, n - i <= 0 PROVE g[i] \subseteq Q
    <3>1. \A j \in 0 .. n : n - j < 0 => g[j] \subseteq Q
      BY <1>0
    <3>2. QED
      BY <1>1, <2>1, <3>1
  <2>2. QED
    BY <2>1
<1>3. ASSUME NEW k \in Nat, k \in T PROVE k + 1 \in T
  <2>0. k + 1 \in Nat
    OBVIOUS
  <2>1. ASSUME NEW i \in 0 .. n, n - i <= k + 1 PROVE g[i] \subseteq Q
    <3>1. ASSUME NEW j \in 0 .. n, n - j < k + 1 PROVE g[j] \subseteq Q
      <4>1. n - j <= k
        BY <1>0, <3>1
      <4>2. QED
        BY <1>3, <4>1
    <3>3. QED
      BY <1>1, <2>0, <2>1, <3>1
  <2>3. QED
    BY <2>0, <2>1
<1>4. \A k \in Nat : k \in T
  <2> HIDE DEF T
  <2>1. QED
    BY <1>2, <1>3, Induction
<1>5. n \in T /\ p \in 0 .. n /\ n - p <= n
  <2>1. p \in 0 .. n
    BY DEF n
  <2>2. n \in T
    <3> HIDE DEF T
    <3>1. QED
      BY <1>0, <1>4
  <2>3. QED
    BY <1>0, <2>1, <2>2
<1>6. g[p] \subseteq Q
  BY <1>5
<1>7. QED
  BY <1>6 DEF g, Q

(* What was yielded before p, followed by anything that comes of the bytes *)
(* behind p, comes of all the bytes.                                       *)
Leads(bytes, done, p) ==
  /\ done \in Seq(OutsOf(bytes))
  /\ \A t \in From(bytes)[p] : done \o t \in From(bytes)[0]

LEMMA FrameLeads ==
  ASSUME NEW bytes \in Seq(Byte), NEW p \in 0 .. Len(bytes), NEW done, Leads(bytes, done, p),
         NEW f \in Finished(bytes, p)
  PROVE  /\ f.out.is = "Error" => Append(done, f.out) \in From(bytes)[0]
         /\ f.out.is # "Error" => Leads(bytes, Append(done, f.out), p + f.used)
         /\ Append(done, f.out) \in Seq(OutsOf(bytes))
<1> DEFINE Q == OutsOf(bytes)
           o == f.out
           g == From(bytes)
<1>0. o \in Q /\ done \in Seq(Q) /\ Append(done, o) \in Seq(Q) /\ <<o>> \in Seq(Q)
      /\ Append(done, o) = done \o <<o>>
  <2>1. o \in Q /\ done \in Seq(Q)
    BY FinishedOut DEF Leads
  <2> HIDE DEF o, Q
  <2>2. QED
    BY <2>1, AppendIsConcat
<1>1. g[p] = Stage(bytes, p, g)
  BY FromIs
<1>2. ASSUME NEW t \in Follow(p, f, g) PROVE <<o>> \o t \in g[p]
  <2>1. OfFrame(bytes, p, g, <<o>> \o t)
    BY DEF OfFrame
  <2>2. QED
    BY <1>1, <2>1, StageMember
<1>3. ASSUME NEW t \in Follow(p, f, g), t \in Seq(Q) PROVE Append(done, o) \o t \in g[0]
  <2>1. <<o>> \o t \in g[p]
    BY <1>2
  <2>2. done \o (<<o>> \o t) \in g[0]
    BY <2>1 DEF Leads
  <2> HIDE DEF Q, o
  <2>3. (done \o <<o>>) \o t = done \o (<<o>> \o t)
    BY <1>0, <1>3, ConcatAssociative
  <2>4. QED
    BY <1>0, <2>2, <2>3
<1>4. ASSUME o.is = "Error" PROVE Append(done, o) \in g[0]
  <2>1. <<>> \in Follow(p, f, g) /\ <<>> \in Seq(Q)
    BY <1>4 DEF Follow
  <2>2. Append(done, o) \o <<>> \in g[0]
    BY <1>3, <2>1
  <2> HIDE DEF Q, o
  <2>3. Append(done, o) \o <<>> = Append(done, o)
    BY <1>0, ConcatEmptySeq
  <2>4. QED
    BY <2>2, <2>3
<1>5. ASSUME o.is # "Error" PROVE Leads(bytes, Append(done, o), p + f.used)
  <2>1. p + f.used \in 0 .. Len(bytes)
    <3>1. f.used \in 1 .. Len(bytes) - p /\ Len(bytes) \in Nat
      BY <1>5, FinishedTakes
    <3>2. QED
      BY <3>1
  <2>2. g[p + f.used] \subseteq Seq(Q)
    BY <2>1, FromSeqs
  <2>3. Follow(p, f, g) = g[p + f.used]
    BY <1>5 DEF Follow
  <2>4. ASSUME NEW t \in g[p + f.used] PROVE Append(done, o) \o t \in g[0]
    BY <1>3, <2>2, <2>3
  <2>5. QED
    BY <1>0, <2>4 DEF Leads
<1>6. QED
  BY <1>0, <1>4, <1>5

(* What a turn of the parser's loop does, told by what the whole buffer    *)
(* stands for: it goes on, waits, fails, or yields a frame.                *)
Turns ==
  /\ UNCHANGED <<rbuf, parsed, phase>>
  /\ Resumes(rbuf, pstate', ranges')
Stalls ==
  /\ UNCHANGED <<rbuf, parsed>> /\ phase' = "read"
  /\ OneShot(rbuf) = Waits
  /\ Resumes(rbuf, pstate', ranges')
  /\ pstate' = Start => rbuf = <<>>
Fails ==
  /\ phase' = "closed"
  /\ \E e : OneShot(rbuf) = Refusal(e) /\ parsed' = Append(parsed, ProtoError(e))
Yields ==
  \E out, n : out.is # "Error" /\ OneShot(rbuf) = Done(out, n) /\ Yield(out, n)
TurnIs == Turns \/ Stalls \/ Fails \/ Yields

(* The state tells which of the records holds.                             *)
LEMMA ResumesAt ==
  ASSUME NEW b, NEW st, NEW rs, Resumes(b, st, rs)
  PROVE  /\ st.at = "MbulkHeader" => InMbulkHeader(b, st)
         /\ st.at = "BulkHeader" => InBulkHeader(b, st, rs)
         /\ st.at = "BulkBody" => InBulkBody(b, st, rs)
         /\ st.at = "Inline" => InInline(b, st)
<1>1. st = Start => st.at = "Start"
  BY DEF Start
<1>2. InMbulkHeader(b, st) => st.at = "MbulkHeader"
  BY DEF InMbulkHeader, MbulkHeader
<1>3. InBulkHeader(b, st, rs) => st.at = "BulkHeader"
  BY DEF InBulkHeader, BulkHeader
<1>4. InBulkBody(b, st, rs) => st.at = "BulkBody"
  BY DEF InBulkBody, BulkBody
<1>5. InInline(b, st) => st.at = "Inline"
  BY DEF InInline, Inline
<1>6. QED
  BY <1>1, <1>2, <1>3, <1>4, <1>5 DEF Resumes

LEMMA StartTurn ==
  ASSUME rbuf \in Seq(Byte), ParseStart
  PROVE  TurnIs
<1>1. CASE rbuf = <<>>
  <2>1. Incomplete(Start)
    BY <1>1 DEF ParseStart
  <2>2. OneShot(rbuf) = Waits
    BY <1>1 DEF OneShot
  <2>3. Resumes(rbuf, pstate', ranges')
    BY <2>1 DEF Incomplete, Resumes
  <2>4. Stalls
    BY <1>1, <2>1, <2>2, <2>3 DEF Stalls, Incomplete
  <2>5. QED
    BY <2>4 DEF TurnIs
<1>2. CASE rbuf # <<>> /\ rbuf[1] = Star
  <2>1. Go(MbulkHeader(1))
    BY <1>2 DEF ParseStart
  <2>2. 1 \in 1 .. Len(rbuf) /\ NoCR(rbuf, 1, 1)
    BY <1>2 DEF NoCR
  <2>3. InMbulkHeader(rbuf, MbulkHeader(1))
    BY <1>2, <2>2 DEF InMbulkHeader
  <2>4. Turns
    BY <2>1, <2>3 DEF Turns, Go, Resumes
  <2>5. QED
    BY <2>4 DEF TurnIs
<1>3. CASE rbuf # <<>> /\ rbuf[1] # Star
  <2>1. Go(Inline(0))
    BY <1>3 DEF ParseStart
  <2>2. 0 \in 0 .. Len(rbuf) /\ \A i \in 0 .. 0 - 1 : rbuf[i + 1] # LF
    BY <1>3
  <2>3. InInline(rbuf, Inline(0))
    BY <1>3, <2>2 DEF InInline
  <2>4. Turns
    BY <2>1, <2>3 DEF Turns, Go, Resumes
  <2>5. QED
    BY <2>4 DEF TurnIs
<1>4. QED
  BY <1>1, <1>2, <1>3

LEMMA FailTurn ==
  ASSUME NEW e, Fail(e), OneShot(rbuf) = Refusal(e)
  PROVE  TurnIs
BY DEF Fail, Fails, TurnIs

LEMMA WaitTurn ==
  ASSUME NEW st, Incomplete(st), OneShot(rbuf) = Waits, Resumes(rbuf, st, ranges), st.at # "Start"
  PROVE  TurnIs
<1>1. pstate' = st /\ ranges' = ranges /\ phase' = "read" /\ UNCHANGED <<rbuf, parsed>>
  BY DEF Incomplete
<1>2. pstate' # Start
  BY <1>1 DEF Start
<1>3. QED
  BY <1>1, <1>2 DEF Stalls, TurnIs

LEMMA MbulkHeaderTurn ==
  ASSUME rbuf \in Seq(Byte), Resumes(rbuf, pstate, ranges), ParseMbulkHeader
  PROVE  TurnIs
<1> DEFINE b == rbuf
           l == line_end(b, 1, 1)
           count == parse_i64_strict(l.text)
<1>1. InMbulkHeader(b, pstate)
  BY ResumesAt DEF ParseMbulkHeader
<1>2. PICK s \in 1 .. Len(b) : pstate = MbulkHeader(s) /\ b # <<>> /\ b[1] = Star /\ NoCR(b, 1, s)
  BY <1>1 DEF InMbulkHeader
<1>3. pstate.scanned = s /\ Len(b) \in Nat /\ s \in Nat /\ 1 <= Len(b)
  BY <1>2 DEF MbulkHeader
<1>4. line_end(rbuf, 1, pstate.scanned) = l
  BY <1>2, <1>3, LineResumes
<1>5. LineIs(b, 1, l)
  BY <1>3, LineEndIs
<1>6. OneShot(b) = OneShotMbulk(b)
  BY <1>2 DEF OneShot
<1>7. /\ l.line = "Incomplete" =>
           IF Len(rbuf) > INLINE_MAX_SIZE THEN Fail("TooBigMbulkCount")
           ELSE Incomplete(MbulkHeader(l.next))
      /\ l.line = "Malformed" => Fail("InvalidMultibulkLength")
      /\ l.line # "Incomplete" /\ l.line # "Malformed" =>
           IF count = Nil THEN Fail("InvalidMultibulkLength")
           ELSE IF count > MULTIBULK_MAX THEN Fail("InvalidMultibulkLength")
           ELSE IF count <= 0 THEN Yield(Empty, l.next)
           ELSE /\ ranges' = <<>>
                /\ pstate' = BulkHeader(l.next, count, l.next)
                /\ UNCHANGED <<rbuf, parsed, phase>>
  <2> HIDE DEF l
  <2>1. QED
    BY <1>4 DEF ParseMbulkHeader
<1> HIDE DEF l
<1>8. CASE l.line = "Incomplete"
  <2>1. CASE Len(rbuf) > INLINE_MAX_SIZE
    <3>1. OneShot(b) = Refusal("TooBigMbulkCount")
      BY <1>6, <1>8, <2>1 DEF OneShotMbulk, l
    <3>2. Fail("TooBigMbulkCount")
      BY <1>7, <1>8, <2>1
    <3>3. QED
      BY <3>1, <3>2, FailTurn
  <2>2. CASE ~(Len(rbuf) > INLINE_MAX_SIZE)
    <3>1. OneShot(b) = Waits
      BY <1>6, <1>8, <2>2 DEF OneShotMbulk, l
    <3>2. Incomplete(MbulkHeader(l.next))
      BY <1>7, <1>8, <2>2
    <3>3. l.next \in 1 .. Len(b) /\ NoCR(b, 1, l.next)
      BY <1>5, <1>8 DEF LineIs
    <3>5. InMbulkHeader(b, MbulkHeader(l.next))
      BY <1>2, <3>3 DEF InMbulkHeader
    <3>6. Resumes(b, MbulkHeader(l.next), ranges) /\ MbulkHeader(l.next).at # "Start"
      BY <3>5 DEF Resumes, MbulkHeader
    <3>7. QED
      BY <3>1, <3>2, <3>6, WaitTurn
  <2>3. QED
    BY <2>1, <2>2
<1>9. CASE l.line # "Incomplete" /\ (l.line = "Malformed" \/ count = Nil \/ count > MULTIBULK_MAX)
  <2>1. OneShot(b) = Refusal("InvalidMultibulkLength")
    BY <1>6, <1>9 DEF OneShotMbulk, l
  <2>2. Fail("InvalidMultibulkLength")
    BY <1>7, <1>9
  <2>3. QED
    BY <2>1, <2>2, FailTurn
<1>10. CASE l.line # "Incomplete" /\ ~(l.line = "Malformed" \/ count = Nil \/ count > MULTIBULK_MAX)
  <2>1. l.line = "Found"
    BY <1>5, <1>10 DEF LineIs
  <2>2. l.next \in 1 + 2 .. Len(b) /\ count \in Int \cup {Nil}
    BY <1>3, <2>1, FoundLine DEF l
  <2> HIDE DEF count
  <2>3. count \in Int
    BY <1>10, <2>2
  <2>4. CASE count <= 0
    <3>1. OneShot(b) = Done(Empty, l.next)
      BY <1>6, <1>10, <2>4 DEF OneShotMbulk, l, count
    <3>2. Yield(Empty, l.next)
      BY <1>7, <1>10, <2>4
    <3>3. Empty.is # "Error"
      BY DEF Empty
    <3>4. QED
      BY <3>1, <3>2, <3>3 DEF Yields, TurnIs
  <2>5. CASE ~(count <= 0)
    <3>1. /\ ranges' = <<>>
          /\ pstate' = BulkHeader(l.next, count, l.next)
          /\ UNCHANGED <<rbuf, parsed, phase>>
      BY <1>7, <1>10, <2>5
    <3>2. CountLine(b, count, l.next)
      <4>1. count \in Nat \ {0} /\ count # Nil /\ ~(count > MULTIBULK_MAX)
        BY <1>10, <2>3, <2>5
      <4>2. QED
        BY <1>2, <2>1, <4>1 DEF CountLine, l, count
    <3>3. Chain(b, l.next, <<>>) /\ Len(<<>>) = 0 /\ Len(<<>>) < count
      <4>1. <<>> \in Seq(Nat \X Nat) /\ Len(<<>>) = 0
        OBVIOUS
      <4>2. \A k \in 1 .. 0 : FALSE
        OBVIOUS
      <4>3. QED
        BY <2>3, <2>5, <4>1, <4>2 DEF Chain
    <3>4. AtBulk(b, <<>>, count, l.next, l.next)
      BY <3>2, <3>3 DEF AtBulk, BulkPos
    <3>5. NoCR(b, l.next + 1, l.next) /\ l.next \in 0 .. Len(b) /\ count - Len(<<>>) = count
      BY <1>3, <2>2, <2>3, <3>3 DEF NoCR
    <3>6. InBulkHeader(b, BulkHeader(l.next, count, l.next), <<>>)
      <4>1. BulkHeader(l.next, count, l.next) = BulkHeader(l.next, count - Len(<<>>), l.next)
        BY <3>5
      <4>2. QED
        BY <3>4, <3>5, <4>1 DEF InBulkHeader
    <3>7. Turns
      BY <3>1, <3>6 DEF Turns, Resumes
    <3>8. QED
      BY <3>7 DEF TurnIs
  <2>6. QED
    BY <2>4, <2>5
<1>11. QED
  BY <1>8, <1>9, <1>10

(* A bulk that is not an argument decides the frame.                       *)
LEMMA BulkDecides ==
  ASSUME NEW b \in Seq(Byte), NEW rs, NEW count, NEW first, NEW pos,
         AtBulk(b, rs, count, first, pos)
  PROVE  LET fb == OneShotBulk(b, Open(pos, ArgsTo(b, rs, Len(rs))))
         IN fb.is # "Open" => OneShot(b) = fb
<1> DEFINE args == ArgsTo(b, rs, Len(rs))
<1>1. CountLine(b, count, first) /\ Chain(b, first, rs) /\ Len(rs) < count
      /\ pos = BulkPos(first, rs, Len(rs)) /\ args = ArgsTo(b, rs, Len(rs))
  BY DEF AtBulk
<1>2. Len(rs) <= count
  BY <1>1, AtBulkPos
<1> HIDE DEF args
<1>3. OneShotBulk(b, Open(pos, args)).is # "Open" => OneShot(b) = OneShotBulk(b, Open(pos, args))
  BY <1>1, <1>2, ChainFresh
<1>4. QED
  BY <1>3 DEF args

LEMMA BulkHeaderTurn ==
  ASSUME rbuf \in Seq(Byte), Resumes(rbuf, pstate, ranges), ParseBulkHeader
  PROVE  TurnIs
<1> DEFINE b == rbuf
<1>1. InBulkHeader(b, pstate, ranges)
  BY ResumesAt DEF ParseBulkHeader
<1>2. PICK count, first, pos : \E s \in 0 .. Len(b) :
        /\ pstate = BulkHeader(pos, count - Len(ranges), s)
        /\ AtBulk(b, ranges, count, first, pos) /\ NoCR(b, pos + 1, s)
  BY <1>1 DEF InBulkHeader
<1>3. PICK s \in 0 .. Len(b) :
        /\ pstate = BulkHeader(pos, count - Len(ranges), s)
        /\ AtBulk(b, ranges, count, first, pos) /\ NoCR(b, pos + 1, s)
  BY <1>2
<1>4. pstate.pos = pos /\ pstate.scanned = s /\ pstate.remaining = count - Len(ranges)
  BY <1>3 DEF BulkHeader
<1>5. pos \in 1 .. Len(b) /\ Len(b) \in Nat /\ Len(ranges) \in Nat /\ count \in Nat /\ s \in Nat
      /\ pos + 1 \in Nat
  BY <1>3, AtBulkPos
<1> DEFINE l == line_end(b, pos + 1, pos + 1)
           len == parse_i64_strict(l.text)
           args == ArgsTo(b, ranges, Len(ranges))
           o == Open(pos, args)
           fb == OneShotBulk(b, o)
<1>6. line_end(rbuf, pstate.pos + 1, pstate.scanned) = l
  BY <1>3, <1>4, <1>5, LineResumes
<1>7. fb.is # "Open" => OneShot(b) = fb
  BY <1>3, BulkDecides
<1>8. o.pos = pos /\ o.args = args
  BY DEF Open
<1>9. /\ pos >= Len(rbuf) => Incomplete(pstate)
      /\ ~(pos >= Len(rbuf)) /\ rbuf[pos + 1] # Dollar => Fail("ExpectedDollar")
      /\ ~(pos >= Len(rbuf)) /\ rbuf[pos + 1] = Dollar /\ l.line = "Incomplete" =>
           IF Len(rbuf) - pos > INLINE_MAX_SIZE THEN Fail("TooBigBulkCount")
           ELSE Incomplete(BulkHeader(pos, pstate.remaining, l.next))
      /\ ~(pos >= Len(rbuf)) /\ rbuf[pos + 1] = Dollar /\ l.line = "Malformed" =>
           Fail("InvalidBulkLength")
      /\ ~(pos >= Len(rbuf)) /\ rbuf[pos + 1] = Dollar /\ l.line # "Incomplete"
         /\ l.line # "Malformed" =>
           IF len = Nil THEN Fail("InvalidBulkLength")
           ELSE IF len < 0 \/ len > ProtoMaxBulkLen THEN Fail("InvalidBulkLength")
           ELSE Go(BulkBody(l.next, len, pstate.remaining - 1))
  <2> HIDE DEF l, o, fb, args
  <2>1. QED
    BY <1>4, <1>6 DEF ParseBulkHeader
<1>a. /\ Waits.is # "Open"
      /\ \A e : Refusal(e).is # "Open"
  BY DEF Waits, Refusal, Done
<1> HIDE DEF l, len, o, fb, args
<1>10. CASE pos >= Len(b)
  <2>1. fb = Waits
    BY <1>8, <1>10 DEF OneShotBulk, fb
  <2>2. Incomplete(pstate)
    BY <1>9, <1>10
  <2>3. pstate.at # "Start"
    BY DEF ParseBulkHeader
  <2>4. QED
    BY <1>7, <1>a, <2>1, <2>2, <2>3, WaitTurn
<1>11. CASE ~(pos >= Len(b)) /\ b[pos + 1] # Dollar
  <2>1. fb = Refusal("ExpectedDollar")
    BY <1>8, <1>11 DEF OneShotBulk, fb
  <2>2. Fail("ExpectedDollar")
    BY <1>9, <1>11
  <2>3. QED
    BY <1>7, <1>a, <2>1, <2>2, FailTurn
<1>12. CASE ~(pos >= Len(b)) /\ b[pos + 1] = Dollar
  <2>0. pos + 1 <= Len(b) /\ pos \in 1 .. Len(b) - 1
    BY <1>5, <1>12
  <2>1. LineIs(b, pos + 1, l)
    BY <1>5, <2>0, LineEndIs DEF l
  <2>2. CASE l.line = "Incomplete"
    <3>1. CASE Len(b) - pos > INLINE_MAX_SIZE
      <4>1. fb = Refusal("TooBigBulkCount")
        BY <1>8, <1>12, <2>2, <3>1 DEF OneShotBulk, fb, l
      <4>2. Fail("TooBigBulkCount")
        BY <1>9, <1>12, <2>2, <3>1
      <4>3. QED
        BY <1>7, <1>a, <4>1, <4>2, FailTurn
    <3>2. CASE ~(Len(b) - pos > INLINE_MAX_SIZE)
      <4>1. fb = Waits
        BY <1>8, <1>12, <2>2, <3>2 DEF OneShotBulk, fb, l
      <4> DEFINE st == BulkHeader(pos, count - Len(ranges), l.next)
      <4>2. Incomplete(st)
        BY <1>4, <1>9, <1>12, <2>2, <3>2
      <4>3. l.next \in 0 .. Len(b) /\ NoCR(b, pos + 1, l.next)
        BY <1>5, <2>1, <2>2 DEF LineIs
      <4>4. InBulkHeader(b, st, ranges)
        BY <1>3, <4>3 DEF InBulkHeader
      <4>5. st.at # "Start"
        BY DEF BulkHeader
      <4> HIDE DEF st
      <4>6. Resumes(b, st, ranges)
        BY <4>4 DEF Resumes
      <4>7. OneShot(b) = Waits
        BY <1>7, <1>a, <4>1
      <4>8. QED
        BY <4>2, <4>5, <4>6, <4>7, WaitTurn
    <3>3. QED
      BY <3>1, <3>2
  <2>3. CASE l.line # "Incomplete"
             /\ (l.line = "Malformed" \/ len = Nil \/ len < 0 \/ len > ProtoMaxBulkLen)
    <3>1. fb = Refusal("InvalidBulkLength")
      BY <1>8, <1>12, <2>3 DEF OneShotBulk, fb, l, len
    <3>2. Fail("InvalidBulkLength")
      BY <1>9, <1>12, <2>3
    <3>3. QED
      BY <1>7, <1>a, <3>1, <3>2, FailTurn
  <2>4. CASE l.line # "Incomplete"
             /\ ~(l.line = "Malformed" \/ len = Nil \/ len < 0 \/ len > ProtoMaxBulkLen)
    <3>1. l.line = "Found"
      BY <2>1, <2>4 DEF LineIs
    <3>2. len \in Int \cup {Nil}
      BY <1>5, <2>0, <3>1, FoundLine DEF l, len
    <3>3. len \in Nat /\ len # Nil /\ ~(len > ProtoMaxBulkLen)
      BY <2>4, <3>2
    <3>4. BulkLine(b, pos, l.next, len)
      BY <1>12, <2>0, <3>1, <3>3 DEF BulkLine, l, len
    <3> DEFINE st == BulkBody(l.next, len, (count - Len(ranges)) - 1)
    <3>5. Go(st)
      BY <1>4, <1>9, <1>12, <2>4
    <3>6. InBulkBody(b, st, ranges)
      BY <1>3, <3>4 DEF InBulkBody
    <3> HIDE DEF st
    <3>7. Turns
      BY <3>5, <3>6 DEF Turns, Go, Resumes
    <3>8. QED
      BY <3>7 DEF TurnIs
  <2>5. QED
    BY <2>2, <2>3, <2>4
<1>13. QED
  BY <1>10, <1>11, <1>12

LEMMA BulkBodyTurn ==
  ASSUME rbuf \in Seq(Byte), Resumes(rbuf, pstate, ranges), ParseBulkBody
  PROVE  TurnIs
<1> DEFINE b == rbuf
<1>1. InBulkBody(b, pstate, ranges)
  BY ResumesAt DEF ParseBulkBody
<1>2. PICK count, first, pos, start, len :
        /\ pstate = BulkBody(start, len, (count - Len(ranges)) - 1)
        /\ AtBulk(b, ranges, count, first, pos) /\ BulkLine(b, pos, start, len)
  BY <1>1 DEF InBulkBody
<1>3. pstate.start = start /\ pstate.len = len /\ pstate.remaining = (count - Len(ranges)) - 1
  BY <1>2 DEF BulkBody
<1>4. pos \in 1 .. Len(b) /\ Len(b) \in Nat /\ Len(ranges) \in Nat /\ count \in Nat
      /\ ranges \in Seq(Nat \X Nat) /\ Len(ranges) < count /\ first \in 1 .. Len(b)
  BY <1>2, AtBulkPos DEF AtBulk
<1>5. start \in pos + 3 .. Len(b) /\ len \in Nat /\ start \in Nat
  <2>1. start \in pos + 3 .. Len(b) /\ len \in Nat
    BY <1>2, BulkLineStart
  <2>2. QED
    BY <1>4, <2>1
<1> DEFINE after == start + len + 2
           all == Append(ranges, <<start, after - 2>>)
           cmd == [k \in DOMAIN all |-> SubSeq(rbuf, all[k][1] + 1, all[k][2])]
           args == ArgsTo(b, ranges, Len(ranges))
<1>6. /\ Len(b) < after => Incomplete(pstate)
      /\ ~(Len(b) < after) /\ (count - Len(ranges)) - 1 = 0 => Yield(Command(cmd), after)
      /\ ~(Len(b) < after) /\ (count - Len(ranges)) - 1 # 0 =>
           /\ ranges' = all
           /\ pstate' = BulkHeader(after, (count - Len(ranges)) - 1, after)
           /\ UNCHANGED <<rbuf, parsed, phase>>
  BY <1>3 DEF ParseBulkBody
<1>7. CASE Len(b) < after
  <2>1. OneShotBulk(b, Open(pos, args)) = Waits
    BY <1>2, <1>7, BulkOfLine
  <2>2. Waits.is # "Open"
    BY DEF Waits
  <2>3. OneShot(b) = Waits
    <3>1. OneShotBulk(b, Open(pos, args)).is # "Open"
      BY <2>1, <2>2
    <3>2. OneShot(b) = OneShotBulk(b, Open(pos, args))
      BY <1>2, <3>1, BulkDecides
    <3>3. QED
      BY <2>1, <3>2
  <2>4. pstate.at # "Start"
    BY DEF ParseBulkBody
  <2>5. QED
    BY <1>6, <1>7, <2>3, <2>4, WaitTurn
<1>8. CASE ~(Len(b) < after)
  <2> DEFINE n == Len(ranges)
  <2>1. after \in Nat /\ after <= Len(b) /\ after - 2 \in Nat /\ (after - 2) + 2 = after
        /\ (after - 2) - start = len /\ after - 2 = start + len
    BY <1>4, <1>5, <1>8
  <2> HIDE DEF after
  <2>2. all \in Seq(Nat \X Nat) /\ Len(all) = n + 1 /\ all[n + 1] = <<start, after - 2>>
        /\ \A k \in 1 .. n : all[k] = ranges[k]
    <3>1. <<start, after - 2>> \in Nat \X Nat
      BY <1>5, <2>1
    <3>2. QED
      BY <1>4, <3>1, AppendProperties
  <2>3. cmd = ArgsTo(b, all, n + 1)
    <3>1. DOMAIN all = 1 .. n + 1
      BY <2>2
    <3> HIDE DEF all
    <3>2. QED
      BY <3>1 DEF ArgsTo
  <2> HIDE DEF all, cmd
  <2>4. Chain(b, first, all)
    <3>1. ASSUME NEW k \in 1 .. Len(all)
          PROVE  /\ BulkLine(b, BulkPos(first, all, k - 1), all[k][1], all[k][2] - all[k][1])
                 /\ all[k][2] + 2 <= Len(b)
      <4>1. k \in 1 .. n + 1 /\ n \in Nat
        BY <1>4, <2>2
      <4>2. BulkPos(first, all, k - 1) = BulkPos(first, ranges, k - 1)
        <5>1. CASE k = 1
          BY <5>1 DEF BulkPos
        <5>2. CASE k # 1
          <6>1. k - 1 \in 1 .. n /\ k - 1 # 0
            BY <4>1, <5>2
          <6>2. QED
            BY <2>2, <6>1 DEF BulkPos
        <5>3. QED
          BY <5>1, <5>2
      <4>3. CASE k \in 1 .. n
        <5>1. all[k] = ranges[k]
          BY <2>2, <4>3
        <5>2. /\ BulkLine(b, BulkPos(first, ranges, k - 1), ranges[k][1], ranges[k][2] - ranges[k][1])
              /\ ranges[k][2] + 2 <= Len(b)
          BY <1>2, <4>3 DEF AtBulk, Chain
        <5>3. QED
          BY <4>2, <5>1, <5>2
      <4>4. CASE k = n + 1
        <5>1. all[k][1] = start /\ all[k][2] = after - 2
          BY <2>2, <4>4
        <5>2. BulkPos(first, ranges, k - 1) = pos
          <6>1. k - 1 = Len(ranges)
            BY <4>1, <4>4
          <6>2. QED
            BY <1>2, <6>1 DEF AtBulk
        <5>3. all[k][2] - all[k][1] = len
          BY <2>1, <5>1
        <5>4. QED
          BY <1>2, <2>1, <4>2, <5>1, <5>2, <5>3
      <4>5. QED
        BY <4>1, <4>3, <4>4
    <3>2. QED
      BY <2>2, <3>1 DEF Chain
  <2>5. BulkPos(first, all, Len(all)) = after
    <3>1. n + 1 # 0 /\ all[n + 1][2] = after - 2
      BY <1>4, <2>2
    <3>2. QED
      BY <2>1, <2>2, <3>1 DEF BulkPos
  <2>6. CASE (count - Len(ranges)) - 1 = 0
    <3>1. Len(all) = count /\ Len(all) <= count
      BY <1>4, <2>2, <2>6
    <3>2. cmd = ArgsTo(b, all, Len(all))
      BY <2>2, <2>3
    <3>3. OneShot(b) = Done(Command(cmd), after)
      BY <1>2, <2>4, <2>5, <3>1, <3>2, ChainFresh DEF AtBulk
    <3>4. Command(cmd).is # "Error"
      BY DEF Command
    <3>5. Yield(Command(cmd), after)
      BY <1>6, <1>8, <2>6
    <3>6. QED
      BY <3>3, <3>4, <3>5 DEF Yields, TurnIs
  <2>7. CASE (count - Len(ranges)) - 1 # 0
    <3>1. /\ ranges' = all
          /\ pstate' = BulkHeader(after, (count - Len(ranges)) - 1, after)
          /\ UNCHANGED <<rbuf, parsed, phase>>
      BY <1>6, <1>8, <2>7
    <3>2. Len(all) < count /\ count - Len(all) = (count - Len(ranges)) - 1
      BY <1>4, <2>2, <2>7
    <3>3. AtBulk(b, all, count, first, after)
      BY <1>2, <2>4, <2>5, <3>2 DEF AtBulk
    <3>4. after \in 0 .. Len(b) /\ NoCR(b, after + 1, after)
      BY <1>4, <2>1 DEF NoCR
    <3>5. InBulkHeader(b, BulkHeader(after, count - Len(all), after), all)
      BY <3>3, <3>4 DEF InBulkHeader
    <3>6. InBulkHeader(b, pstate', ranges')
      BY <3>1, <3>2, <3>5
    <3>7. Turns
      BY <3>1, <3>6 DEF Turns, Resumes
    <3>8. QED
      BY <3>7 DEF TurnIs
  <2>8. QED
    BY <2>6, <2>7
<1>9. QED
  BY <1>7, <1>8

LEMMA InlineTurn ==
  ASSUME rbuf \in Seq(Byte), Resumes(rbuf, pstate, ranges), ParseInline
  PROVE  TurnIs
<1> DEFINE b == rbuf
<1>1. InInline(b, pstate)
  BY ResumesAt DEF ParseInline
<1>2. PICK s \in 0 .. Len(b) :
        pstate = Inline(s) /\ b # <<>> /\ b[1] # Star /\ \A i \in 0 .. s - 1 : b[i + 1] # LF
  BY <1>1 DEF InInline
<1>3. pstate.scanned = s /\ Len(b) \in Nat /\ s \in Nat
  BY <1>2 DEF Inline
<1> DEFINE nls == {i \in 0 .. Len(b) - 1 : b[i + 1] = LF}
           nl == Seqs!Min(nls)
           end == IF nl > 0 /\ b[nl] = CR THEN nl - 1 ELSE nl
           args == split_inline(SubSeq(b, 1, end))
<1>4. {i \in pstate.scanned .. Len(b) - 1 : b[i + 1] = LF} = nls
  BY <1>2, <1>3
<1>5. OneShot(b) = OneShotInline(b)
  BY <1>2 DEF OneShot
<1>6. /\ nls = {} => IF Len(b) > INLINE_MAX_SIZE THEN Fail("TooBigInline")
                     ELSE Incomplete(Inline(Len(b)))
      /\ nls # {} /\ nl > INLINE_MAX_SIZE => Fail("TooBigInline")
      /\ nls # {} /\ ~(nl > INLINE_MAX_SIZE) /\ args = Nil =>
           /\ parsed' = Append(parsed, ProtoError("UnbalancedQuotes"))
           /\ phase' = "closed"
      /\ nls # {} /\ ~(nl > INLINE_MAX_SIZE) /\ args # Nil =>
           Yield(IF args = <<>> THEN Empty ELSE Command(args), nl + 1)
  <2> DEFINE X == {i \in pstate.scanned .. Len(b) - 1 : b[i + 1] = LF}
             nx == Seqs!Min(X)
             ax == split_inline(SubSeq(b, 1, IF nx > 0 /\ b[nx] = CR THEN nx - 1 ELSE nx))
  <2>1. IF X = {} THEN IF Len(b) > INLINE_MAX_SIZE THEN Fail("TooBigInline")
                       ELSE Incomplete(Inline(Len(b)))
        ELSE IF nx > INLINE_MAX_SIZE THEN Fail("TooBigInline")
        ELSE IF ax = Nil
        THEN /\ Consume(nx + 1)
             /\ parsed' = Append(parsed, ProtoError("UnbalancedQuotes"))
             /\ phase' = "closed"
        ELSE Yield(IF ax = <<>> THEN Empty ELSE Command(ax), nx + 1)
    BY DEF ParseInline
  <2>2. X = nls
    BY <1>4
  <2> HIDE DEF X, nls
  <2>3. nx = nl
    BY <2>2
  <2> HIDE DEF nx, nl
  <2>4. ax = args
    BY <2>3
  <2> HIDE DEF ax, args
  <2>5. QED
    BY <2>1, <2>2, <2>3, <2>4
<1>7. OneShotInline(b) =
        IF nls = {} THEN IF Len(b) > INLINE_MAX_SIZE THEN Refusal("TooBigInline") ELSE Waits
        ELSE IF nl > INLINE_MAX_SIZE THEN Refusal("TooBigInline")
        ELSE IF args = Nil THEN Refusal("UnbalancedQuotes")
        ELSE Done(IF args = <<>> THEN Empty ELSE Command(args), nl + 1)
  BY DEF OneShotInline
<1>n. nls = {} => \A i \in 0 .. Len(b) - 1 : b[i + 1] # LF
  OBVIOUS
<1> HIDE DEF nls, nl, end, args
<1>8. CASE nls = {} /\ Len(b) > INLINE_MAX_SIZE
  BY <1>5, <1>6, <1>7, <1>8, FailTurn
<1>9. CASE nls = {} /\ ~(Len(b) > INLINE_MAX_SIZE)
  <2>1. Incomplete(Inline(Len(b))) /\ OneShot(b) = Waits
    BY <1>5, <1>6, <1>7, <1>9
  <2>2. Len(b) \in 0 .. Len(b)
    BY <1>3
  <2>3. InInline(b, Inline(Len(b)))
    BY <1>2, <1>9, <1>n, <2>2 DEF InInline
  <2>4. Inline(Len(b)).at # "Start" /\ Resumes(b, Inline(Len(b)), ranges)
    BY <2>3 DEF Inline, Resumes
  <2>5. QED
    BY <2>1, <2>4, WaitTurn
<1>10. CASE nls # {} /\ nl > INLINE_MAX_SIZE
  BY <1>5, <1>6, <1>7, <1>10, FailTurn
<1>11. CASE nls # {} /\ ~(nl > INLINE_MAX_SIZE) /\ args = Nil
  <2>1. Fails
    BY <1>5, <1>6, <1>7, <1>11 DEF Fails
  <2>2. QED
    BY <2>1 DEF TurnIs
<1>12. CASE nls # {} /\ ~(nl > INLINE_MAX_SIZE) /\ args # Nil
  <2> DEFINE out == IF args = <<>> THEN Empty ELSE Command(args)
  <2>1. out.is # "Error"
    BY DEF Empty, Command
  <2>2. OneShot(b) = Done(out, nl + 1) /\ Yield(out, nl + 1)
    BY <1>5, <1>6, <1>7, <1>12
  <2> HIDE DEF out
  <2>3. QED
    BY <2>1, <2>2 DEF Yields, TurnIs
<1>13. QED
  BY <1>8, <1>9, <1>10, <1>11, <1>12

(* The inductive invariant: the buffer holds the bytes from the start of   *)
(* the frame on, the parser resumes from what is so in it, it waits only   *)
(* where the bytes there are no frame, and what it has yielded can be      *)
(* completed to a meaning of the stream in whatever way the rest can.      *)
FrameStart == arrived - Len(rbuf)
ParserInv ==
  /\ stream \in RequestStreams
  /\ phase \in {"read", "parse", "closed"}
  /\ phase = "closed" => parsed \in From(stream.bytes)[0] /\ parsed \in Seq(OutsOf(stream.bytes))
  /\ phase # "closed" =>
       /\ arrived \in 0 .. Len(stream.bytes)
       /\ FrameStart \in 0 .. arrived
       /\ rbuf = SubSeq(stream.bytes, FrameStart + 1, arrived)
       /\ Resumes(rbuf, pstate, ranges)
       /\ Leads(stream.bytes, parsed, FrameStart)
  /\ phase = "read" => OneShot(rbuf) = Waits /\ (pstate = Start => rbuf = <<>>)

LEMMA StreamBytes ==
  ASSUME stream \in RequestStreams
  PROVE  /\ stream.bytes \in Seq(Byte) /\ Len(stream.bytes) \in Nat
         /\ stream.expect = From(stream.bytes)[0]
<1>1. stream.bytes \in Seq(Byte) /\ stream.expect = Meaning(stream.bytes)
  BY StreamsAssumption DEF Byte
<1>2. QED
  BY <1>1, FromIs

LEMMA BufferBytes ==
  ASSUME ParserInv, phase # "closed"
  PROVE  /\ rbuf \in Seq(Byte) /\ Len(rbuf) \in Nat /\ arrived \in Nat /\ FrameStart \in Nat
         /\ Len(rbuf) = arrived - FrameStart
<1>1. stream.bytes \in Seq(Byte) /\ Len(stream.bytes) \in Nat
  BY StreamBytes DEF ParserInv
<1>2. arrived \in 0 .. Len(stream.bytes) /\ FrameStart \in 0 .. arrived
      /\ rbuf = SubSeq(stream.bytes, FrameStart + 1, arrived)
  BY DEF ParserInv
<1> DEFINE c == FrameStart
           bs == stream.bytes
<1> HIDE DEF c, bs
<1>3. bs \in Seq(Byte) /\ Len(bs) \in Nat /\ arrived \in 0 .. Len(bs) /\ c \in 0 .. arrived
  BY <1>1, <1>2 DEF c, bs
<1>4. SubSeq(bs, c + 1, arrived) \in Seq(Byte) /\ Len(SubSeq(bs, c + 1, arrived)) = arrived - c
      /\ arrived \in Nat /\ c \in Nat /\ arrived - c \in Nat
  BY <1>3
<1>5. rbuf = SubSeq(bs, c + 1, arrived)
  BY <1>2 DEF c, bs
<1>6. QED
  BY <1>4, <1>5 DEF c

LEMMA ParserInvInit == parserInit => ParserInv
<1> SUFFICES ASSUME parserInit PROVE ParserInv
  OBVIOUS
<1>1. /\ stream \in RequestStreams /\ arrived = 0 /\ rbuf = <<>> /\ pstate = Start
      /\ parsed = <<>> /\ phase = "read"
  BY DEF parserInit
<1>2. stream.bytes \in Seq(Byte) /\ Len(stream.bytes) \in Nat
  BY <1>1, StreamBytes
<1>3. FrameStart = 0
  <2>1. Len(rbuf) = 0
    BY <1>1
  <2>2. arrived = 0
    BY <1>1
  <2>3. QED
    BY <2>1, <2>2 DEF FrameStart
<1>4. SubSeq(stream.bytes, 0 + 1, 0) = <<>>
  BY SubSeqEmpty
<1>5. Leads(stream.bytes, <<>>, 0)
  <2> DEFINE Q == OutsOf(stream.bytes)
             g == From(stream.bytes)[0]
  <2>1. g \subseteq Seq(Q)
    <3>1. 0 \in 0 .. Len(stream.bytes)
      BY <1>2
    <3>2. QED
      BY <1>2, <3>1, FromSeqs
  <2>2. <<>> \in Seq(Q)
    OBVIOUS
  <2> HIDE DEF Q, g
  <2>3. ASSUME NEW t \in g PROVE <<>> \o t \in g
    <3>1. t \in Seq(Q)
      BY <2>1
    <3>2. <<>> \o t = t
      BY <3>1, ConcatEmptySeq
    <3>3. QED
      BY <3>2
  <2>4. QED
    BY <2>2, <2>3 DEF Leads, Q, g
<1>6. OneShot(rbuf) = Waits
  BY <1>1 DEF OneShot
<1>7. Resumes(rbuf, pstate, ranges)
  BY <1>1 DEF Resumes
<1>8. arrived \in 0 .. Len(stream.bytes) /\ FrameStart \in 0 .. arrived
      /\ rbuf = SubSeq(stream.bytes, FrameStart + 1, arrived)
  BY <1>1, <1>2, <1>3, <1>4
<1>9. QED
  BY <1>1, <1>3, <1>5, <1>6, <1>7, <1>8 DEF ParserInv

(* Two pieces of a sequence, one behind the other, and the end of a piece. *)
LEMMA PieceIs ==
  ASSUME NEW bs \in Seq(Byte), NEW c \in Nat, NEW a \in Nat, c <= a, a <= Len(bs),
         NEW x, x = SubSeq(bs, c + 1, a)
  PROVE  x \in Seq(Byte) /\ Len(x) = a - c /\ \A i \in 1 .. a - c : x[i] = bs[c + i]
OBVIOUS

LEMMA JoinIs ==
  ASSUME NEW x \in Seq(Byte), NEW y \in Seq(Byte), NEW w, w = x \o y
  PROVE  w \in Seq(Byte) /\ Len(w) = Len(x) + Len(y)
         /\ \A i \in 1 .. Len(x) + Len(y) : w[i] = IF i <= Len(x) THEN x[i] ELSE y[i - Len(x)]
BY ConcatProperties

Joins(bs, c, a, n, x) ==
  /\ x \o SubSeq(bs, a + 1, a + n) = SubSeq(bs, c + 1, a + n)
  /\ Grows(x, SubSeq(bs, c + 1, a + n))

LEMMA Pieces ==
  ASSUME NEW bs \in Seq(Byte), NEW c \in Nat, NEW a \in Nat, NEW n \in Nat,
         c <= a, a + n <= Len(bs), NEW x, x = SubSeq(bs, c + 1, a)
  PROVE  Joins(bs, c, a, n, x)
<1> DEFINE y == SubSeq(bs, a + 1, a + n)
           z == SubSeq(bs, c + 1, a + n)
           w == x \o y
<1>0. Len(bs) \in Nat
  OBVIOUS
<1>1. x \in Seq(Byte) /\ Len(x) = a - c /\ \A i \in 1 .. a - c : x[i] = bs[c + i]
  <2>1. a <= Len(bs)
    BY <1>0
  <2>2. QED
    BY <2>1, PieceIs
<1>a. a + n \in Nat /\ c <= a + n /\ a <= a + n /\ (a + n) - a = n
  OBVIOUS
<1>b. y = SubSeq(bs, a + 1, a + n) /\ z = SubSeq(bs, c + 1, a + n)
  OBVIOUS
<1> HIDE DEF y, z
<1>2. y \in Seq(Byte) /\ Len(y) = n /\ \A i \in 1 .. n : y[i] = bs[a + i]
  <2>1. y \in Seq(Byte) /\ Len(y) = (a + n) - a /\ \A i \in 1 .. (a + n) - a : y[i] = bs[a + i]
    BY <1>a, <1>b, PieceIs
  <2>2. QED
    BY <1>a, <2>1
<1>3. z \in Seq(Byte) /\ Len(z) = (a + n) - c /\ \A i \in 1 .. (a + n) - c : z[i] = bs[c + i]
  BY <1>a, <1>b, PieceIs
<1>4. w \in Seq(Byte) /\ Len(w) = (a + n) - c
      /\ \A i \in 1 .. (a + n) - c : w[i] = IF i <= a - c THEN x[i] ELSE y[i - (a - c)]
  <2>0. x \in Seq(Byte) /\ y \in Seq(Byte) /\ w = x \o y
    BY <1>1, <1>2
  <2> HIDE DEF w
  <2>1. w \in Seq(Byte) /\ Len(w) = Len(x) + Len(y)
        /\ \A i \in 1 .. Len(x) + Len(y) : w[i] = IF i <= Len(x) THEN x[i] ELSE y[i - Len(x)]
    BY <2>0, JoinIs
  <2>2. Len(x) + Len(y) = (a + n) - c
    BY <1>1, <1>2
  <2> HIDE DEF w
  <2>3. QED
    BY <1>1, <2>1, <2>2
<1> HIDE DEF w
<1>5. ASSUME NEW i \in 1 .. (a + n) - c PROVE w[i] = z[i]
  <2>1. CASE i <= a - c
    BY <1>1, <1>3, <1>4, <2>1
  <2>2. CASE ~(i <= a - c)
    <3>1. i - (a - c) \in 1 .. n /\ a + (i - (a - c)) = c + i
      BY <2>2
    <3>2. y[i - (a - c)] = bs[c + i]
      BY <1>2, <3>1
    <3>3. QED
      BY <1>3, <1>4, <2>2, <3>2
  <2>3. QED
    BY <2>1, <2>2
<1>6. w = z
  <2>1. Len(w) = Len(z) /\ \A i \in 1 .. Len(w) : w[i] = z[i]
    BY <1>3, <1>4, <1>5
  <2>2. QED
    BY <1>3, <1>4, <2>1, SeqEqual
<1>7. Grows(x, z)
  <2>1. Len(x) <= Len(z)
    BY <1>1, <1>3
  <2>2. \A i \in 1 .. Len(x) : z[i] = x[i]
    BY <1>1, <1>3
  <2>3. QED
    BY <1>1, <1>3, <2>1, <2>2 DEF Grows
<1>8. QED
  BY <1>6, <1>7 DEF w, y, z, Joins

LEMMA RestOfPiece ==
  ASSUME NEW bs \in Seq(Byte), NEW c \in Nat, NEW a \in Nat, c <= a, a <= Len(bs),
         NEW x, x = SubSeq(bs, c + 1, a), NEW n \in 1 .. a - c
  PROVE  SubSeq(x, n + 1, Len(x)) = SubSeq(bs, (c + n) + 1, a)
         /\ Len(SubSeq(x, n + 1, Len(x))) = a - (c + n)
<1> DEFINE y == SubSeq(x, n + 1, a - c)
           z == SubSeq(bs, (c + n) + 1, a)
<1>0. Len(bs) \in Nat
  OBVIOUS
<1>1. x \in Seq(Byte) /\ Len(x) = a - c /\ \A i \in 1 .. a - c : x[i] = bs[c + i]
  BY PieceIs
<1>2. y \in Seq(Byte) /\ Len(y) = (a - c) - n /\ \A i \in 1 .. (a - c) - n : y[i] = x[n + i]
  BY <1>1
<1> DEFINE d == c + n
<1>a. d \in Nat /\ d <= a /\ z = SubSeq(bs, d + 1, a)
  OBVIOUS
<1> HIDE DEF y, z, d
<1>b. z \in Seq(Byte) /\ Len(z) = a - d /\ \A i \in 1 .. a - d : z[i] = bs[d + i]
  BY <1>a, PieceIs
<1>3. z \in Seq(Byte) /\ Len(z) = a - (c + n) /\ \A i \in 1 .. a - (c + n) : z[i] = bs[(c + n) + i]
  BY <1>b DEF d
<1>4. ASSUME NEW i \in 1 .. a - (c + n) PROVE y[i] = z[i]
  <2>1. n + i \in 1 .. a - c /\ c + (n + i) = (c + n) + i /\ i \in 1 .. (a - c) - n
    OBVIOUS
  <2>2. QED
    BY <1>1, <1>2, <1>3, <2>1
<1>5. Len(y) = Len(z) /\ \A i \in 1 .. Len(y) : y[i] = z[i]
  BY <1>2, <1>3, <1>4
<1>6. y = z
  BY <1>2, <1>3, <1>5, SeqEqual
<1>7. QED
  BY <1>1, <1>3, <1>6 DEF y, z

LEMMA ReadKeepsInv ==
  ASSUME ParserInv, NEW n \in 1 .. Len(stream.bytes), ParserRead(n)
  PROVE  ParserInv'
<1> DEFINE bs == stream.bytes
           c == FrameStart
<1>0. phase = "read" /\ stream' = stream /\ arrived' = arrived + n /\ phase' = "parse"
      /\ rbuf' = rbuf \o SubSeq(bs, arrived + 1, arrived + n) /\ arrived + n <= Len(bs)
      /\ pstate' = pstate /\ ranges' = ranges /\ parsed' = parsed
  BY DEF ParserRead
<1>1. bs \in Seq(Byte) /\ Len(bs) \in Nat /\ stream \in RequestStreams
  BY StreamBytes DEF ParserInv
<1>2. /\ arrived \in 0 .. Len(bs) /\ c \in 0 .. arrived
      /\ rbuf = SubSeq(bs, c + 1, arrived)
      /\ Resumes(rbuf, pstate, ranges) /\ Leads(bs, parsed, c)
  BY <1>0 DEF ParserInv
<1>3. rbuf \in Seq(Byte) /\ Len(rbuf) \in Nat /\ Len(rbuf) = arrived - c
  BY <1>0, BufferBytes
<1> HIDE DEF bs, c
<1>4. c \in Nat /\ arrived \in Nat /\ n \in Nat /\ c <= arrived
  BY <1>1, <1>2 DEF bs
<1>5. rbuf' = SubSeq(bs, c + 1, arrived + n) /\ Grows(rbuf, rbuf')
  <2>0. arrived + n <= Len(bs) /\ rbuf = SubSeq(bs, c + 1, arrived)
    BY <1>0, <1>2
  <2>1. Joins(bs, c, arrived, n, rbuf)
    BY <1>1, <1>4, <2>0, Pieces
  <2>2. QED
    BY <1>0, <2>1 DEF Joins
<1>6. Resumes(rbuf', pstate', ranges')
  BY <1>0, <1>2, <1>5, ResumesGrows
<1>7. Len(rbuf') = (arrived + n) - c
  <2>1. arrived + n \in Nat /\ c <= arrived + n
    BY <1>4
  <2>2. QED
    BY <1>0, <1>1, <1>4, <1>5, <2>1, PieceIs
<1>8. FrameStart' = c
  BY <1>0, <1>4, <1>7 DEF FrameStart
<1>9. arrived' \in 0 .. Len(bs) /\ c \in 0 .. arrived'
  BY <1>0, <1>1, <1>4
<1>10. bs' = bs
  BY <1>0 DEF bs
<1>11. QED
  BY <1>0, <1>1, <1>2, <1>5, <1>6, <1>8, <1>9, <1>10 DEF ParserInv, bs

LEMMA TurnKeepsInv ==
  ASSUME ParserInv, phase = "parse", TurnIs, UNCHANGED <<stream, arrived>>
  PROVE  ParserInv'
<1> DEFINE bs == stream.bytes
           c == FrameStart
<1>0. stream' = stream /\ arrived' = arrived /\ phase # "closed"
  OBVIOUS
<1>1. bs \in Seq(Byte) /\ Len(bs) \in Nat /\ stream \in RequestStreams
  BY StreamBytes DEF ParserInv
<1>2. /\ arrived \in 0 .. Len(bs) /\ c \in 0 .. arrived
      /\ rbuf = SubSeq(bs, c + 1, arrived)
      /\ Resumes(rbuf, pstate, ranges) /\ Leads(bs, parsed, c)
  BY <1>0 DEF ParserInv
<1>3. rbuf \in Seq(Byte) /\ Len(rbuf) \in Nat /\ Len(rbuf) = arrived - c
      /\ arrived \in Nat /\ c \in Nat
  BY <1>0, BufferBytes
<1>b. bs' = bs
  BY <1>0
<1>f. ASSUME OneShot(rbuf) # Waits PROVE OneShot(rbuf) \in Finished(bs, c) /\ c \in 0 .. Len(bs)
  <2>1. arrived \in c .. Len(bs) /\ c \in 0 .. Len(bs)
    BY <1>1, <1>2, <1>3
  <2>2. QED
    BY <1>2, <1>f, <2>1 DEF Finished
<1>4. CASE rbuf' = rbuf /\ parsed' = parsed /\ phase' \in {"read", "parse"}
           /\ Resumes(rbuf, pstate', ranges')
           /\ (phase' = "read" => OneShot(rbuf) = Waits /\ (pstate' = Start => rbuf = <<>>))
  <2>1. c' = c
    BY <1>0, <1>4 DEF FrameStart
  <2> HIDE DEF bs, c
  <2>2. QED
    BY <1>0, <1>1, <1>2, <1>4, <1>b, <2>1 DEF ParserInv, bs, c
<1>5. CASE Turns
  <2>1. rbuf' = rbuf /\ parsed' = parsed /\ phase' = "parse" /\ Resumes(rbuf, pstate', ranges')
    BY <1>5 DEF Turns
  <2>2. QED
    BY <1>4, <2>1
<1>6. CASE Stalls
  <2>1. rbuf' = rbuf /\ parsed' = parsed /\ phase' = "read" /\ Resumes(rbuf, pstate', ranges')
        /\ OneShot(rbuf) = Waits /\ (pstate' = Start => rbuf = <<>>)
    BY <1>6 DEF Stalls
  <2>2. QED
    BY <1>4, <2>1
<1>7. CASE Fails
  <2>1. PICK e : OneShot(rbuf) = Refusal(e) /\ parsed' = Append(parsed, ProtoError(e))
    BY <1>7 DEF Fails
  <2>2. OneShot(rbuf) # Waits /\ OneShot(rbuf).out = ProtoError(e) /\ ProtoError(e).is = "Error"
    BY <2>1, RefusalTakes DEF ProtoError
  <2> DEFINE f == OneShot(rbuf)
  <2>3. f \in Finished(bs, c) /\ c \in 0 .. Len(bs)
    BY <1>f, <2>2
  <2> HIDE DEF f, bs, c
  <2>4. Append(parsed, f.out) \in From(bs)[0] /\ Append(parsed, f.out) \in Seq(OutsOf(bs))
    <3>1. f.out.is = "Error"
      BY <2>2 DEF f
    <3>2. QED
      BY <1>1, <1>2, <2>3, <3>1, FrameLeads
  <2>5. parsed' \in From(bs)[0] /\ parsed' \in Seq(OutsOf(bs))
    BY <2>1, <2>2, <2>4 DEF f
  <2>6. phase' = "closed"
    BY <1>7 DEF Fails
  <2>7. QED
    BY <1>0, <1>1, <1>b, <2>5, <2>6 DEF ParserInv, bs
<1>8. CASE Yields
  <2>1. PICK out, n : out.is # "Error" /\ OneShot(rbuf) = Done(out, n) /\ Yield(out, n)
    BY <1>8 DEF Yields
  <2> DEFINE f == OneShot(rbuf)
  <2>2. f.out = out /\ f.used = n /\ f # Waits
    <3>1. f.is = "Done" /\ f.out = out /\ f.used = n
      BY <2>1 DEF Done
    <3>2. Waits.is = "Waits"
      BY DEF Waits
    <3>3. QED
      BY <3>1, <3>2
  <2>3. n \in 1 .. Len(rbuf)
    <3>1. Takes(rbuf, f)
      BY <1>3, FreshTakes
    <3> HIDE DEF f
    <3>2. QED
      BY <2>1, <2>2, <3>1 DEF Takes
  <2>4. rbuf' = SubSeq(rbuf, n + 1, Len(rbuf)) /\ pstate' = Start
        /\ parsed' = Append(parsed, out) /\ phase' = phase
    BY <2>1 DEF Yield, Consume
  <2>5. f \in Finished(bs, c) /\ c \in 0 .. Len(bs)
    BY <1>f, <2>2
  <2> HIDE DEF f, bs, c
  <2>6. Leads(bs, parsed', c + n)
    BY <1>1, <1>2, <2>1, <2>2, <2>4, <2>5, FrameLeads
  <2>7. n \in 1 .. arrived - c /\ c <= arrived /\ arrived <= Len(bs)
    BY <1>1, <1>2, <1>3, <2>3
  <2>8. rbuf' = SubSeq(bs, (c + n) + 1, arrived) /\ Len(rbuf') = arrived - (c + n)
    BY <1>1, <1>2, <1>3, <2>4, <2>7, RestOfPiece
  <2>9. FrameStart' = c + n /\ c + n \in 0 .. arrived
    BY <1>0, <1>3, <2>7, <2>8 DEF FrameStart
  <2>10. Resumes(rbuf', pstate', ranges')
    BY <2>4 DEF Resumes
  <2>11. QED
    BY <1>0, <1>1, <1>2, <1>b, <2>4, <2>6, <2>8, <2>9, <2>10 DEF ParserInv, bs
<1>9. QED
  BY <1>5, <1>6, <1>7, <1>8 DEF TurnIs

LEMMA ParserInvNext == ParserInv /\ [parserNext]_parserVars => ParserInv'
<1> SUFFICES ASSUME ParserInv, [parserNext]_parserVars PROVE ParserInv'
  OBVIOUS
<1>1. CASE UNCHANGED parserVars
  BY <1>1 DEF parserVars, ParserInv, FrameStart
<1>2. CASE \E n \in 1 .. Len(stream.bytes) : ParserRead(n)
  BY <1>2, ReadKeepsInv
<1>3. CASE /\ phase = "parse" /\ UNCHANGED <<stream, arrived>>
           /\ ParseStart \/ ParseMbulkHeader \/ ParseBulkHeader \/ ParseBulkBody \/ ParseInline
  <2>1. rbuf \in Seq(Byte) /\ Resumes(rbuf, pstate, ranges)
    BY <1>3, BufferBytes DEF ParserInv
  <2>2. TurnIs
    BY <1>3, <2>1, StartTurn, MbulkHeaderTurn, BulkHeaderTurn, BulkBodyTurn, InlineTurn
  <2>3. QED
    BY <1>3, <2>2, TurnKeepsInv
<1>4. QED
  BY <1>1, <1>2, <1>3 DEF parserNext

LEMMA ParserInvSafe == ParserInv => ParseIgnoresReadBoundaries
<1> SUFFICES ASSUME ParserInv PROVE ParseIgnoresReadBoundaries
  OBVIOUS
<1> DEFINE bs == stream.bytes
           g == From(bs)
           Q == OutsOf(bs)
<1>1. bs \in Seq(Byte) /\ Len(bs) \in Nat /\ stream.expect = g[0]
  BY StreamBytes DEF ParserInv
<1>2. CASE phase = "closed"
  <2>1. parsed \in g[0] /\ parsed \in Seq(Q)
    BY <1>2 DEF ParserInv
  <2>2. Seqs!IsPrefix(parsed, parsed)
    <3> HIDE DEF Q
    <3>1. QED
      BY <2>1 DEF Seqs!IsPrefix
  <2>3. QED
    BY <1>1, <1>2, <2>1, <2>2 DEF ParseIgnoresReadBoundaries
<1>3. CASE phase # "closed"
  <2> DEFINE c == FrameStart
  <2>1. parsed \in Seq(Q) /\ (\A t \in g[c] : parsed \o t \in g[0]) /\ c \in 0 .. Len(bs)
        /\ rbuf = SubSeq(bs, c + 1, arrived) /\ arrived \in 0 .. Len(bs)
    <3>1. Leads(bs, parsed, c) /\ arrived \in 0 .. Len(bs) /\ c \in 0 .. arrived
          /\ rbuf = SubSeq(bs, c + 1, arrived)
      BY <1>3 DEF ParserInv
    <3> HIDE DEF c
    <3>2. QED
      BY <1>1, <3>1 DEF Leads
  <2> HIDE DEF c
  <2>2. \E e \in stream.expect : Seqs!IsPrefix(parsed, e)
    <3>1. PICK t : t \in g[c]
      BY <1>1, <2>1, FromInhabited
    <3>2. t \in Seq(Q)
      BY <1>1, <2>1, <3>1, FromSeqs
    <3> DEFINE e == parsed \o t
    <3>3. e \in stream.expect
      BY <1>1, <2>1, <3>1
    <3>4. Seqs!IsPrefix(parsed, e)
      <4> HIDE DEF Q
      <4>1. e \in Seq(Q) /\ Len(e) = Len(parsed) + Len(t) /\ Len(parsed) \in Nat /\ Len(t) \in Nat
            /\ \A i \in 1 .. Len(parsed) : e[i] = parsed[i]
        BY <2>1, <3>2
      <4> HIDE DEF e
      <4>2. Len(parsed) <= Len(e)
        BY <4>1
      <4>3. QED
        BY <2>1, <4>1, <4>2 DEF Seqs!IsPrefix
    <3>5. QED
      <4> HIDE DEF e
      <4>1. QED
        BY <3>3, <3>4
  <2>3. ASSUME phase = "read", arrived = Len(stream.bytes) PROVE parsed \in stream.expect
    <3>1. OneShot(SubSeq(bs, c + 1, Len(bs))) = Waits
      BY <2>1, <2>3 DEF ParserInv
    <3>2. <<>> \in g[c]
      <4>1. OfNothing(bs, c, <<>>)
        BY <3>1 DEF OfNothing
      <4>2. <<>> \in Stage(bs, c, g)
        BY <4>1, StageMember
      <4>3. g[c] = Stage(bs, c, g)
        BY <1>1, <2>1, FromIs
      <4>4. QED
        BY <4>2, <4>3
    <3>3. parsed \o <<>> \in g[0]
      BY <2>1, <3>2
    <3>4. parsed \o <<>> = parsed
      <4> HIDE DEF Q
      <4>1. QED
        BY <2>1, ConcatEmptySeq
    <3>5. QED
      BY <1>1, <3>3, <3>4
  <2>4. (phase = "read" /\ pstate = Start) => rbuf = <<>>
    BY DEF ParserInv
  <2>5. QED
    BY <2>2, <2>3, <2>4 DEF ParseIgnoresReadBoundaries
<1>4. QED
  BY <1>2, <1>3

(* The parser resumes soundly: however the bytes of any stream are cut     *)
(* into reads, what parse returns is what the bytes stand for when they    *)
(* are parsed from the start of each frame.                                *)
THEOREM ParserExact == parserSpec => []ParseIgnoresReadBoundaries
<1>1. parserInit => ParserInv
  BY ParserInvInit
<1>2. ParserInv /\ [parserNext]_parserVars => ParserInv'
  BY ParserInvNext
<1>3. ParserInv => ParseIgnoresReadBoundaries
  BY ParserInvSafe
<1>4. QED
  BY <1>1, <1>2, <1>3, PTL DEF parserSpec
=============================================================================
