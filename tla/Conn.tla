-------------------------------- MODULE Conn -------------------------------
(***************************************************************************)
(* The life of connections: accepted by the accept loops (net/listener.rs),*)
(* admitted, entered in the two registries, served by connection_loop      *)
(* (net/conn.rs) and taken out again, while other connections kill them,   *)
(* senders push frames to them and the server shuts down.  A task runs on  *)
(* one of the worker threads and gives it up only at an await; what a      *)
(* connection's bytes say and the order of its replies are in RespParser,  *)
(* Session and OutputBuffer.                                               *)
(***************************************************************************)
EXTENDS Integers, Sequences, FiniteSets

CONSTANTS
  Conns,        \* connections clients may open
  Workers,      \* worker threads of the runtime
  AcceptLoops,  \* accept loops: one per worker and address
  MaxClients,   \* maxclients
  Talkers,      \* bound: the connections that send commands
  Pushed,       \* bound: the connections other parts of the server write to
  MaxOob        \* bound on the messages they may leave waiting in a channel

ASSUME ConnAssumption ==
  /\ IsFiniteSet(Conns) /\ Talkers \subseteq Conns /\ Pushed \subseteq Conns
  /\ Workers \in Nat \ {0} /\ AcceptLoops \in Nat /\ MaxClients \in Nat /\ MaxOob \in Nat

VARIABLES
  pc,          \* where each connection's task is
  clients,     \* ServerShared.clients: who shutdown and publishers reach
  registry,    \* net::registry: who CLIENT LIST and CLIENT KILL see
  oob,         \* out-of-band channels: sequences of "Frame", "Unblock", "Kill"
  staged,      \* whether replies are staged and not flushed
  closing,     \* whether the task leaves after the flush
  lost,        \* whether a write failed or a limit dropped what was staged
  loops,       \* accept loops still running
  stop,        \* shutdown(): "no", "flagged", "killing", "done", "exited"
  toKill       \* the handles of shutdown's snapshot not yet sent Kill

vars == <<pc, clients, registry, oob, staged, closing, lost, loops, stop, toKill>>

ShuttingDown == stop # "no"   \* shutting_down
Ended == {"rejected", "gone", "dropped"}
Left == {"leaving", "removing"}

(* On a worker thread between the maxclients check and the insertion.      *)
InFlight == {c \in Conns : pc[c] = "admitted"}

TypeOK ==
  /\ pc \in [Conns -> {"off", "accepted", "admitted", "inserted", "head", "select",
                       "batch", "flush"} \cup Left \cup Ended]
  /\ clients \subseteq Conns /\ registry \subseteq Conns /\ toKill \subseteq Conns
  /\ oob \in [Conns -> Seq({"Frame", "Unblock", "Kill"})]
  /\ staged \in [Conns -> BOOLEAN]
  /\ closing \in [Conns -> BOOLEAN]
  /\ lost \in [Conns -> BOOLEAN]
  /\ loops \in 0 .. AcceptLoops
  /\ stop \in {"no", "flagged", "killing", "done", "exited"}

Init ==
  /\ pc = [c \in Conns |-> "off"]
  /\ clients = {} /\ registry = {} /\ toKill = {}
  /\ oob = [c \in Conns |-> <<>>]
  /\ staged = [c \in Conns |-> FALSE]
  /\ closing = [c \in Conns |-> FALSE]
  /\ lost = [c \in Conns |-> FALSE]
  /\ loops = AcceptLoops
  /\ stop = "no"
-----------------------------------------------------------------------------
Goto(c, where) == pc' = [pc EXCEPT ![c] = where]
Send(c, msg) == oob' = [oob EXCEPT ![c] = Append(@, msg)]
LeaveLosing(c) == Goto(c, "leaving") /\ lost' = [lost EXCEPT ![c] = TRUE]

(* accept_loop: a loop parked in accept() takes a connection even when the *)
(* flag is already up, and returns on its next turn.                       *)
Accept(c) ==
  /\ pc[c] = "off" /\ loops > 0
  /\ Goto(c, "accepted")
  /\ loops' = IF ShuttingDown THEN loops - 1 ELSE loops
  /\ UNCHANGED <<clients, registry, oob, staged, closing, lost, stop, toKill>>

LoopReturns ==
  /\ ShuttingDown /\ loops > 0 /\ stop # "exited"
  /\ loops' = loops - 1
  /\ UNCHANGED <<pc, clients, registry, oob, staged, closing, lost, stop, toKill>>

(* A plausible slip: the comparison is off by one.                         *)
Admit_over(c) ==
  /\ pc[c] = "accepted" /\ Cardinality(InFlight) < Workers
  /\ Goto(c, IF Cardinality(clients) > MaxClients THEN "rejected" ELSE "admitted")
  /\ UNCHANGED <<clients, registry, oob, staged, closing, lost, loops, stop, toKill>>

(* serve_stream: the admission check, which an await precedes and none     *)
(* follows before the insertion.                                           *)
Admit(c) ==
  /\ pc[c] = "accepted" /\ Cardinality(InFlight) < Workers
  /\ Goto(c, IF Cardinality(clients) >= MaxClients THEN "rejected" ELSE "admitted")
  /\ UNCHANGED <<clients, registry, oob, staged, closing, lost, loops, stop, toKill>>

Insert(c) ==
  /\ pc[c] = "admitted"
  /\ clients' = clients \cup {c}
  /\ Goto(c, "inserted")
  /\ UNCHANGED <<registry, oob, staged, closing, lost, loops, stop, toKill>>

Register(c) ==
  /\ pc[c] = "inserted"
  /\ registry' = registry \cup {c}
  /\ Goto(c, "head")
  /\ UNCHANGED <<clients, oob, staged, closing, lost, loops, stop, toKill>>

(* The top of connection_loop.                                             *)
LoopTop(c) ==
  /\ pc[c] = "head"
  /\ Goto(c, IF ShuttingDown THEN "leaving" ELSE "select")
  /\ UNCHANGED <<clients, registry, oob, staged, closing, lost, loops, stop, toKill>>

(* The select's first arm, which is biased: a message wins over input.     *)
Receive(c) ==
  LET msg == oob[c][1]
  IN /\ pc[c] = "select" /\ oob[c] # <<>>
     /\ oob' = [oob EXCEPT ![c] = SubSeq(@, 2, Len(@))]
     /\ \/ /\ msg = "Frame"      \* staged and flushed
           /\ staged' = [staged EXCEPT ![c] = TRUE] /\ Goto(c, "flush")
           /\ UNCHANGED <<closing, lost>>
        \/ /\ msg = "Frame"      \* over client-output-buffer-limit: discarded
           /\ staged' = [staged EXCEPT ![c] = FALSE] /\ LeaveLosing(c)
           /\ UNCHANGED closing
        \/ /\ msg = "Unblock"
           /\ Goto(c, "head") /\ UNCHANGED <<staged, closing, lost>>
        \/ /\ msg = "Kill"
           /\ closing' = [closing EXCEPT ![c] = TRUE] /\ Goto(c, "flush")
           /\ UNCHANGED <<staged, lost>>
     /\ UNCHANGED <<clients, registry, loops, stop, toKill>>

(* A plausible slip: the select is not biased, and input may always win.   *)
Read_unbiased(c) ==
  /\ pc[c] = "select" /\ c \in Talkers
  /\ Goto(c, "batch")
  /\ UNCHANGED <<clients, registry, oob, staged, closing, lost, loops, stop, toKill>>

(* Bytes are read and the batch starts.                                    *)
Read(c) ==
  /\ pc[c] = "select" /\ oob[c] = <<>> /\ c \in Talkers
  /\ Goto(c, "batch")
  /\ UNCHANGED <<clients, registry, oob, staged, closing, lost, loops, stop, toKill>>

(* The peer hung up, the read failed, or the idle timeout fired.           *)
HangUp(c) ==
  /\ pc[c] = "select" /\ oob[c] = <<>>
  /\ Goto(c, "leaving")
  /\ UNCHANGED <<clients, registry, oob, staged, closing, lost, loops, stop, toKill>>

(* A Kill is in the channel: the next one would change nothing (a bound).  *)
KillWaits(c) == \E i \in DOMAIN oob[c] : oob[c][i] = "Kill"

(* A command of the batch replies (or not: CLIENT REPLY); QUIT, a protocol *)
(* error or CLIENT KILL of oneself ends the batch; CLIENT KILL of another  *)
(* asks it to close.                                                       *)
Run(c) ==
  /\ pc[c] = "batch" /\ ~closing[c]
  /\ \E replies \in BOOLEAN : staged' = [staged EXCEPT ![c] = @ \/ replies]
  /\ \/ UNCHANGED <<oob, closing>>
     \/ closing' = [closing EXCEPT ![c] = TRUE] /\ UNCHANGED oob
     \/ \E t \in registry \ {c} : /\ ~KillWaits(t) /\ Send(t, "Kill")
                                  /\ UNCHANGED closing
  /\ UNCHANGED <<pc, clients, registry, lost, loops, stop, toKill>>

(* A plausible slip: a closing connection is left before its last flush.   *)
BatchEnd_closes(c) ==
  /\ pc[c] = "batch"
  /\ Goto(c, IF closing[c] THEN "leaving" ELSE "flush")
  /\ UNCHANGED <<clients, registry, oob, staged, closing, lost, loops, stop, toKill>>

(* No complete command is left (there may have been none); the batch has a *)
(* single flush, which writes nothing when nothing is staged.              *)
BatchEnd(c) ==
  /\ pc[c] = "batch"
  /\ Goto(c, "flush")
  /\ UNCHANGED <<clients, registry, oob, staged, closing, lost, loops, stop, toKill>>

(* The flush finished, then the close check; or the write failed.          *)
Flush(c) ==
  /\ pc[c] = "flush"
  /\ \/ /\ staged' = [staged EXCEPT ![c] = FALSE] /\ UNCHANGED lost
        /\ Goto(c, IF closing[c] THEN "leaving" ELSE "head")
     \/ staged[c] /\ LeaveLosing(c) /\ UNCHANGED staged
  /\ UNCHANGED <<clients, registry, oob, closing, loops, stop, toKill>>

Unregister(c) ==
  /\ pc[c] = "leaving"
  /\ registry' = registry \ {c}
  /\ Goto(c, "removing")
  /\ UNCHANGED <<clients, oob, staged, closing, lost, loops, stop, toKill>>

(* Out of ServerShared.clients; the receiver, the output buffer and the    *)
(* client's flags go with the task.                                        *)
Remove(c) ==
  /\ pc[c] = "removing"
  /\ clients' = clients \ {c}
  /\ oob' = [oob EXCEPT ![c] = <<>>] /\ closing' = [closing EXCEPT ![c] = FALSE]
  /\ staged' = [staged EXCEPT ![c] = FALSE] /\ lost' = [lost EXCEPT ![c] = FALSE]
  /\ Goto(c, "gone")
  /\ UNCHANGED <<registry, loops, stop, toKill>>
-----------------------------------------------------------------------------
(* A publisher pushes to a handle it holds.                                *)
Push(c, msg) ==
  /\ c \in clients \cap Pushed /\ Len(oob[c]) < MaxOob /\ stop # "exited"
  /\ Send(c, msg)
  /\ UNCHANGED <<pc, clients, registry, staged, closing, lost, loops, stop, toKill>>

(* ServerHandle::shutdown: the flag, the snapshot, a Kill to each handle,  *)
(* then the accept loops are aborted.                                      *)
ShutdownFlag ==
  /\ stop = "no"
  /\ stop' = "flagged"
  /\ UNCHANGED <<pc, clients, registry, oob, staged, closing, lost, loops, toKill>>

ShutdownSnapshot ==
  /\ stop = "flagged"
  /\ stop' = "killing" /\ toKill' = clients
  /\ UNCHANGED <<pc, clients, registry, oob, staged, closing, lost, loops>>

(* Sending to a task that is gone fails and is ignored.                    *)
ShutdownKill(c) ==
  /\ stop = "killing" /\ c \in toKill
  /\ toKill' = toKill \ {c}
  /\ IF pc[c] \in Ended THEN UNCHANGED oob ELSE Send(c, "Kill")
  /\ UNCHANGED <<pc, clients, registry, staged, closing, lost, loops, stop>>

ShutdownAbort ==
  /\ stop = "killing" /\ toKill = {}
  /\ stop' = "done" /\ loops' = 0
  /\ UNCHANGED <<pc, clients, registry, oob, staged, closing, lost, toKill>>

(* main returns: the runtime is dropped, and every task at an await with   *)
(* it, and what they shared.                                               *)
ProcessExit ==
  /\ stop = "done"
  /\ stop' = "exited"
  /\ pc' = [c \in Conns |-> IF pc[c] \in Ended \cup {"off"} THEN pc[c] ELSE "dropped"]
  /\ clients' = {} /\ registry' = {}
  /\ oob' = [c \in Conns |-> <<>>]
  /\ staged' = [c \in Conns |-> FALSE] /\ closing' = staged' /\ lost' = staged'
  /\ UNCHANGED <<loops, toKill>>

Task(c) ==
  \/ Admit(c) \/ Insert(c) \/ Register(c) \/ LoopTop(c) \/ Receive(c) \/ Read(c)
  \/ Run(c) \/ BatchEnd(c) \/ Flush(c) \/ Unregister(c) \/ Remove(c)
  \/ HangUp(c)

Shutdown ==
  \/ ShutdownSnapshot \/ ShutdownAbort
  \/ \E c \in Conns : ShutdownKill(c)

Next ==
  \/ \E c \in Conns :
       \/ Accept(c) \/ Task(c)
       \/ \E msg \in {"Frame", "Unblock"} : Push(c, msg)
  \/ LoopReturns \/ ShutdownFlag \/ Shutdown \/ ProcessExit

(* A task that can take a step is polled again (tokio), which for a flush  *)
(* says that the peer reads or the write fails, and a batch is finite: the *)
(* read buffer holds finitely many commands.  The thread in shutdown()     *)
(* finishes it.  Nobody has to connect, send, hang up or shut down.        *)
TaskStep(c) == Admit(c) \/ Insert(c) \/ Register(c) \/ LoopTop(c) \/ Receive(c)
               \/ BatchEnd(c) \/ Flush(c) \/ Unregister(c) \/ Remove(c)

Fairness == /\ \A c \in Conns : WF_vars(TaskStep(c))
            /\ WF_vars(Shutdown)

Spec == Init /\ [][Next]_vars /\ Fairness
-----------------------------------------------------------------------------
(* maxclients is checked before the connection is counted, so more may be  *)
(* let in, but never by more than the other worker threads: no await lies  *)
(* between the check and the insertion.  The accounting is exact: who is   *)
(* in clients is whoever is being served.                                  *)
AdmissionOvershoot ==
  /\ Cardinality(clients) <= MaxClients + Workers - 1
  /\ clients = {c \in Conns : pc[c] \in {"inserted", "head", "select", "batch", "flush"}
                                         \cup Left}

(* A client is never left without a reply it was owed (listener.rs:52):    *)
(* a connection that ends for any reason but a failed write, a breached    *)
(* limit or the end of the process has flushed everything it staged.       *)
OwedRepliesSent ==
  \A c \in Conns : pc[c] \in Left /\ ~lost[c] => ~staged[c]

(* A connection that was sent Kill, by shutdown or by another connection's *)
(* CLIENT KILL, or is served while the server shuts down, ends: also when  *)
(* the Kill waits behind pushed frames or while it runs a batch, and also  *)
(* a connection admitted too late for shutdown's snapshot.                 *)
AskedToCloseCloses ==
  \A c \in Conns :
    pc[c] \notin Ended \cup {"off"} /\ (ShuttingDown \/ KillWaits(c))
      ~> pc[c] \in Ended
=============================================================================
