------------------------------- MODULE Watch --------------------------------
(***************************************************************************)
(* Optimistic locking on top of the keyspace: a client registers a key     *)
(* with Db::watch_key and keeps the counter it returns; EXEC aborts when   *)
(* Db::watch_version no longer returns that counter.  The WATCH, UNWATCH   *)
(* and EXEC commands themselves are not written yet (transaction.rs is a   *)
(* stub); they are modelled as the comments of Db say they use it.         *)
(***************************************************************************)
EXTENDS Keyspace

CONSTANTS
  Clients,    \* connections that use WATCH
  LastOnly,   \* an UNWATCH drops the registration only for its last watcher
  MaxSeq      \* bound on Db.watch_seq

ASSUME WatchConstants ==
  /\ LastOnly \in BOOLEAN
  /\ MaxSeq \in Nat

VARIABLES
  seen,    \* client -> the slot it watches and the counter it was given
  changed  \* client -> has the entry of that slot changed since? (history)

wvars == <<dict, expires, watch, wseq, dirty, buf, now, at, seen, changed>>

WInit ==
  /\ Init
  /\ seen = [w \in Clients |-> Absent]
  /\ changed = [w \in Clients |-> FALSE]

(* Db::watch_key: the current counter, registering the key at 0.           *)
WatchKey(w, s) ==
  LET v == IF watch[s] = Absent THEN 0 ELSE watch[s]
  IN /\ seen[w] = Absent
     /\ watch' = [watch EXCEPT ![s] = v]
     /\ seen' = [seen EXCEPT ![w] = [slot |-> s, version |-> v]]
     /\ changed' = [changed EXCEPT ![w] = FALSE]
     /\ UNCHANGED <<dict, expires, wseq, dirty, buf, now, at>>

(* Db::unwatch_key: the registration of the key goes, whoever made it.     *)
UnwatchKey(w) ==
  /\ seen[w] # Absent
  /\ watch' = IF LastOnly /\ \E v \in Clients \ {w} :
                               seen[v] # Absent /\ seen[v].slot = seen[w].slot
              THEN watch
              ELSE [watch EXCEPT ![seen[w].slot] = Absent]
  /\ seen' = [seen EXCEPT ![w] = Absent]
  /\ UNCHANGED <<dict, expires, wseq, dirty, buf, now, at, changed>>

(* A step of the keyspace, and what it does to the watched slots.          *)
KeyspaceStep ==
  /\ Next
  /\ \A b \in DOMAIN wseq' : wseq'[b] <= MaxSeq
  /\ changed' = [w \in Clients |->
                   \/ changed[w]
                   \/ /\ seen[w] # Absent
                      /\ dict'[seen[w].slot] # dict[seen[w].slot]]
  /\ UNCHANGED seen

WNext ==
  \/ KeyspaceStep
  \/ \E w \in Clients, s \in Slots : WatchKey(w, s)
  \/ \E w \in Clients : UnwatchKey(w)

WSpec == WInit /\ [][WNext]_wvars

-----------------------------------------------------------------------------
(* What EXEC relies on: a client whose watched key was created, changed,   *)
(* deleted, expired, evicted, renamed, moved or flushed since its WATCH    *)
(* sees another counter than the one it kept (Db.watch_seq: "globally      *)
(* increasing within the shard and cannot ABA").                           *)
WatchDetects ==
  \A w \in Clients :
    seen[w] # Absent /\ changed[w] => watch[seen[w].slot] # seen[w].version

(* A read command, or a sweep, of keys that are still alive does not abort *)
(* anybody's transaction (ARCHITECTURE.md section 9.3): a counter moves    *)
(* only in a step that writes a key of the same shard.                     *)
ReadsNeverAbort ==
  [][Reaping /\ dict' = dict => watch' = watch /\ wseq' = wseq]_wvars
=============================================================================
