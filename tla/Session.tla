------------------------------ MODULE Session ------------------------------
(***************************************************************************)
(* One client's commands and the replies they earn: the batch loop         *)
(* (net/conn.rs execute_batch), the path of engine::dispatch around a      *)
(* handler, and the connection commands (command/connection.rs).  A        *)
(* request is [cmd, args]; the options of HELLO and the filters of CLIENT  *)
(* KILL and LIST are parsed already.  Pub/sub, MULTI and blocking do not   *)
(* exist in this code yet, so no command reaches their branches.           *)
(***************************************************************************)
EXTENDS Integers, Sequences, FiniteSets, Option

CONSTANTS
  SessRequests,     \* SessRequests[k]: what the client may send as command k
  SessDatabases,    \* databases: SELECT takes 0 .. SessDatabases - 1
  SessPasswords,    \* values of requirepass
  SessNumerals,     \* text -> integer, for the texts string2ll accepts
  SessBadNames,     \* names with a byte outside '!' .. '~'
  SessPeers,        \* the other connections: [id, addr, laddr, type, age]
  SessMe            \* this connection's id, address and so on

VARIABLES
  sess,          \* ClientState: [db, proto, name, lib, authed, flags]
  entry,         \* ConnEntry: the state CLIENT LIST shows others
  peers,         \* the other entries of the registry
  asked,         \* the ids Kill was sent to
  requirepass,   \* the password in force, Nil when there is none
  staging,       \* replies of this batch: [n, proto, r], n the request's number
  sent,          \* replies flushed
  sessPc,        \* "reading", "batch", "flush", "closing", "closed"
  born,          \* requirepass when the client connected (history)
  seen           \* the requests run: [req, pass, peers] (history)

sessVars == <<sess, entry, peers, asked, requirepass, staging, sent, sessPc, born, seen>>

RESP2 == 2
RESP3 == 3

IntArg(a) == IF a \in DOMAIN SessNumerals THEN SessNumerals[a] ELSE Nil

(* A handler's result: the client's new state, and a reply or an error.    *)
Replies(s, r) == [s |-> s, out |-> <<r>>, err |-> Nil]
NoReply(s) == [s |-> s, out |-> <<>>, err |-> Nil]
Fails(s, e) == [s |-> s, out |-> <<>>, err |-> e]

should_close(s) == "CLOSE_AFTER_REPLY" \in s.flags
close_after_reply(s) == [s EXCEPT !.flags = @ \cup {"CLOSE_AFTER_REPLY"}]
reply_suppressed(s) == s.flags \cap {"REPLY_OFF", "REPLY_SKIP"} # {}

LibFields == {"lib-name", "lib-ver"}

NewClient(pass) ==
  [db |-> 0, proto |-> RESP2, name |-> "", lib |-> [f \in LibFields |-> ""],
   authed |-> pass = Nil, flags |-> {}]

(* ConnSnapshot::refresh_from.                                             *)
refresh_from(s) == [db |-> s.db, resp |-> s.proto, name |-> s.name]

cmd_ping(s, args) ==
  CASE args = <<>>    -> Replies(s, <<"PONG">>)
    [] Len(args) = 1  -> Replies(s, <<"bulk", args[1]>>)
    [] OTHER          -> Fails(s, "WrongArity")

cmd_echo(s, args) == Replies(s, <<"bulk", args[1]>>)

cmd_select(s, args) ==
  LET n == IntArg(args[1])
  IN IF n = Nil THEN Fails(s, "NotAnInteger")
     ELSE IF n \notin 0 .. SessDatabases - 1 THEN Fails(s, "OutOfRange")
     ELSE Replies([s EXCEPT !.db = n], <<"OK">>)

cmd_quit(s) == Replies(close_after_reply(s), <<"OK">>)

(* Nil when the pair is right.                                             *)
check_auth(pass, user, given) ==
  IF pass = Nil THEN "NoPasswordSet"
  ELSE IF user \notin {Nil, "default"} \/ given # pass THEN "WrongPass"
  ELSE Nil

cmd_auth(s, args, pass) ==
  LET e == check_auth(pass, IF Len(args) = 2 THEN args[1] ELSE Nil, args[Len(args)])
  IN IF Len(args) > 2 THEN Fails(s, "WrongArity")
     ELSE IF e # Nil THEN Fails(s, e)
     ELSE Replies([s EXCEPT !.authed = TRUE], <<"OK">>)

ValidName(name) == name \notin SessBadNames

(* The AUTH and SETNAME suffix, applied option by option: an option that   *)
(* fails leaves the ones before it in force.                               *)
HelloOption(acc, o, pass) ==
  LET e == check_auth(pass, o[2], o[3])
  IN IF acc.err # Nil THEN acc
     ELSE IF o[1] = "AUTH" THEN IF e # Nil THEN Fails(acc.s, e)
                                ELSE NoReply([acc.s EXCEPT !.authed = TRUE])
     ELSE IF o[1] # "SETNAME" THEN Fails(acc.s, "UnknownArgument")
     ELSE IF ValidName(o[2]) THEN NoReply([acc.s EXCEPT !.name = o[2]])
     ELSE Fails(acc.s, "BadName")

HelloOptions(s, opts, pass) ==
  LET upto[k \in 0 .. Len(opts)] ==
        IF k = 0 THEN NoReply(s) ELSE HelloOption(upto[k - 1], opts[k], pass)
  IN upto

cmd_hello(s, ver, opts, pass) ==
  LET v == IF ver = Nil THEN s.proto ELSE IntArg(ver)
      done == HelloOptions(s, opts, pass)[Len(opts)]
  IN IF v = Nil THEN Fails(s, "NotAnInteger")
     ELSE IF v \notin {RESP2, RESP3} THEN Fails(s, "NoProto")
     ELSE IF done.err # Nil THEN done
     ELSE IF ~done.s.authed THEN Fails(done.s, "NoAuth")
     ELSE Replies([done.s EXCEPT !.proto = v], <<"hello", v>>)

cmd_reset(s, pass) ==
  Replies([s EXCEPT !.db = 0, !.proto = RESP2, !.name = "",
                    !.flags = @ \ {"MULTI", "DIRTY_CAS", "DIRTY_EXEC", "MONITOR",
                                   "REPLY_OFF", "REPLY_SKIP", "REPLY_SKIP_NEXT"},
                    !.authed = @ /\ pass = Nil],
          <<"RESET">>)

set_flag(s, arg, flag) ==
  CASE arg = "on"  -> Replies([s EXCEPT !.flags = @ \cup {flag}], <<"OK">>)
    [] arg = "off" -> Replies([s EXCEPT !.flags = @ \ {flag}], <<"OK">>)
    [] OTHER       -> Fails(s, "Syntax")

client_reply(s, arg) ==
  CASE arg = "on"   -> Replies([s EXCEPT !.flags = @ \ {"REPLY_OFF", "REPLY_SKIP", "REPLY_SKIP_NEXT"}],
                               <<"OK">>)
    [] arg = "off"  -> NoReply([s EXCEPT !.flags = @ \cup {"REPLY_OFF"}])
    [] arg = "skip" -> NoReply(IF "REPLY_OFF" \in s.flags THEN s
                               ELSE [s EXCEPT !.flags = @ \cup {"REPLY_SKIP_NEXT"}])
    [] OTHER        -> Fails(s, "Syntax")

(* The caller's row, from live state and not from what it last published.  *)
self_snapshot(s) == refresh_from(s)

(* CLIENT LIST [TYPE type] [ID id ...]: the ids of the rows shown.         *)
client_list(s, others, f) ==
  Replies(s, <<"list", {e.id : e \in {c \in others \cup {SessMe} :
                          (f.type # Nil => c.type = f.type) /\ (f.ids # {} => c.id \in f.ids)}}>>)

(* KillFilter::matches; Nil is a filter that was not given.                *)
KillMatches(f, c) ==
  /\ f.id \in {Nil, c.id} /\ f.addr \in {Nil, c.addr} /\ f.laddr \in {Nil, c.laddr}
  /\ f.class \in {Nil, c.type}
  /\ f.maxage # Nil => c.age >= f.maxage

KillTargets(others, f) ==
  {c \in others \cup {SessMe} : KillMatches(f, c) /\ ~(f.skipme /\ c.id = SessMe.id)}

(* The caller is closed after the reply, the others are sent Kill.         *)
client_kill(s, others, f) ==
  LET hit == KillTargets(others, f)
      after == IF \E c \in hit : c.id = SessMe.id THEN close_after_reply(s) ELSE s
  IN IF ~f.old THEN Replies(after, <<"int", Cardinality(hit)>>)
     ELSE IF hit = {} THEN Fails(s, "NoSuchClient")
     ELSE Replies(after, <<"OK">>)

ClientArity == [id |-> 1, getname |-> 1, setname |-> 2, setinfo |-> 3, info |-> 1,
                noevict |-> 2, notouch |-> 2, unpause |-> 1, reply |-> 2]

cmd_client(s, req, others) ==
  LET sub == req.args[1]  args == req.args
  IN IF sub \in DOMAIN ClientArity /\ Len(args) # ClientArity[sub] THEN Fails(s, "WrongArity")
     ELSE CASE sub = "id"      -> Replies(s, <<"int", SessMe.id>>)
       [] sub = "getname" -> Replies(s, IF s.name = "" THEN <<"null">> ELSE <<"bulk", s.name>>)
       [] sub = "setname" -> IF ValidName(args[2]) THEN Replies([s EXCEPT !.name = args[2]], <<"OK">>)
                             ELSE Fails(s, "BadName")
       [] sub = "setinfo" -> IF ~ValidName(args[3]) THEN Fails(s, "BadName")
                             ELSE IF args[2] \notin LibFields THEN Fails(s, "BadOption")
                             ELSE Replies([s EXCEPT !.lib[args[2]] = args[3]], <<"OK">>)
       [] sub = "info"    -> Replies(s, <<"info", self_snapshot(s)>>)
       [] sub = "list"    -> client_list(s, others, req.filter)
       [] sub = "kill"    -> client_kill(s, others, req.filter)
       [] sub = "noevict" -> set_flag(s, args[2], "NO_EVICT")
       [] sub = "notouch" -> set_flag(s, args[2], "NO_TOUCH")
       [] sub = "unpause" -> Replies(s, <<"OK">>)
       [] sub = "reply"   -> client_reply(s, args[2])
       [] sub = "help"    -> Replies(s, <<"help">>)
       [] OTHER           -> Fails(s, "UnknownSubcommand")

(* The command table: how many arguments after the name.                   *)
CommandArity ==
  [ping |-> Nat, echo |-> {1}, select |-> {1}, quit |-> Nat, auth |-> Nat \ {0},
   hello |-> Nat, reset |-> {0}, client |-> Nat \ {0}]

Handler(s, req, pass, others) ==
  CASE req.cmd = "ping"   -> cmd_ping(s, req.args)
    [] req.cmd = "echo"   -> cmd_echo(s, req.args)
    [] req.cmd = "select" -> cmd_select(s, req.args)
    [] req.cmd = "quit"   -> cmd_quit(s)
    [] req.cmd = "auth"   -> cmd_auth(s, req.args, pass)
    [] req.cmd = "hello"  -> cmd_hello(s, req.ver, req.opts, pass)
    [] req.cmd = "reset"  -> cmd_reset(s, pass)
    [] req.cmd = "client" -> cmd_client(s, req, others)

NoAuthCommands == {"auth", "hello", "quit", "reset"}

(* dispatch: an error is written in the protocol read before the handler   *)
(* ran, a reply in the one the handler left.                               *)
dispatch(s, req, pass, others) ==
  LET ran == IF req.cmd \notin DOMAIN CommandArity THEN Fails(s, "UnknownCommand")
             ELSE IF Len(req.args) \notin CommandArity[req.cmd] THEN Fails(s, "WrongArity")
             ELSE IF ~s.authed /\ req.cmd \notin NoAuthCommands THEN Fails(s, "NoAuth")
             ELSE Handler(s, req, pass, others)
  IN [s |-> ran.s,
      out |-> IF ran.err # Nil THEN << [proto |-> s.proto, r |-> <<"error">>] >>
              ELSE [k \in DOMAIN ran.out |-> [proto |-> ran.s.proto, r |-> ran.out[k]]],
      outcome |-> IF ran.err = Nil /\ should_close(ran.s) THEN "Close" ELSE "Done"]

(* A plausible slip: SKIP is dropped with the command that asked for it.   *)
post_command_forgets(s) == [s EXCEPT !.flags = @ \ {"REPLY_SKIP", "REPLY_SKIP_NEXT"}]

post_command(s) ==
  [s EXCEPT !.flags = (@ \ {"REPLY_SKIP", "REPLY_SKIP_NEXT"})
                      \cup (IF "REPLY_SKIP_NEXT" \in @ THEN {"REPLY_SKIP"} ELSE {})]
-----------------------------------------------------------------------------
(* Requests are texts, with the options of HELLO as its syntax allows them;*)
(* connection ids are unique; None is no text.                             *)
SessErrors ==
  {"UnknownCommand", "WrongArity", "NoAuth", "NotAnInteger", "OutOfRange", "NoPasswordSet",
   "WrongPass", "UnknownArgument", "BadName", "NoProto", "Syntax", "NoSuchClient", "BadOption",
   "UnknownSubcommand"}
ASSUME SessConstants ==
  /\ Nil \notin STRING \cup SessErrors \cup DOMAIN CommandArity /\ Nil \notin Int /\ SessPasswords \subseteq STRING
  /\ SessNumerals \in [DOMAIN SessNumerals -> Int] /\ SessDatabases \in Nat
  /\ \A k \in DOMAIN SessRequests : \A req \in SessRequests[k] :
       /\ req.cmd \in STRING /\ req.args \in Seq(STRING)
       /\ req.cmd = "hello" =>
            /\ req.opts \in Seq(Seq(STRING))
            /\ \A i \in DOMAIN req.opts :
                 /\ req.opts[i] # <<>>
                 /\ req.opts[i][1] = "AUTH" => Len(req.opts[i]) = 3
                 /\ req.opts[i][1] = "SETNAME" => Len(req.opts[i]) = 2
  /\ \A p \in SessPeers : p.id # SessMe.id

(* Bound: the client has commands left to send.                            *)
SessMore == Len(seen) < Len(SessRequests)

sessInit ==
  /\ requirepass \in SessPasswords \cup {Nil}
  /\ born = requirepass
  /\ sess = NewClient(requirepass)
  /\ entry = refresh_from(sess)
  /\ peers = SessPeers /\ asked = {}
  /\ staging = <<>> /\ sent = <<>> /\ seen = <<>>
  /\ sessPc = "reading"

(* Bytes arrived; the connection publishes its state and starts a batch.   *)
SessionRead ==
  /\ sessPc = "reading" /\ SessMore
  /\ entry' = refresh_from(sess)
  /\ sessPc' = "batch"
  /\ UNCHANGED <<sess, peers, asked, requirepass, staging, sent, born, seen>>

(* What execute_batch makes of the outcome d of a command: its reply is    *)
(* dropped if replies are off; one that closes ends the batch before that. *)
Executed(req, d) ==
  LET mark == Len(staging)
      written == staging \o [k \in DOMAIN d.out |->
                             [n |-> Len(seen) + 1, proto |-> d.out[k].proto, r |-> d.out[k].r]]
      close == d.outcome = "Close"
      kill == req.cmd = "client" /\ d.out # <<>> /\ d.out[1].r # <<"error">> /\ req.args[1] = "kill"
  IN /\ staging' = IF ~close /\ reply_suppressed(d.s) THEN SubSeq(written, 1, mark) ELSE written
     /\ sess' = post_command(d.s)
     /\ sessPc' = IF close THEN "closing" ELSE "batch"
     /\ asked' = IF kill THEN asked \cup ({c.id : c \in KillTargets(peers, req.filter)} \ {SessMe.id})
                 ELSE asked

(* One complete command of the batch.                                      *)
SessionExecute(req) ==
  /\ sessPc = "batch" /\ SessMore /\ req \in SessRequests[Len(seen) + 1]
  /\ Executed(req, dispatch(sess, req, requirepass, peers))
  /\ seen' = Append(seen, [req |-> req, pass |-> requirepass, peers |-> peers])
  /\ UNCHANGED <<entry, peers, requirepass, sent, born>>

(* The parser found a protocol error: reply and hang up.                   *)
SessionMalformed ==
  /\ sessPc = "batch" /\ SessMore
  /\ staging' = Append(staging, [n |-> Len(seen) + 1, proto |-> sess.proto, r |-> <<"error">>])
  /\ sessPc' = "closing"
  /\ seen' = Append(seen, [req |-> [cmd |-> Nil, args |-> <<>>],
                           pass |-> requirepass, peers |-> peers])
  /\ UNCHANGED <<sess, entry, peers, asked, requirepass, sent, born>>

(* The read buffer holds no further complete command.                      *)
SessionIncomplete ==
  /\ sessPc = "batch"
  /\ sessPc' = "flush"
  /\ UNCHANGED <<sess, entry, peers, asked, requirepass, staging, sent, born, seen>>

SessionFlush ==
  /\ sessPc \in {"flush", "closing"}
  /\ sent' = sent \o staging
  /\ staging' = <<>>
  /\ entry' = refresh_from(sess)
  /\ sessPc' = IF sessPc = "closing" \/ should_close(sess) THEN "closed" ELSE "reading"
  /\ UNCHANGED <<sess, peers, asked, requirepass, born, seen>>

(* Another client sets requirepass (bound: once), or leaves.               *)
SessionOthers ==
  /\ sessPc # "closed" /\ SessMore
  /\ \/ requirepass = born /\ requirepass' \in (SessPasswords \cup {Nil}) \ {requirepass} /\ UNCHANGED peers
     \/ \E p \in peers : p.id \in asked /\ peers' = peers \ {p} /\ UNCHANGED requirepass
  /\ UNCHANGED <<sess, entry, asked, staging, sent, sessPc, born, seen>>

sessNext ==
  \/ SessionRead \/ SessionMalformed \/ SessionIncomplete \/ SessionFlush \/ SessionOthers
  \/ \E k \in DOMAIN SessRequests : \E req \in SessRequests[k] : SessionExecute(req)

sessSpec == sessInit /\ [][sessNext]_sessVars
-----------------------------------------------------------------------------
(* What each request is owed, read off the history alone: x is an event of *)
(* it, n the number of one.                                                *)
SessIs(x, cmd) == x.req.cmd = cmd
SessSub(x, args) == SessIs(x, "client") /\ x.req.args = args
Resets(x) == SessIs(x, "reset") /\ x.req.args = <<>>
LatestOf(E, default, Val(_)) == IF E = {} THEN default ELSE Val(Seqs!Max(E))

OptionFine(x, o) ==
  IF o[1] = "AUTH" THEN x.pass # Nil /\ o[2] = "default" /\ o[3] = x.pass
  ELSE o[1] = "SETNAME" /\ o[2] \notin SessBadNames
HelloVersionFine(x) == x.req.ver = Nil \/ IntArg(x.req.ver) \in {RESP2, RESP3}
OptionsDone(x, kind) ==
  {i \in DOMAIN x.req.opts :
     /\ HelloVersionFine(x) /\ x.req.opts[i][1] = kind
     /\ \A j \in 1 .. i : OptionFine(x, x.req.opts[j])}

GrantsAuth(x) ==
  \/ /\ SessIs(x, "auth") /\ x.pass # Nil
     /\ x.req.args \in {<<x.pass>>, <<"default", x.pass>>}
  \/ SessIs(x, "hello") /\ OptionsDone(x, "AUTH") # {}
DropsAuth(x) == Resets(x) /\ x.pass # Nil
AuthedBefore(n) ==
  LatestOf({m \in 1 .. n - 1 : GrantsAuth(seen[m]) \/ DropsAuth(seen[m])},
           born = Nil, LAMBDA m : GrantsAuth(seen[m]))

HelloDone(n) ==
  /\ SessIs(seen[n], "hello") /\ HelloVersionFine(seen[n])
  /\ \A i \in DOMAIN seen[n].req.opts : OptionFine(seen[n], seen[n].req.opts[i])
  /\ AuthedBefore(n) \/ GrantsAuth(seen[n])
NamesItself(n) ==
  \/ SessIs(seen[n], "hello") /\ OptionsDone(seen[n], "SETNAME") # {}
  \/ /\ SessIs(seen[n], "client") /\ AuthedBefore(n) /\ Len(seen[n].req.args) = 2
     /\ seen[n].req.args[1] = "setname" /\ seen[n].req.args[2] \notin SessBadNames
Selects(n) ==
  /\ SessIs(seen[n], "select") /\ AuthedBefore(n) /\ Len(seen[n].req.args) = 1
  /\ IntArg(seen[n].req.args[1]) \in 0 .. SessDatabases - 1

NameGiven(x) ==
  IF Resets(x) THEN ""
  ELSE IF SessIs(x, "client") THEN x.req.args[2]
  ELSE x.req.opts[Seqs!Max(OptionsDone(x, "SETNAME"))][2]

ProtoAfter(n) ==
  LatestOf({m \in 1 .. n : Resets(seen[m]) \/ (HelloDone(m) /\ seen[m].req.ver # Nil)}, RESP2,
           LAMBDA m : IF Resets(seen[m]) THEN RESP2 ELSE IntArg(seen[m].req.ver))
NameAfter(n) ==
  LatestOf({m \in 1 .. n : Resets(seen[m]) \/ NamesItself(m)}, "", LAMBDA m : NameGiven(seen[m]))
DbAfter(n) ==
  LatestOf({m \in 1 .. n : Resets(seen[m]) \/ Selects(m)}, 0,
           LAMBDA m : IF Resets(seen[m]) THEN 0 ELSE IntArg(seen[m].req.args[1]))

Says(n, what) == SessSub(seen[n], <<"reply", what>>) /\ AuthedBefore(n)
Unmutes(n) == Says(n, "on") \/ Resets(seen[n])
IsOff(n) ==
  LatestOf({m \in 1 .. n : Unmutes(m) \/ Says(m, "off")}, FALSE,
           LAMBDA m : SessSub(seen[m], <<"reply", "off">>))
IsSkipped(n) == n > 1 /\ Says(n - 1, "skip") /\ ~IsOff(n - 1) /\ ~Unmutes(n)
Closes(n) ==
  \/ SessIs(seen[n], "quit") \/ SessIs(seen[n], Nil)
  \/ /\ SessIs(seen[n], "client") /\ AuthedBefore(n)
     /\ seen[n].req.args # <<>> /\ seen[n].req.args[1] = "kill"
     /\ SessMe \in KillTargets(seen[n].peers, seen[n].req.filter)
IsSilent(n) == Says(n, "off") \/ Says(n, "skip") \/ (~Closes(n) /\ (IsOff(n) \/ IsSkipped(n)))

(* A command that closes the connection while replies are off or skipped.  *)
MutedClose(n) == Closes(n) /\ (IsOff(n) \/ IsSkipped(n))

(* Replies come in request order, one for each request that is not silent, *)
(* none for the others (conn.rs:288, "drop exactly one reply and nothing   *)
(* else"): REPLY OFF silences everything up to ON or RESET, SKIP the next  *)
(* command only and not while replies are off.  What a command that closes *)
(* the connection is owed while muted is left open here: there the code    *)
(* and its texts differ, see MutedCommandsSilent.  Each reply is written   *)
(* in the protocol in force for it; only AUTH, HELLO, QUIT and RESET are   *)
(* served to a client that has not authenticated since it connected or     *)
(* reset; names, database and protocol are those the history left, where a *)
(* HELLO that fails keeps the options before the failing one.              *)
RepliesAsPromised ==
  LET got == sent \o staging
      answered == {got[k].n : k \in DOMAIN got}
  IN /\ answered \subseteq DOMAIN seen
     /\ \A n \in DOMAIN seen : MutedClose(n) \/ (n \in answered <=> ~IsSilent(n))
     /\ \A k \in DOMAIN got :
          LET n == got[k].n  is(r) == got[k].r = r
          IN /\ k > 1 => n > got[k - 1].n
             /\ got[k].proto = ProtoAfter(n)
             /\ SessIs(seen[n], "hello") => (HelloDone(n) <=> got[k].r # <<"error">>)
             /\ ~AuthedBefore(n) /\ ~(seen[n].req.cmd \in NoAuthCommands) => is(<<"error">>)
             /\ AuthedBefore(n) =>
                  /\ SessSub(seen[n], <<"info">>) =>
                       is(<<"info", [db |-> DbAfter(n), resp |-> ProtoAfter(n), name |-> NameAfter(n)]>>)
                  /\ SessSub(seen[n], <<"getname">>) =>
                       is(IF NameAfter(n) = "" THEN <<"null">> ELSE <<"bulk", NameAfter(n)>>)
                  /\ SessIs(seen[n], "ping") /\ seen[n].req.args = <<>> => is(<<"PONG">>)
     /\ \A n \in DOMAIN seen : Closes(n) => n = Len(seen) /\ sessPc \in {"closing", "closed"}

(* What ctx.rs:429 says of reply_suppressed, "this command's reply must be *)
(* suppressed (CLIENT REPLY OFF|SKIP)", and the test of conn.rs:505, "only *)
(* CLIENT REPLY ON and what follows it may reply": no command replies      *)
(* while replies are off or skipped.  A protocol error is no command.      *)
MutedCommandsSilent ==
  LET got == sent \o staging
  IN \A k \in DOMAIN got :
       IsOff(got[k].n) \/ IsSkipped(got[k].n) => SessIs(seen[got[k].n], Nil)
=============================================================================
