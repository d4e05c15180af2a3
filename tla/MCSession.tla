----------------------------- MODULE MCSession -----------------------------
(* Small sets of requests for Session.                                     *)
EXTENDS Session, TLC

MCMe == [id |-> 1, addr |-> "me", laddr |-> "s", type |-> "normal", age |-> 5]
MCPeers == { [id |-> 2, addr |-> "p", laddr |-> "s", type |-> "normal", age |-> 9] }
MCNumerals == "0" :> 0 @@ "1" :> 1 @@ "2" :> 2 @@ "3" :> 3 @@ "-1" :> -1

MCReq(cmd, args) == [cmd |-> cmd, args |-> args]
MCHello(ver, opts) == [cmd |-> "hello", args |-> <<>>, ver |-> ver, opts |-> opts]
MCKill(old, id, addr, maxage, skipme) ==
  [cmd |-> "client", args |-> <<"kill">>,
   filter |-> [old |-> old, id |-> id, addr |-> addr, laddr |-> Nil, class |-> Nil,
               maxage |-> maxage, skipme |-> skipme]]

(* What decides which replies are written and how.                         *)
MCModes ==
  {MCReq("client", <<"reply", w>>) : w \in {"on", "off", "skip"}}
  \cup {MCReq("reset", <<>>), MCHello("3", << <<"AUTH", "default", "pw">>, <<"SETNAME", "a">> >>),
        MCHello("3", << <<"SETNAME", "a">>, <<"AUTH", "default", "pw">>, <<"SETNAME", "b d">> >>)}

(* The rest of the connection commands, with what makes them fail.         *)
MCOthers ==
  { MCReq("quit", <<>>), MCHello("3", <<>>), MCReq("ping", <<>>), MCReq("ping", <<"m">>), MCReq("ping", <<"m", "n">>), MCReq("echo", <<"m">>),
    MCReq("select", <<"1">>), MCReq("select", <<"2">>), MCReq("select", <<"x">>),
    MCReq("auth", <<"pw">>), MCReq("auth", <<"joe", "pw">>), MCReq("auth", <<"default", "no">>),
    MCReq("auth", <<"a", "b", "c">>), MCReq("nosuch", <<>>), MCReq("reset", <<"now">>),
    MCHello(Nil, <<>>), MCHello("x", <<>>), MCHello("1", <<>>), MCHello("2", << <<"?">> >>),
    MCKill(TRUE, Nil, "me", Nil, FALSE), MCKill(TRUE, Nil, "nobody", Nil, FALSE),
    MCKill(FALSE, Nil, Nil, 6, TRUE), MCKill(FALSE, 1, Nil, Nil, FALSE) }
  \cup {MCReq("client", a) :
          a \in { <<"id">>, <<"getname">>, <<"setname", "a">>, <<"setname", "b d">>, <<"setname">>,
                  <<"setinfo", "lib-name", "l">>, <<"setinfo", "lib-no", "l">>,
                  <<"setinfo", "lib-ver", "b d">>, <<"noevict", "on">>,
                  <<"notouch", "off">>, <<"notouch", "maybe">>, <<"unpause">>, <<"reply", "maybe">>,
                  <<"help">>, <<"nosuch">> }}
  \cup {[cmd |-> "client", args |-> <<"list">>, filter |-> [type |-> Nil, ids |-> {1}]]}

(* What shows the state the first two left behind.                         *)
MCLast ==
  {MCReq("client", <<"info">>), MCReq("quit", <<>>), MCReq("client", <<"reply", "on">>)}

MCSessRequests == << MCModes, MCModes \cup MCOthers, MCLast >>
=============================================================================
