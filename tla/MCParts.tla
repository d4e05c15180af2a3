------------------------------ MODULE MCParts ------------------------------
(***************************************************************************)
(* The parts of the server that share no state, explored in one run: a     *)
(* behaviour works on one part, the others stay as they start.             *)
(***************************************************************************)
EXTENDS IntSet, MCListPack, QuickList, SkipList, Rax, MCParser, OutputBuffer, MCSession, MCConfig, MCScan

VARIABLE part

MCISValues == {-16, -8, -5, -4, -1, 0, 4, 7, 8}
MCISHalf == 2 :> 4 @@ 4 :> 8 @@ 8 :> 16
MCQLLen == "a" :> 1 @@ "b" :> 2 @@ "L" :> 30
MCQLLevels == [k \in 1 .. 5 |-> 25]
MCQLFills == {3, -1}
MCRaxKeys == {<<>>, <<1, 2>>, <<1, 2, 1, 2>>, <<1, 2, 2>>, <<1, 1, 2>>}
MCRaxProbes == MCRaxKeys \cup {<<0>>, <<1>>, <<1, 0>>, <<1, 2, 1>>, <<1, 2, 1, 3>>, <<2>>}
MCOutLimit == [hard |-> 3, soft |-> 1, soft_ms |-> 2]

partsVars == <<part, isVars, lpVars, qlVars, zslVars, raxVars, parserVars, obVars, sessVars, cfgVars, vars>>

(* A part that is not the one explored has a single initial state.         *)
AStream == CHOOSE s \in RequestStreams : TRUE
AFill == CHOOSE f \in QLFills : TRUE
partsInit ==
  /\ part \in {"intset", "listpack", "quicklist", "skiplist", "rax", "parser", "output",
               "session", "config", "scan"}
  /\ isInit /\ zslInit /\ raxInit /\ obInit
  /\ lpInit /\ (part # "listpack" => lpAbs = <<>>)
  /\ qlInit /\ (part # "quicklist" => ql.fill = AFill)
  /\ parserInit /\ (part # "parser" => stream = AStream)
  /\ sessInit /\ (part # "session" => requirepass = Nil)
  /\ cfgInit /\ (part # "config" => boot = [file |-> <<>>, args |-> <<>>])
  /\ Init /\ (part # "scan" => present = {})

partsNext ==
  /\ UNCHANGED part
  /\ \/ /\ part = "intset" /\ isNext
        /\ UNCHANGED <<lpVars, qlVars, zslVars, raxVars, parserVars, obVars, sessVars, cfgVars, vars>>
     \/ /\ part = "listpack" /\ lpNext
        /\ UNCHANGED <<isVars, qlVars, zslVars, raxVars, parserVars, obVars, sessVars, cfgVars, vars>>
     \/ /\ part = "quicklist" /\ qlNext
        /\ UNCHANGED <<isVars, lpVars, zslVars, raxVars, parserVars, obVars, sessVars, cfgVars, vars>>
     \/ /\ part = "skiplist" /\ zslNext
        /\ UNCHANGED <<isVars, lpVars, qlVars, raxVars, parserVars, obVars, sessVars, cfgVars, vars>>
     \/ /\ part = "rax" /\ raxNext
        /\ UNCHANGED <<isVars, lpVars, qlVars, zslVars, parserVars, obVars, sessVars, cfgVars, vars>>
     \/ /\ part = "parser" /\ parserNext
        /\ UNCHANGED <<isVars, lpVars, qlVars, zslVars, raxVars, obVars, sessVars, cfgVars, vars>>
     \/ /\ part = "output" /\ obNext
        /\ UNCHANGED <<isVars, lpVars, qlVars, zslVars, raxVars, parserVars, sessVars, cfgVars, vars>>
     \/ /\ part = "session" /\ sessNext
        /\ UNCHANGED <<isVars, lpVars, qlVars, zslVars, raxVars, parserVars, obVars, cfgVars, vars>>
     \/ /\ part = "config" /\ cfgNextStep
        /\ UNCHANGED <<isVars, lpVars, qlVars, zslVars, raxVars, parserVars, obVars, sessVars, vars>>
     \/ /\ part = "scan" /\ Next
        /\ UNCHANGED <<isVars, lpVars, qlVars, zslVars, raxVars, parserVars, obVars, sessVars, cfgVars>>

partsSpec == partsInit /\ [][partsNext]_partsVars /\ Fairness
=============================================================================
