------------------------------- MODULE Config ------------------------------
(***************************************************************************)
(* config.rs: the directives, how the configuration is built at startup    *)
(* from a file and the command line, and how CONFIG SET replaces it while  *)
(* other threads read it (command/server.rs cmd_config).  One directive of *)
(* each kind stands for the directives of that kind; arguments are texts,  *)
(* CfgInts and CfgMem say which of them Rust's parse and parse_memory take *)
(* for a number.                                                           *)
(***************************************************************************)
EXTENDS Integers, Sequences, FiniteSets, Option

CONSTANTS
  CfgInts,       \* text -> i64
  CfgMem,        \* text -> u64, sizes with their suffix included
  CfgU16Max, CfgU32Max, \* bounds of the integer types (scaled down)
  CfgPolicies,   \* the names of eviction policies
  CfgFiles,      \* config files: sequences of <<name, args>> lines
  CfgOverrides,  \* command lines: sequences of <<name, args>> after "--"
  CfgRequests,   \* CONFIG SET requests: sequences of <<name, value>>
  CfgWriters,    \* threads running CONFIG SET
  CfgMaxStores   \* bound on the stores of a run

(* Lines and requests are sequences of pairs.                              *)
CfgPairs(lines) ==
  /\ Len(lines) \in Nat /\ DOMAIN lines = 1 .. Len(lines)
  /\ \A k \in DOMAIN lines : lines[k] = <<lines[k][1], lines[k][2]>>

ASSUME CfgConstants ==
  /\ \A lines \in CfgFiles : CfgPairs(lines)
  /\ \A lines \in CfgOverrides : CfgPairs(lines)
  /\ \A req \in CfgRequests : CfgPairs(req)

VARIABLES
  conf,     \* ArcSwap: what ConfigHandle::load returns; Nil: startup refused
  boot,     \* [file, args]: how the server was started
  cfgPc,    \* writer -> "idle", "updating"
  cfgReq,   \* writer -> the request it runs
  cfgNext,  \* writer -> the clone it changes
  cfgAt,    \* writer -> how many directives it has applied
  cfgGot,   \* writer -> what its last CONFIG GET found
  stored    \* the configurations stored so far (history)

cfgVars == <<conf, boot, cfgPc, cfgReq, cfgNext, cfgAt, cfgGot, stored>>

CfgDefault ==
  [port |-> 1, timeout |-> 0, databases |-> 2, samples |-> 1, appendonly |-> FALSE,
   maxmemory |-> 0, policy |-> "noeviction", requirepass |-> Nil, bind |-> <<"*">>,
   save |-> << <<1, 1>> >>]

CfgInt(a) == IF a \in DOMAIN CfgInts THEN CfgInts[a] ELSE Nil
CfgUint(a) == IF CfgInt(a) = Nil THEN Nil ELSE IF CfgInt(a) < 0 THEN Nil ELSE CfgInt(a)
CfgU16(a) == IF CfgInt(a) = Nil THEN Nil ELSE IF CfgInt(a) \in 0 .. CfgU16Max THEN CfgInt(a) ELSE Nil
(* try_from(..).unwrap_or(u32::MAX): too large saturates.                  *)
CfgU32(a) == IF CfgUint(a) = Nil THEN Nil ELSE IF CfgUint(a) > CfgU32Max THEN CfgU32Max ELSE CfgUint(a)
CfgUsizeNotZero(a) == IF CfgUint(a) = 0 THEN Nil ELSE CfgUint(a)
CfgBool(a) == IF a \in {"yes", "true", "1"} THEN TRUE
              ELSE IF a \in {"no", "false", "0"} THEN FALSE ELSE Nil
parse_memory(a) == IF a \in DOMAIN CfgMem THEN CfgMem[a] ELSE Nil
CfgPolicy(a) == IF a \in CfgPolicies THEN a ELSE Nil

(* A directive with one argument: the field it sets and the value it takes *)
(* it to, Nil when the argument is refused.                                *)
CfgValue(name, a) ==
  CASE name = "port"              -> <<"port", CfgU16(a)>>
    [] name = "timeout"           -> <<"timeout", CfgUint(a)>>
    [] name = "databases"         -> <<"databases", CfgUsizeNotZero(a)>>
    [] name = "maxmemory-samples" -> <<"samples", CfgU32(a)>>
    [] name = "appendonly"        -> <<"appendonly", CfgBool(a)>>
    [] name = "maxmemory"         -> <<"maxmemory", parse_memory(a)>>
    [] name = "maxmemory-policy"  -> <<"policy", CfgPolicy(a)>>
CfgSingles == {"port", "timeout", "databases", "maxmemory-samples", "appendonly",
               "maxmemory", "maxmemory-policy"}
CfgIgnored == {"hz", "protected-mode"}

(* `save`: "" alone clears; pairs add; one that does not parse is refused. *)
CfgSave(c, args) ==
  LET pair(k) == <<CfgUint(args[2 * k - 1]), CfgUint(args[2 * k])>>
      pairs == [k \in 1 .. Len(args) \div 2 |-> pair(k)]
  IN IF args = <<"">> THEN [c EXCEPT !.save = <<>>]
     ELSE IF args = <<>> \/ Len(args) % 2 = 1 THEN Nil
     ELSE IF \E k \in DOMAIN pairs : Nil \in Seqs!Range(pairs[k]) THEN Nil
     ELSE [c EXCEPT !.save = @ \o pairs]

(* Config::apply: the configuration, or Nil when it is an error.           *)
CfgApply(c, name, args) ==
  CASE name = "bind" -> IF args = <<>> THEN Nil ELSE [c EXCEPT !.bind = args]
    [] name = "save" -> CfgSave(c, args)
    [] name \in CfgIgnored -> c
    [] name = "requirepass" ->
         IF args = <<>> THEN Nil
         ELSE [c EXCEPT !.requirepass = IF args[1] = "" THEN Nil ELSE args[1]]
    [] name \in CfgSingles ->
         LET v == CfgValue(name, args[1])
         IN IF args = <<>> \/ v[2] = Nil THEN Nil ELSE [c EXCEPT ![v[1]] = v[2]]
    [] OTHER -> Nil

CfgValidate(c) == c.databases > 0 /\ c.samples > 0

(* apply_overrides: a --save on the command line starts from no points.    *)
CfgOverride(c, l) ==
  LET cleared == IF l[1] = "save" THEN [c EXCEPT !.save = <<>>] ELSE c
  IN IF l = <<"save", <<"">> >> THEN cleared ELSE CfgApply(cleared, l[1], l[2])

CfgLine(cli, c, l) == IF cli THEN CfgOverride(c, l) ELSE CfgApply(c, l[1], l[2])

(* Line after line; the first one that is refused ends it.                 *)
CfgLines(cli, c, lines) ==
  LET after[n \in 0 .. Len(lines)] ==
        IF n = 0 THEN c
        ELSE IF after[n - 1] = Nil THEN Nil ELSE CfgLine(cli, after[n - 1], lines[n])
  IN after[Len(lines)]

load_str(c, lines) == CfgLines(FALSE, c, lines)
apply_overrides(c, lines) == CfgLines(TRUE, c, lines)

(* Cli::into_config; Nil when the server refuses to start.                 *)
into_config(file, args) ==
  LET loaded == load_str(CfgDefault, file)
      full == IF loaded = Nil THEN Nil ELSE apply_overrides(loaded, args)
  IN IF full = Nil THEN Nil ELSE IF CfgValidate(full) THEN full ELSE Nil
-----------------------------------------------------------------------------
cfgInit ==
  /\ boot \in [file : CfgFiles, args : CfgOverrides]
  /\ conf = into_config(boot.file, boot.args)
  /\ cfgPc = [w \in CfgWriters |-> "idle"]
  /\ cfgReq = [w \in CfgWriters |-> <<>>]
  /\ cfgNext = [w \in CfgWriters |-> Nil]
  /\ cfgAt = [w \in CfgWriters |-> 0]
  /\ cfgGot = [w \in CfgWriters |-> Nil]
  /\ stored = <<conf>>

(* CONFIG SET: update() clones the snapshot.                               *)
ConfigSet(w, req) ==
  /\ conf # Nil /\ cfgPc[w] = "idle" /\ Len(stored) <= CfgMaxStores
  /\ cfgPc' = [cfgPc EXCEPT ![w] = "updating"]
  /\ cfgReq' = [cfgReq EXCEPT ![w] = req]
  /\ cfgNext' = [cfgNext EXCEPT ![w] = conf]
  /\ cfgAt' = [cfgAt EXCEPT ![w] = 0]
  /\ UNCHANGED <<conf, boot, cfgGot, stored>>

CfgForget(w) ==
  /\ cfgPc' = [cfgPc EXCEPT ![w] = "idle"]
  /\ cfgReq' = [cfgReq EXCEPT ![w] = <<>>]
  /\ cfgNext' = [cfgNext EXCEPT ![w] = Nil]
  /\ cfgAt' = [cfgAt EXCEPT ![w] = 0]

(* A plausible slip: each directive is applied to the live configuration.  *)
ConfigApply_live(w) ==
  LET d == cfgReq[w][cfgAt[w] + 1]
      next == CfgApply(cfgNext[w], d[1], <<d[2]>>)
  IN /\ cfgPc[w] = "updating" /\ cfgAt[w] < Len(cfgReq[w])
     /\ IF next = Nil THEN CfgForget(w) /\ UNCHANGED <<conf, stored>>
        ELSE /\ cfgNext' = [cfgNext EXCEPT ![w] = next]
             /\ cfgAt' = [cfgAt EXCEPT ![w] = @ + 1]
             /\ conf' = next /\ stored' = Append(stored, next)
             /\ UNCHANGED <<cfgPc, cfgReq>>
     /\ UNCHANGED <<boot, cfgGot>>

(* One directive, applied to the clone; an error drops the clone.          *)
ConfigApply(w) ==
  LET d == cfgReq[w][cfgAt[w] + 1]
      next == CfgApply(cfgNext[w], d[1], <<d[2]>>)
  IN /\ cfgPc[w] = "updating" /\ cfgAt[w] < Len(cfgReq[w])
     /\ IF next = Nil THEN CfgForget(w)
        ELSE /\ cfgNext' = [cfgNext EXCEPT ![w] = next]
             /\ cfgAt' = [cfgAt EXCEPT ![w] = @ + 1]
             /\ UNCHANGED <<cfgPc, cfgReq>>
     /\ UNCHANGED <<conf, boot, cfgGot, stored>>

(* Every directive is in: validate, then swap the pointer.                 *)
ConfigStore(w) ==
  /\ cfgPc[w] = "updating" /\ cfgAt[w] = Len(cfgReq[w])
  /\ IF CfgValidate(cfgNext[w])
     THEN conf' = cfgNext[w] /\ stored' = Append(stored, cfgNext[w])
     ELSE UNCHANGED <<conf, stored>>
  /\ CfgForget(w)
  /\ UNCHANGED <<boot, cfgGot>>

(* CONFIG GET, or any command: one snapshot for as long as it runs.        *)
ConfigGet(w) ==
  /\ conf # Nil /\ cfgPc[w] = "idle" /\ cfgGot[w] # conf
  /\ cfgGot' = [cfgGot EXCEPT ![w] = conf]
  /\ UNCHANGED <<conf, boot, cfgPc, cfgReq, cfgNext, cfgAt, stored>>

cfgNextStep ==
  \E w \in CfgWriters :
    \/ \E req \in CfgRequests : ConfigSet(w, req)
    \/ ConfigApply(w) \/ ConfigStore(w) \/ ConfigGet(w)

cfgSpec == cfgInit /\ [][cfgNextStep]_cfgVars
-----------------------------------------------------------------------------
(* The whole effect of a request: each field has the value the request's   *)
(* last directive for it names, and the other fields are untouched.        *)
CfgNames(req, field) ==
  {k \in DOMAIN req : req[k][1] \in CfgSingles /\ CfgValue(req[k][1], req[k][2])[1] = field}
CfgWhole(old, new, req) ==
  /\ \A f \in DOMAIN CfgDefault \ {"requirepass", "save", "bind"} :
       LET ks == CfgNames(req, f)
       IN new[f] = IF ks = {} THEN old[f]
                   ELSE CfgValue(req[Seqs!Max(ks)][1], req[Seqs!Max(ks)][2])[2]
  /\ new.requirepass =
       LET ks == {k \in DOMAIN req : req[k][1] = "requirepass"}
       IN IF ks = {} THEN old.requirepass
          ELSE IF req[Seqs!Max(ks)][2] = "" THEN Nil ELSE req[Seqs!Max(ks)][2]
  /\ new.save = IF \E k \in DOMAIN req : req[k] = <<"save", "">> THEN <<>> ELSE old.save

(* "Readers never observe a half-applied change" (config.rs:638): whatever *)
(* a reader loads was valid and is, whole, the outcome of one request on a *)
(* configuration loaded earlier; a request with a directive that fails, or *)
(* whose outcome does not validate, leaves no trace.  At startup the       *)
(* command line wins over the file, and --save replaces its save points.   *)
ReadersSeeWholeChanges ==
  conf # Nil =>
    /\ \A i \in 2 .. Len(stored) : \E j \in 1 .. i - 1 : \E req \in CfgRequests :
         CfgWhole(stored[j], stored[i], req)
    /\ \A i \in DOMAIN stored : CfgValidate(stored[i])
    /\ conf = Seqs!Last(stored)
    /\ \A w \in CfgWriters : cfgGot[w] \in Seqs!Range(stored) \cup {Nil}
    /\ LET points(lines) == {l[2] : l \in {x \in Seqs!Range(lines) : x[1] = "save"}}
       IN /\ points(boot.args) = {<<"">>} => stored[1].save = <<>>
          /\ points(boot.args) = {} /\ points(boot.file) = {} => stored[1].save = CfgDefault.save
          /\ \A l \in Seqs!Range(boot.args) : l[1] = "port" =>
               (stored[1].port = CfgInts[l[2][1]] \/ \E x \in Seqs!Range(boot.args) : x # l /\ x[1] = "port")
=============================================================================
