----------------------------- MODULE MCConfig ------------------------------
EXTENDS Config, TLC

MCCfgInts == "0" :> 0 @@ "1" :> 1 @@ "3" :> 3 @@ "9" :> 9 @@ "-1" :> -1
MCCfgMem == "0" :> 0 @@ "1k" :> 1000 @@ "1kb" :> 1024
MCCfgFiles ==
  { <<>>, << <<"port", <<"3">> >>, <<"save", <<"3", "1">> >>, <<"hz", <<"x">> >> >>,
    << <<"save", <<"">> >>, <<"save", <<"9", "3", "1", "0">> >>, <<"bind", <<"*", "-h">> >> >>,
    << <<"maxmemory-samples", <<"0">> >> >>, << <<"polciy", <<"x">> >> >>, << <<"port", <<>> >> >> }
MCCfgOverrides ==
  { <<>>, << <<"port", <<"1">> >>, <<"save", <<"">> >> >>, << <<"save", <<"1", "1">> >> >>,
    << <<"save", <<"1">> >> >>, << <<"save", <<"1", "-1">> >> >>, << <<"bind", <<>> >> >> }
MCCfgRequests ==
  { << <<"port", "3">>, <<"appendonly", "yes">> >>,
    << <<"timeout", "9">>, <<"timeout", "1">>, <<"maxmemory", "1kb">> >>,
    << <<"maxmemory-policy", "allkeys-lru">>, <<"port", "9">> >>,
    << <<"databases", "1">>, <<"maxmemory-samples", "0">> >>,
    << <<"requirepass", "pw">>, <<"save", "">> >>, << <<"requirepass", "">>, <<"databases", "0">> >>,
    << <<"maxmemory-samples", "9">>, <<"save", "3 1">> >>, << <<"nosuch", "1">> >>, << <<"hz", "1">> >> }
=============================================================================
