----------------------------- MODULE MCListPack ----------------------------
EXTENDS ListPack

As(n) == [i \in 1 .. n |-> 97]

(* "7", "-1", "01", "" and a string whose back length takes two bytes.     *)
MCLPValues == {<<55>>, <<45, 49>>, <<48, 49>>, As(126), <<>>}

(* One element on either side of every boundary of the encodings, and text *)
(* that is almost a number: "-0", "-" and i64::MAX + 1.                    *)
MCLPInits ==
  {<<>>, << <<45, 48>> >>, << <<45>> >>, << ll2string(I64Max + 1) >>}
  \cup {<<As(n)>> : n \in {1, 63, 64, 125, 126, 4095, 4096}}
  \cup {<<ll2string(v)>> : v \in
          {0, 127, 128, 4095, 4096, 32767, 32768, 8388607, 8388608,
           LPInt32Max, LPInt32Max + 1, I64Max}}
  \cup {<<ll2string(-v)>> : v \in
          {4096, 4097, 32768, 32769, 8388608, 8388609,
           LPInt32Max + 1, LPInt32Max + 2, I64Max + 1}}
=============================================================================
