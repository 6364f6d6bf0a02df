----------------------------- MODULE MCTransfer -----------------------------
(* A variable of three bytes, one of one byte behind it and one of unknown  *)
(* size, moved two bytes at a time; two entries watched at once, and one    *)
(* when the target runs.                                                    *)
EXTENDS WatchPanel

MCItems == {"long", "short", "unknown"}
MCAddrOf == [x \in MCItems |-> IF x = "long" THEN 1 ELSE 4]
MCSizeOf == [x \in MCItems |->
               CASE x = "long" -> 3 [] x = "short" -> 1 [] x = "unknown" -> 0]

MCMaxWatch == [r \in BOOLEAN |-> IF r THEN 1 ELSE 2]

MCEncodings == {<<>>, <<0>>, <<1>>, <<0, 1, 1>>, <<1, 0, 0>>}

(* Values of one to four bytes in a word of three, bytes and numbers at the *)
(* edges of each size; 16777216 has as many digits as four bytes.           *)
MCTypes == [size: 1..4, signed: BOOLEAN]
Edge == {0, 1, 127, 128, 255}
MCDatas == [1..1 -> Edge] \cup [1..2 -> Edge] \cup [1..3 -> {0, 127, 128, 255}] \cup [1..4 -> {0, 255}]

Number(kind, neg, mag, zeros) == [kind |-> kind, neg |-> neg, mag |-> mag, zeros |-> zeros]
MCTexts ==
    {Number(kind, neg, mag, 0) : kind \in {"dec", "hex"}, neg \in BOOLEAN,
       mag \in {1, 99, 100, 127, 128, 129, 255, 256, 9999, 32768, 32769, 65535, 65536, 8388608, 16777215, 16777216}} \cup
    {Number("dec", FALSE, 0, 0), Number("dec", FALSE, 7, 1), Number("hex", FALSE, 7, 3)} \cup
    {[kind |-> "bytes", bytes |-> b] : b \in {<<9>>, <<1, 2>>, <<0, 0, 3>>, <<1, 2, 3, 4>>}}
=============================================================================
