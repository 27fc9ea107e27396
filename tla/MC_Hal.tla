-------------------------------- MODULE MC_Hal --------------------------------
(* The receiver on a short line: payloads of at most three bytes, and pieces *)
(* of traffic that make the interesting cases.                             *)
EXTENDS IG4U_Hal

(* A checksum for small buffers: the real polynomial plays no part here.   *)
RECURSIVE Sum(_)
Sum(s) == IF s = <<>> THEN 0 ELSE (Head(s) + Sum(Tail(s))) % 65536
SumCRC(s) == Sum(s)

Header(n) == <<HEADER_BYTE_0, HEADER_BYTE_1, 16, 1, 4, n, 0>>
Framed(s) == s \o <<Sum(s) % 256, Sum(s) \div 256>>

(* A reply without payload, one whose payload byte is half a sync word, a  *)
(* reply of the largest size and its header alone, a header that announces *)
(* too much, garbage with a sync word and half of another.                 *)
Reply    == Framed(Header(0))
HkReply  == Framed(Header(1) \o <<HEADER_BYTE_0>>)
Largest  == Framed(Header(MAX_PAYLOAD) \o [i \in 1 .. MAX_PAYLOAD |-> 1])
TooLong  == Header(MAX_PAYLOAD + 1)
StraySync == <<7, HEADER_BYTE_0, HEADER_BYTE_1, HEADER_BYTE_0>>
LongHead == Header(MAX_PAYLOAD)

Traffic == {Reply, HkReply, LongHead, TooLong, StraySync}
Replies == {Reply, Largest}
=============================================================================
