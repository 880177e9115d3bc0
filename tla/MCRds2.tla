------------------------------- MODULE MCRds2 -------------------------------
(* Rds2 with four files, none of them under way at the start or all, and an *)
(* application without a handler: the files of the start have one segment,  *)
(* those sent later three with CRC, for ever, or two without, once.          *)
EXTENDS Rds2

CONSTANTS file1, file2, file3, file4

MCFiles == {file1, file2, file3, file4}
MCStart == {<<>>, <<file1, file2, file3, file4>>}
Order(aid, id, segs, crc, once) ==
    [aid |-> aid, id |-> id, segs |-> segs, crc |-> crc, once |-> once]
MCStartOrder == Order(3, 3, 1, "off", FALSE)
MCOrders == {Order(1, 1, 2, "chunks", FALSE), Order(2, 0, 3, "auto", TRUE)}
=============================================================================
