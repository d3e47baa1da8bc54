----------------------------- MODULE MCReceiver -----------------------------
(* Instances of Receiver for TLC. *)
EXTENDS Receiver

Segment(k, m, o, l, final) ==
    [kind |-> k, msn |-> m, off |-> o, len |-> l, last |-> final, rkey |-> 1]
SendSeg(m, o, l, final) == Segment("send", m, o, l, final)
WriteSeg(o) == Segment("write", 0, o, 1, TRUE)
ReadSeg(m, l) == Segment("read", m, 0, l, TRUE)
RrespSeg(m) == Segment("rresp", m, 0, 1, TRUE)

From(psn, segs, ord, posts, ops) ==
    [first |-> psn, segs |-> segs, ord |-> ord, posts |-> posts, mrOps |-> ops]

\* A message of two segments, an empty one and a short one; one that is too
\* long; WRITEs between messages, one out of bounds; READs, one of them empty;
\* responses behind a WRITE.
Sends == <<SendSeg(1, 0, 1, FALSE), SendSeg(1, 1, 1, TRUE), SendSeg(2, 0, 0, TRUE),
           SendSeg(3, 0, 1, TRUE)>>
Long == <<SendSeg(1, 0, 1, FALSE), SendSeg(1, 1, 1, FALSE), SendSeg(1, 2, 1, TRUE)>>
Mixed == <<WriteSeg(0), SendSeg(1, 0, 1, TRUE), WriteSeg(2), SendSeg(2, 0, 1, TRUE)>>
Reads == <<ReadSeg(1, 2), ReadSeg(2, 1), ReadSeg(3, 1)>>
EmptyRead == <<ReadSeg(1, 2), ReadSeg(2, 0), ReadSeg(3, 1)>>
Responses == <<WriteSeg(0), RrespSeg(1), RrespSeg(2), RrespSeg(3)>>

Low == {From(1, Sends, 0, 3, 0), From(1, Long, 0, 1, 0), From(1, Mixed, 0, 2, 1),
        From(1, Reads, 2, 0, 3), From(1, EmptyRead, 3, 0, 1),
        From(1, Responses, 0, 0, 2)}
\* A WRITE between two messages: the hole may be there.
OneWrite == {From(1, Mixed, 0, 2, 1)}
\* The region, and the same one registered again.
OneRegion == {[id |-> 1, rkey |-> 1, length |-> 2], [id |-> 2, rkey |-> 1, length |-> 2]}
=============================================================================
