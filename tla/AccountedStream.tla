--------------------------- MODULE AccountedStream ---------------------------
(***************************************************************************)
(* What a pane's PTY promises its consumer, whatever the queue in between: *)
(* the consumer's log follows the frames the reader produced in order, and *)
(* accounts for each exactly once - it is either delivered as it is, or    *)
(* belongs to one run of lost output whose length and bytes are reported   *)
(* in its place.  Exit and error frames are never lost.                    *)
(*                                                                         *)
(* A produced frame carries `end', the offset of the output stream after   *)
(* it, so that the bytes of a run are the difference of two offsets.       *)
(***************************************************************************)
EXTENDS Naturals, Sequences

CONSTANT ChunkSizes     \* the byte counts an output frame can carry

VARIABLES sent,     \* the frames produced so far
          log       \* what the consumer was handed

svars == <<sent, log>>

EndOffset(n) == IF n = 0 THEN 0 ELSE sent[n].end

\* The last produced frame the log accounts for.
Accounted == IF log = << >> THEN 0
             ELSE LET f == log[Len(log)] IN f.seq + f.frames - 1

Init == sent = << >> /\ log = << >>

Produce(kind, bytes) ==
    /\ \A n \in DOMAIN sent : sent[n].kind # "Exited"
    /\ sent' = Append(sent, [kind |-> kind, bytes |-> bytes,
                             end |-> EndOffset(Len(sent)) + bytes])
    /\ UNCHANGED log

Deliver ==
    LET n == Accounted + 1
    IN  /\ n <= Len(sent)
        /\ log' = Append(log, [kind |-> sent[n].kind, seq |-> n,
                               frames |-> 1, bytes |-> sent[n].bytes])
        /\ UNCHANGED sent

ReportLoss(last) ==
    LET n == Accounted + 1
    IN  /\ n <= last
        /\ \A m \in n .. last : sent[m].kind = "Output"
        /\ log' = Append(log, [kind |-> "Overflow", seq |-> n,
                               frames |-> last - Accounted,
                               bytes |-> EndOffset(last) - EndOffset(Accounted)])
        /\ UNCHANGED sent

Consume == Deliver \/ \E last \in 1 .. Len(sent) : ReportLoss(last)

Next == \/ \E b \in ChunkSizes : Produce("Output", b)
        \/ \E kind \in {"Error", "Exited"} : Produce(kind, 0)
        \/ Consume

Safe == Init /\ [][Next]_svars
=============================================================================
