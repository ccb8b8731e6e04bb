----------------------------- MODULE NmChannel ------------------------------
(***************************************************************************)
(* What one direction of an NM connection promises: the messages handed    *)
(* to the receiver are those the sender sent, whole, each at most once and *)
(* in the order of sending.  The end of the connection may cut the         *)
(* sequence short, so nothing is promised about the last ones.             *)
(***************************************************************************)
EXTENDS Naturals, Sequences

VARIABLES sent,     \* the messages given to send so far
          got       \* the messages handed out by receive so far

ChanInit == sent = <<>> /\ got = <<>>

Send ==
    /\ Len(sent') = Len(sent) + 1
    /\ SubSeq(sent', 1, Len(sent)) = sent
    /\ got' = got

Deliver ==
    /\ Len(got) < Len(sent)
    /\ got' = Append(got, sent[Len(got) + 1])
    /\ sent' = sent

ChanSpec == ChanInit /\ [][Send \/ Deliver]_<<sent, got>>

=============================================================================
