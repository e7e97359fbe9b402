---------------------------- MODULE LossyBatches ----------------------------
(***************************************************************************)
(* What the InfluxDB streamer promises about the lines it accepts: they    *)
(* reach the output in the order of acceptance, without duplicates, in     *)
(* batches of exactly BatchSize lines, each batch wholly or not at all.    *)
(* Once the channel is closed nothing is accepted and nothing is output.   *)
(***************************************************************************)
EXTENDS Naturals, Sequences

CONSTANT BatchSize  \* a positive number

VARIABLES
    accepted,  \* number of lines accepted; they are the lines 1..accepted
    settled,   \* the fate of the lines 1..settled is decided
    out,       \* the lines the output holds
    open       \* the channel still works

vars == <<accepted, settled, out, open>>

Init ==
    /\ accepted = 0
    /\ settled = 0
    /\ out = <<>>
    /\ open = TRUE

Accept ==
    /\ open
    /\ accepted' = accepted + 1
    /\ UNCHANGED <<settled, out, open>>

\* The next BatchSize lines, as one batch.
NextBatch == [k \in 1..BatchSize |-> settled + k]

Deliver ==
    /\ open
    /\ settled + BatchSize <= accepted
    /\ settled' = settled + BatchSize
    /\ out' = out \o NextBatch
    /\ UNCHANGED <<accepted, open>>

Lose ==
    /\ open
    /\ settled + BatchSize <= accepted
    /\ settled' = settled + BatchSize
    /\ UNCHANGED <<accepted, out, open>>

\* Closing abandons the batch being collected or awaiting its answer.
Close ==
    /\ open
    /\ open' = FALSE
    /\ \E k \in 0..BatchSize :
         /\ settled + k <= accepted
         /\ settled' = settled + k
    /\ UNCHANGED <<accepted, out>>

Next == Accept \/ Deliver \/ Lose \/ Close

Spec == Init /\ [][Next]_vars
=============================================================================
