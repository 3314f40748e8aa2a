-------------------------- MODULE CollectiveFlush --------------------------
(***************************************************************************)
(* Aggregation over MPI (src/src/caliper/collective_flush.cpp and           *)
(* aggregate_over_mpi.cpp).  In every collective flush each rank flushes    *)
(* its own data into an aggregator; the aggregators are then merged along a *)
(* binomial tree and rank 0 writes the result.  Nothing synchronizes the    *)
(* ranks but the messages themselves, so a rank may be flushes ahead.       *)
(*                                                                          *)
(* What an aggregator holds is, for each rank, the flushes whose data of    *)
(* that rank it has added up.                                               *)
(***************************************************************************)
EXTENDS Integers, Sequences

CONSTANTS
    CommSizes,  \* numbers of ranks to consider
    MaxFlushes  \* flushes each rank takes part in

ASSUME CollectiveAssumption ==
    /\ CommSizes \subseteq Nat \ {0}
    /\ MaxFlushes \in Nat

Tags == 1 .. 4  \* node count, nodes, snapshot count, snapshots

VARIABLES
    commsize,
    pc,
    flush,      \* the flush each rank is in
    steppow2,   \* the loop variable of aggregate_over_mpi()
    tag,        \* the message being sent or received
    aggr,       \* cross_agg of each rank
    chan,       \* messages on their way, by sender, receiver and tag
    output      \* what rank 0 has written, flush by flush

vars == <<commsize, pc, flush, steppow2, tag, aggr, chan, output>>

Ranks == 0 .. commsize - 1
NoData == [q \in Ranks |-> <<>>]

Init ==
    /\ commsize \in CommSizes
    /\ pc = [r \in Ranks |-> "start"]
    /\ flush = [r \in Ranks |-> 0]
    /\ steppow2 = [r \in Ranks |-> 1]
    /\ tag = [r \in Ranks |-> 1]
    /\ aggr = [r \in Ranks |-> NoData]
    /\ chan = [q \in Ranks |-> [r \in Ranks |-> [t \in Tags |-> <<>>]]]
    /\ output = <<>>

(* collective_flush(), up to aggregate_over_mpi(): new aggregators take the *)
(* rank's own data.                                                         *)
collective_flush(r) ==
    /\ pc[r] = "start" /\ flush[r] < MaxFlushes
    /\ flush' = [flush EXCEPT ![r] = @ + 1]
    /\ aggr' = [aggr EXCEPT ![r] = [NoData EXCEPT ![r] = <<flush[r] + 1>>]]
    /\ steppow2' = [steppow2 EXCEPT ![r] = 1]
    /\ pc' = [pc EXCEPT ![r] = "loop"]
    /\ UNCHANGED <<commsize, tag, chan, output>>

(* Mutation: a rank that has no partner in a step sends, too.               *)
SendsEarly(r, s) == r % s = 0 /\ r # 0

Receives(r, s) == r % (2 * s) = 0 /\ r + s < commsize
Sends(r, s) == r % s = 0 /\ r % (2 * s) # 0

(* An iteration of the loop: a rank receives, sends, or does neither.  It   *)
(* never does both, as Receives and Sends exclude each other.               *)
Iterate(r) ==
    LET s == steppow2[r]
    IN  /\ pc[r] = "loop" /\ s < commsize
        /\ pc' = [pc EXCEPT ![r] = IF Receives(r, s) THEN "recv"
                                   ELSE IF Sends(r, s) THEN "send" ELSE "loop"]
        /\ steppow2' = [steppow2 EXCEPT ![r] =
                          IF Receives(r, s) \/ Sends(r, s) THEN s ELSE 2 * s]
        /\ tag' = [tag EXCEPT ![r] = 1]
        /\ UNCHANGED <<commsize, flush, aggr, chan, output>>

(* A message has been sent or received: the next one, or the next step.     *)
NextMessage(r, again) ==
    /\ tag' = [tag EXCEPT ![r] = IF @ < 4 THEN @ + 1 ELSE 1]
    /\ steppow2' = [steppow2 EXCEPT ![r] = IF tag[r] < 4 THEN @ ELSE 2 * @]
    /\ pc' = [pc EXCEPT ![r] = IF tag[r] < 4 THEN again ELSE "loop"]

(* MPI_Send() of pack_and_send(); the aggregator keeps what it has.         *)
pack_and_send(r) ==
    /\ pc[r] = "send"
    /\ chan' = [chan EXCEPT ![r][r - steppow2[r]][tag[r]] = Append(@, aggr[r])]
    /\ pc' = [pc EXCEPT ![r] = "sending"]
    /\ UNCHANGED <<commsize, flush, steppow2, tag, aggr, output>>

(* MPI_Send() returns when the message has been received,                   *)
SendMatched(r) ==
    /\ pc[r] = "sending"
    /\ chan[r][r - steppow2[r]][tag[r]] = <<>>
    /\ NextMessage(r, "send")
    /\ UNCHANGED <<commsize, flush, aggr, chan, output>>

(* or earlier, if MPI buffers it.                                           *)
SendBuffered(r) ==
    /\ pc[r] = "sending"
    /\ chan[r][r - steppow2[r]][tag[r]] # <<>>
    /\ NextMessage(r, "send")
    /\ UNCHANGED <<commsize, flush, aggr, chan, output>>

Merge(a, b) == [q \in Ranks |-> a[q] \o b[q]]

(* MPI_Recv() in receive_and_merge(): messages with one sender and one tag  *)
(* arrive in order.  The last one holds the snapshots.                      *)
receive_and_merge(r) ==
    LET q == r + steppow2[r]
        t == tag[r]
    IN  /\ pc[r] = "recv"
        /\ chan[q][r][t] # <<>>
        /\ chan' = [chan EXCEPT ![q][r][t] = Tail(@)]
        /\ aggr' = IF t = 4 THEN [aggr EXCEPT ![r] = Merge(@, Head(chan[q][r][t]))] ELSE aggr
        /\ NextMessage(r, "recv")
        /\ UNCHANGED <<commsize, flush, output>>

(* Mutation: the loop ends one step early.                                  *)
FinishEarly(r) ==
    /\ pc[r] = "loop" /\ 2 * steppow2[r] >= commsize
    /\ output' = IF r = 0 THEN Append(output, aggr[r]) ELSE output
    /\ pc' = [pc EXCEPT ![r] = "start"]
    /\ aggr' = [aggr EXCEPT ![r] = NoData]
    /\ UNCHANGED <<commsize, flush, steppow2, tag, chan>>

(* The end of collective_flush(): rank 0 writes.                            *)
Finish(r) ==
    /\ pc[r] = "loop" /\ steppow2[r] >= commsize
    /\ output' = IF r = 0 THEN Append(output, aggr[r]) ELSE output
    /\ pc' = [pc EXCEPT ![r] = "start"]
    /\ aggr' = [aggr EXCEPT ![r] = NoData]
    /\ UNCHANGED <<commsize, flush, steppow2, tag, chan>>

(* What rank r does without help of a buffer.                               *)
Work(r) ==
    \/ collective_flush(r)
    \/ Iterate(r)
    \/ pack_and_send(r)
    \/ SendMatched(r)
    \/ receive_and_merge(r)
    \/ Finish(r)

Next == \E r \in Ranks : Work(r) \/ SendBuffered(r)

(* Every rank keeps running; MPI need not buffer.                           *)
Fairness ==
    \A r \in UNION {0 .. n - 1 : n \in CommSizes} : WF_vars(r \in Ranks /\ Work(r))
Spec == Init /\ [][Next]_vars
FairSpec == Spec /\ Fairness

-----------------------------------------------------------------------------
(* Types of the state of collective flushes.                                *)
TypeOK ==
    /\ commsize \in CommSizes
    /\ pc \in [Ranks -> {"start", "loop", "recv", "send", "sending"}]
    /\ flush \in [Ranks -> 0 .. MaxFlushes]
    /\ tag \in [Ranks -> Tags]
    /\ steppow2 \in [Ranks -> 1 .. 2 * commsize]

(* Rank 0 writes the data of every rank exactly once in every flush, and    *)
(* never data of another flush, however far the other ranks are ahead.      *)
OutputExact ==
    \A k \in DOMAIN output : output[k] = [q \in Ranks |-> <<k>>]

(* The data of flush k of the s ranks from r on.                            *)
Subtree(r, s, k) ==
    [q \in Ranks |-> IF r <= q /\ q < r + s THEN <<k>> ELSE <<>>]

(* In the step with distance s of aggregate_over_mpi(), a rank that has not *)
(* sent before holds exactly the data of the s ranks from itself on.        *)
SubtreeExact ==
    \A r \in Ranks :
        pc[r] # "start" /\ r % steppow2[r] = 0 =>
            aggr[r] = Subtree(r, steppow2[r], flush[r])

(* All flushes end on all ranks, even if MPI buffers no message: no rank    *)
(* waits forever.                                                           *)
AllFinish == <>(\A r \in Ranks : pc[r] = "start" /\ flush[r] = MaxFlushes)
=============================================================================
