---------------------------- MODULE EventStream ----------------------------
(***************************************************************************)
(* What the firehose of a PDS promises to one consumer: the events of an   *)
(* append-only log, in the order of the log, without a gap, from a position*)
(* on.  Events may be expunged from the log; a consumer may or may not     *)
(* still get an expunged event, but never out of order.                    *)
(***************************************************************************)
EXTENDS Integers, Sequences

VARIABLES
    log,      \* every event ever published, each with its position seq
    gone,     \* the events of the log that were expunged
    out,      \* the events the open stream has yielded
    open,     \* is a stream open?
    origin    \* the position the open stream started after

streamSpecVars == <<log, gone, out, open, origin>>

Last == IF out = <<>> THEN -1 ELSE out[Len(out)].seq
At == IF Last > origin THEN Last ELSE origin

StreamInit == log = {} /\ gone = {} /\ out = <<>> /\ open = FALSE /\ origin = 0

\* New events come after every event that was ever published
Publish ==
    /\ log \subseteq log'
    /\ \A e \in log' \ log, f \in log : f.seq < e.seq
    /\ UNCHANGED <<gone, out, open, origin>>

Expunge ==
    /\ gone \subseteq gone' /\ gone' \subseteq log
    /\ UNCHANGED <<log, out, open, origin>>

Open ==
    /\ ~open
    /\ open' = TRUE /\ out' = <<>> /\ origin' \in Int
    /\ UNCHANGED <<log, gone>>

\* The start of a stream that has yielded nothing is settled later
Settle ==
    /\ open /\ out = <<>>
    /\ origin' \in Int
    /\ UNCHANGED <<log, gone, out, open>>

Refuse ==
    /\ ~open
    /\ origin' \in Int
    /\ UNCHANGED <<log, gone, out, open>>

\* The next event: a published one, after the last one yielded, that skips no
\* event the consumer is owed
Yield(e) ==
    /\ open
    /\ e.seq > Last
    /\ \A f \in log \ gone : ~(At < f.seq /\ f.seq < e.seq)
    /\ out' = Append(out, e)
    /\ UNCHANGED <<log, gone, open, origin>>

Close ==
    /\ open' = FALSE
    /\ UNCHANGED <<log, gone, out, origin>>

StreamNext ==
    \/ Publish \/ Expunge \/ Close
    \/ Open \/ Settle \/ Refuse
    \/ \E e \in log : Yield(e)

StreamSpec == StreamInit /\ [][StreamNext]_streamSpecVars

=============================================================================
