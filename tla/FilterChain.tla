---------------------------- MODULE FilterChain ----------------------------
(***************************************************************************)
(* FilterPlumbing: a chain of filters, each a goroutine between two bounded *)
(* pipes, as it is set up by AddFilter.  Documents (SingleTermIndex.Insert) *)
(* and queries (TokenizeToChan) are pushed into the first pipe, and taken   *)
(* from the last one by whoever asked the last filter for its Output().     *)
(***************************************************************************)
EXTENDS Filters

CONSTANTS
    Chain,          \* the filters given to AddFilter; <<>>: none
    Capacity        \* of a FilterPipe; 10 in the code

\* SetupIndex puts the phrase filter first.
ASSUME ChainAssumption ==
    Chain \in Seq(Kinds) /\ \A k \in DOMAIN Chain : Chain[k] = "phrases" => k = 1
ASSUME CapacityAssumption == Capacity \in Nat \ {0}

VARIABLES
    pipe,           \* 0 .. N -> tokens; pipe[0] is the head's input
    held,           \* filter -> tokens it has still to send
    fstate,         \* filter -> its state
    toPush          \* what is left to push into pipe[0]

chainVars == <<pipe, held, fstate>>

\* A chain without filters becomes one NullFilter.
Filter == IF Chain = <<>> THEN <<"null">> ELSE Chain
N == Len(Filter)

ChainInit ==
    /\ pipe = [i \in 0..N |-> <<>>]
    /\ held = [i \in 1..N |-> <<>>] /\ fstate = [i \in 1..N |-> Fresh]
    /\ toPush = <<>>

\* The next token goes into a first pipe of that capacity.
PushToken(capacity) ==
    /\ toPush # <<>> /\ Len(pipe[0]) < capacity
    /\ pipe' = [pipe EXCEPT ![0] = Append(@, Head(toPush))]
    /\ toPush' = Tail(toPush)
    /\ UNCHANGED <<held, fstate>>

\* A round of apply().
ReadToken(i) ==
    /\ held[i] = <<>> /\ fstate[i].ended = <<>> /\ pipe[i - 1] # <<>>
    /\ LET r == React(Filter[i], fstate[i], Head(pipe[i - 1]))
       IN  /\ held' = [held EXCEPT ![i] = r.out]
           /\ fstate' = [fstate EXCEPT ![i] = r.st]
    /\ pipe' = [pipe EXCEPT ![i - 1] = Tail(@)]
    /\ UNCHANGED toPush

\* A round of NotifyDocComplete's loop, and after it the Null token.
NotifyRound(i) ==
    /\ held[i] = <<>> /\ fstate[i].ended # <<>>
    /\ held' = [held EXCEPT ![i] = Flush(fstate[i]).out]
    /\ fstate' = [fstate EXCEPT ![i] = Flush(fstate[i]).st]
    /\ UNCHANGED <<pipe, toPush>>

\* What a filter's goroutine does when it has nothing to send.
FilterRound(i) == IF fstate[i].ended = <<>> THEN ReadToken(i) ELSE NotifyRound(i)

\* Send, to a filter that has an output.
SendToken(i) ==
    /\ held[i] # <<>> /\ Len(pipe[i]) < Capacity
    /\ pipe' = [pipe EXCEPT ![i] = Append(@, Head(held[i]))]
    /\ held' = [held EXCEPT ![i] = Tail(@)]
    /\ UNCHANGED <<fstate, toPush>>

\* A last filter with no output sends to nobody: the whole result is dropped.
DropHeld ==
    /\ held[N] # <<>>
    /\ held' = [held EXCEPT ![N] = <<>>]
    /\ UNCHANGED <<pipe, fstate, toPush>>

\* Who reads the output takes a token.
Arrived == Head(pipe[N])
TakeArrived ==
    /\ pipe[N] # <<>>
    /\ pipe' = [pipe EXCEPT ![N] = Tail(@)]
    /\ UNCHANGED <<held, fstate, toPush>>
-----------------------------------------------------------------------------
ChainTypeOK ==
    /\ pipe \in [0..N -> Seq(Tokens)] /\ held \in [1..N -> Seq(Tokens)]
    /\ fstate \in [1..N -> FilterStates] /\ toPush \in Seq(Tokens)

\* Nothing is left before pipe[i]: neither to push, nor in a pipe, nor in one
\* of the first i filters.
Quiet(i) == held[i] = <<>> /\ fstate[i].buffer = <<>> /\ fstate[i].ended = <<>>
Before(i) == toPush = <<>> /\ \A j \in 1..i : pipe[j - 1] = <<>> /\ Quiet(j)
Idle == Before(N) /\ pipe[N] = <<>>
=============================================================================
