--------------------------- MODULE DownloadStream ---------------------------
(***************************************************************************)
(* What each dfget caller of one task sees of its Download RPC (spec 7,    *)
(* "stream DownResult{TaskID, PeerID, CompletedLength, Done}"), with no    *)
(* goroutines, channels or storage: the peer task's completed length only  *)
(* grows and the task settles once, to success only with every piece; a   *)
(* caller's stream reports lengths that never go backwards and never run   *)
(* ahead of the task; Done comes once, with the whole length, and only     *)
(* after success; a stream ends with Done, with an error once the task has *)
(* settled, or when the caller leaves, and reports nothing after that.     *)
(***************************************************************************)
EXTENDS Naturals, Sequences

CONSTANTS
    N,        \* the task's length, in pieces
    Callers   \* the Download requests for the task

VARIABLES
    length,   \* the peer task's completed length
    result,   \* "none" until the task settles, then "success" or "fail"
    stream,   \* per caller: the DownResults it has received
    ended     \* per caller: its RPC stream has ended

vars == <<length, result, stream, ended>>

LastLength(c) == IF stream[c] = <<>> THEN 0 ELSE stream[c][Len(stream[c])].completedLength

Init ==
    /\ length = 0
    /\ result = "none"
    /\ stream = [c \in Callers |-> <<>>]
    /\ ended = [c \in Callers |-> FALSE]

Grow ==
    /\ result = "none" /\ length < N
    /\ length' = length + 1
    /\ UNCHANGED <<result, stream, ended>>

Settle ==
    /\ result = "none"
    /\ \E r \in {"success", "fail"} :
         /\ r = "success" => length = N
         /\ result' = r
    /\ UNCHANGED <<length, stream, ended>>

\* A progress report: some length between the last one and the current.
Report(c) ==
    /\ ~ended[c]
    /\ \E n \in LastLength(c)..length :
         stream' = [stream EXCEPT ![c] = Append(@, [completedLength |-> n, done |-> FALSE])]
    /\ UNCHANGED <<length, result, ended>>

Done(c) ==
    /\ ~ended[c] /\ result = "success"
    /\ stream' = [stream EXCEPT ![c] = Append(@, [completedLength |-> N, done |-> TRUE])]
    /\ ended' = [ended EXCEPT ![c] = TRUE]
    /\ UNCHANGED <<length, result>>

\* The RPC ends with an error: the task failed, or it succeeded and the
\* output could not be delivered.
Fail(c) ==
    /\ ~ended[c] /\ result # "none"
    /\ ended' = [ended EXCEPT ![c] = TRUE]
    /\ UNCHANGED <<length, result, stream>>

Leave(c) ==
    /\ ~ended[c]
    /\ ended' = [ended EXCEPT ![c] = TRUE]
    /\ UNCHANGED <<length, result, stream>>

Next ==
    \/ Grow \/ Settle
    \/ \E c \in Callers : Report(c) \/ Done(c) \/ Fail(c) \/ Leave(c)

Spec == Init /\ [][Next]_vars

=============================================================================
