------------------------------ MODULE FileTask ------------------------------
(***************************************************************************)
(* The file-download progress protocol (src/client/daemon/peer/            *)
(* peertask_file.go): each fileTask's syncProgress goroutine turns the     *)
(* conductor's piece events and its success/fail signal into progress      *)
(* messages on its unbuffered progressCh, stores the output on success,    *)
(* and waits for its caller's DoneCallback (which closes progressStopCh)   *)
(* or for its context to end.                                              *)
(*                                                                         *)
(* Around it, modelled from the spec: one conductor shared by every file   *)
(* task of the same TaskID (section 4.1 step 3, "attach as an additional   *)
(* consumer"), publishing pieces and finishing (4.2); its piece broker,    *)
(* which gives each subscriber its own queue and whose Close publishes a   *)
(* finished sentinel and shuts every subscriber channel (4.4); and, per    *)
(* file task, the daemon's Download handler that reads progress, streams   *)
(* DownResults to dfget, calls DoneCallback, or whose context ends.        *)
(***************************************************************************)
EXTENDS Integers, Sequences

CONSTANTS
    NumPieces,  \* pieces of the task
    FileTasks   \* file tasks (Download requests) for the task's TaskID

\* A progress message: PeerTaskDone, State.Success, CompletedLength.
Progress == [done : BOOLEAN, success : BOOLEAN, completed : 0..NumPieces]
NoProgress == [done |-> FALSE, success |-> FALSE, completed |-> 0]

\* dfdaemon.DownResult as dfget reads it (GetCompletedLength, GetDone);
\* TaskId and PeerId are fixed for one request and left out.
DownResult == [completedLength : 0..NumPieces, done : BOOLEAN]

\* The Download handler streams each successful progress to dfget as a
\* DownResult (spec 7: stream DownResult{..., CompletedLength, Done}).
ToDownResult(p) == [completedLength |-> p.completed, done |-> p.done]

VARIABLES
    cstate,     \* conductor: running, closing, closed, success or fail
    outcome,    \* the conductor's result once it stops running
    completed,  \* conductor.completedLength, in pieces
    chClosed,   \* per file task: the broker closed its subscriber channel
    pieceQ,     \* per file task: its subscriber queue, "piece"/"finished"
    ft,         \* per file task: syncProgress's program counter
    pg,         \* per file task: the progress message it is sending
    stored,     \* per file task: result of storeToOutput's Store call
    ctxDone,    \* per file task: its request context f.ctx is done
    stopClosed, \* per file task: progressStopCh is closed
    consumer,   \* per file task: the Download handler reading progressCh
    results,    \* per file task: the DownResult stream dfget has received
    rpcErr      \* per file task: its Download RPC ended with an error

vars == <<cstate, outcome, completed, chClosed, pieceQ, ft, pg, stored,
          ctxDone, stopClosed, consumer, results, rpcErr>>

condVars == <<cstate, outcome, completed, chClosed>>
ftVars == <<ft, pg, stored, ctxDone, stopClosed>>
callerVars == <<consumer, results, rpcErr>>

\* No file task has been created yet; the conductor starts running.
Init ==
    /\ cstate = "running"
    /\ outcome = "none"
    /\ completed = 0
    /\ chClosed = [f \in FileTasks |-> FALSE]
    /\ pieceQ = [f \in FileTasks |-> <<>>]
    /\ ft = [f \in FileTasks |-> "new"]
    /\ pg = [f \in FileTasks |-> NoProgress]
    /\ stored = [f \in FileTasks |-> "none"]
    /\ ctxDone = [f \in FileTasks |-> FALSE]
    /\ stopClosed = [f \in FileTasks |-> FALSE]
    /\ consumer = [f \in FileTasks |-> "recv"]
    /\ results = [f \in FileTasks |-> <<>>]
    /\ rpcErr = [f \in FileTasks |-> FALSE]

\* File tasks that have called broker.Subscribe.
Subscribed == FileTasks \ {f \in FileTasks : ft[f] \in {"new", "attach", "error"}}

-----------------------------------------------------------------------------
(* newFileTask and Start.                                                  *)

\* newFileTask: getPeerTaskConductor returns the running conductor of the
\* TaskID.
NewFileTask(f) ==
    /\ ft[f] = "new"
    /\ cstate = "running"
    /\ ft' = [ft EXCEPT ![f] = "attach"]
    /\ UNCHANGED <<condVars, pieceQ, pg, stored, ctxDone, stopClosed, callerVars>>

\* getPeerTaskConductor fails: newFileTask returns the error and the
\* Download handler ends the RPC with it.
NewFileTaskErr(f) ==
    /\ ft[f] = "new"
    /\ ft' = [ft EXCEPT ![f] = "error"]
    /\ consumer' = [consumer EXCEPT ![f] = "exit"]
    /\ rpcErr' = [rpcErr EXCEPT ![f] = TRUE]
    /\ UNCHANGED <<condVars, pieceQ, pg, stored, ctxDone, stopClosed, results>>

\* Later in newFileTask, ptc.broker.Subscribe(): the subscription sees only
\* what is published from now on, and nothing at all if the conductor has
\* finished and closed its broker since getPeerTaskConductor returned it.
\* Start then launches syncProgress.
Subscribe(f) ==
    /\ ft[f] = "attach"
    /\ ft' = [ft EXCEPT ![f] = "loop"]
    /\ UNCHANGED <<condVars, pieceQ, pg, stored, ctxDone, stopClosed, callerVars>>

-----------------------------------------------------------------------------
(* The conductor and broker (spec 4.2, 4.4).                               *)

\* Mutant: the piece bound checked with <= instead of <.
PublishPiece_OffByOne ==
    /\ cstate = "running"
    /\ completed <= NumPieces
    /\ completed' = completed + 1
    /\ pieceQ' = [f \in FileTasks |->
                    IF f \in Subscribed THEN Append(pieceQ[f], "piece") ELSE pieceQ[f]]
    /\ UNCHANGED <<cstate, outcome, chClosed, ftVars, callerVars>>

\* A piece lands: completedLength grows, then the piece is published to
\* every subscriber's queue.
PublishPiece ==
    /\ cstate = "running"
    /\ completed < NumPieces
    /\ completed' = completed + 1
    /\ pieceQ' = [f \in FileTasks |->
                    IF f \in Subscribed THEN Append(pieceQ[f], "piece") ELSE pieceQ[f]]
    /\ UNCHANGED <<cstate, outcome, chClosed, ftVars, callerVars>>

\* Success once every piece is done; failure at any point (a caller's
\* cancellation fails the conductor, spec 5).
ConductorFinish ==
    /\ cstate = "running"
    /\ \E o \in {"success", "fail"} :
         /\ o = "success" => completed = NumPieces
         /\ outcome' = o
    /\ cstate' = "closing"
    /\ UNCHANGED <<completed, chClosed, pieceQ, ftVars, callerVars>>

\* Broker Close: publish the finished sentinel, shut subscriber channels.
BrokerClose ==
    /\ cstate = "closing"
    /\ pieceQ' = [f \in FileTasks |->
                    IF f \in Subscribed THEN Append(pieceQ[f], "finished") ELSE pieceQ[f]]
    /\ chClosed' = [f \in FileTasks |-> chClosed[f] \/ f \in Subscribed]
    /\ cstate' = "closed"
    /\ UNCHANGED <<outcome, completed, ftVars, callerVars>>

\* close(successCh) or close(failCh).
ConductorSignal ==
    /\ cstate = "closed"
    /\ cstate' = outcome
    /\ UNCHANGED <<outcome, completed, chClosed, pieceQ, ftVars, callerVars>>

-----------------------------------------------------------------------------
(* syncProgress and the functions it calls, for file task f.               *)

Pg(done, success) == [done |-> done, success |-> success, completed |-> completed]

SetFt(f, pc) == ft' = [ft EXCEPT ![f] = pc]
SetPg(f, p) == pg' = [pg EXCEPT ![f] = p]

\* case <-successCh: storeToOutput.
LoopSuccess(f) ==
    /\ ft[f] = "loop"
    /\ cstate = "success"
    /\ SetFt(f, "store")
    /\ UNCHANGED <<condVars, pieceQ, pg, stored, ctxDone, stopClosed, callerVars>>

\* Mutant: sendFailProgress builds its progress with Success true.
LoopFail_Success(f) ==
    /\ ft[f] = "loop"
    /\ cstate = "fail"
    /\ SetFt(f, "sendFinal")
    /\ SetPg(f, Pg(TRUE, TRUE))
    /\ UNCHANGED <<condVars, pieceQ, stored, ctxDone, stopClosed, callerVars>>

\* case <-failCh: sendFailProgress(failedCode, failedReason).
LoopFail(f) ==
    /\ ft[f] = "loop"
    /\ cstate = "fail"
    /\ SetFt(f, "sendFinal")
    /\ SetPg(f, Pg(TRUE, FALSE))
    /\ UNCHANGED <<condVars, pieceQ, stored, ctxDone, stopClosed, callerVars>>

\* case piece := <-f.pieceCh: skip a finished sentinel, else build a
\* "downloading" progress.  A receive from the closed, drained channel
\* yields a nil *pieceInfo and piece.finished panics.  The case
\* <-f.ctx.Done() of the same select has an empty body: once the context
\* is done and no other case is ready the loop spins without changing
\* anything, a stuttering step here, until a piece or a signal arrives.
LoopPiece(f) ==
    /\ ft[f] = "loop"
    /\ pieceQ[f] # <<>> \/ chClosed[f]
    /\ IF pieceQ[f] = <<>>
         THEN /\ SetFt(f, "panic")
              /\ UNCHANGED <<pieceQ, pg>>
         ELSE /\ pieceQ' = [pieceQ EXCEPT ![f] = Tail(@)]
              /\ IF Head(pieceQ[f]) = "finished"
                   THEN UNCHANGED <<ft, pg>>
                   ELSE /\ SetFt(f, "sendPiece")
                        /\ SetPg(f, Pg(FALSE, TRUE))
    /\ UNCHANGED <<condVars, stored, ctxDone, stopClosed, callerVars>>

\* The unbuffered send progressCh <- pg meets the Download handler's
\* receive.  A successful progress goes on to dfget as a DownResult; a
\* failed one ends the RPC with its code and message (spec 7).
Deliver(f, next) ==
    /\ consumer[f] = "recv"
    /\ IF pg[f].success
         THEN /\ results' = [results EXCEPT ![f] = Append(@, ToDownResult(pg[f]))]
              /\ UNCHANGED rpcErr
         ELSE /\ rpcErr' = [rpcErr EXCEPT ![f] = TRUE]
              /\ UNCHANGED results
    /\ consumer' = [consumer EXCEPT ![f] = IF pg[f].done THEN "callback" ELSE "recv"]
    /\ SetFt(f, next)
    /\ UNCHANGED <<condVars, pieceQ, pg, stored, ctxDone, stopClosed>>

SendPieceDeliver(f) == ft[f] = "sendPiece" /\ Deliver(f, "loop")

\* case <-f.ctx.Done(): return.
SendPieceCtx(f) ==
    /\ ft[f] = "sendPiece"
    /\ ctxDone[f]
    /\ SetFt(f, "exit")
    /\ UNCHANGED <<condVars, pieceQ, pg, stored, ctxDone, stopClosed, callerVars>>

\* Mutant: the Store error is not checked.
StoreToOutput_IgnoreErr(f) ==
    /\ ft[f] = "store"
    /\ \E ok \in BOOLEAN : stored' = [stored EXCEPT ![f] = IF ok THEN "ok" ELSE "err"]
    /\ SetPg(f, Pg(TRUE, TRUE))
    /\ SetFt(f, "sendFinal")
    /\ UNCHANGED <<condVars, pieceQ, ctxDone, stopClosed, callerVars>>

\* Mutant: on a Store error storeToOutput returns without sendFailProgress.
StoreToOutput_ErrReturns(f) ==
    /\ ft[f] = "store"
    /\ \E ok \in BOOLEAN :
         /\ stored' = [stored EXCEPT ![f] = IF ok THEN "ok" ELSE "err"]
         /\ SetPg(f, Pg(TRUE, ok))
         /\ SetFt(f, IF ok THEN "sendFinal" ELSE "exit")
    /\ UNCHANGED <<condVars, pieceQ, ctxDone, stopClosed, callerVars>>

\* storeToOutput: Store the task to f.request.Output (ErrTaskNotFound if
\* the store is gone, or the copy fails); an error sends a fail progress,
\* success a done one.
StoreToOutput(f) ==
    /\ ft[f] = "store"
    /\ \E ok \in BOOLEAN :
         /\ stored' = [stored EXCEPT ![f] = IF ok THEN "ok" ELSE "err"]
         /\ SetPg(f, Pg(TRUE, ok))
    /\ SetFt(f, "sendFinal")
    /\ UNCHANGED <<condVars, pieceQ, ctxDone, stopClosed, callerVars>>

\* sendSuccessProgress / sendFailProgress: send the final progress, or
\* give up when the context is done.
SendFinalDeliver(f) == ft[f] = "sendFinal" /\ Deliver(f, "waitStop")

SendFinalCtx(f) ==
    /\ ft[f] = "sendFinal"
    /\ ctxDone[f]
    /\ SetFt(f, "waitStop")
    /\ UNCHANGED <<condVars, pieceQ, pg, stored, ctxDone, stopClosed, callerVars>>

\* Mutant: the wait for progressStopCh without the ctx.Done case.
WaitStop_NoCtx(f) ==
    /\ ft[f] = "waitStop"
    /\ stopClosed[f]
    /\ SetFt(f, "exit")
    /\ UNCHANGED <<condVars, pieceQ, pg, stored, ctxDone, stopClosed, callerVars>>

\* then wait for progressStopCh to close, or for the context to end.
WaitStop(f) ==
    /\ ft[f] = "waitStop"
    /\ stopClosed[f] \/ ctxDone[f]
    /\ SetFt(f, "exit")
    /\ UNCHANGED <<condVars, pieceQ, pg, stored, ctxDone, stopClosed, callerVars>>

-----------------------------------------------------------------------------
(* The Download handler of file task f.                                    *)

\* On the PeerTaskDone progress the handler calls DoneCallback, which
\* closes progressStopCh, and returns.
CallDoneCallback(f) ==
    /\ consumer[f] = "callback"
    /\ stopClosed' = [stopClosed EXCEPT ![f] = TRUE]
    /\ consumer' = [consumer EXCEPT ![f] = "exit"]
    /\ UNCHANGED <<condVars, pieceQ, ft, pg, stored, ctxDone, results, rpcErr>>

\* The request context ends (dfget goes away, or its deadline passes).  A
\* handler still reading returns.
Cancel(f) ==
    /\ ~ctxDone[f]
    /\ ctxDone' = [ctxDone EXCEPT ![f] = TRUE]
    /\ consumer' = [consumer EXCEPT ![f] = IF @ = "recv" THEN "exit" ELSE @]
    /\ UNCHANGED <<condVars, pieceQ, ft, pg, stored, stopClosed, results, rpcErr>>

Conductor == PublishPiece \/ ConductorFinish \/ BrokerClose \/ ConductorSignal

SyncProgress(f) ==
    \/ LoopSuccess(f) \/ LoopFail(f) \/ LoopPiece(f) \/ SendPieceDeliver(f)
    \/ SendPieceCtx(f) \/ StoreToOutput(f) \/ SendFinalDeliver(f)
    \/ SendFinalCtx(f) \/ WaitStop(f)

Next ==
    \/ Conductor
    \/ \E f \in FileTasks :
         \/ NewFileTask(f) \/ NewFileTaskErr(f) \/ Subscribe(f)
         \/ SyncProgress(f) \/ CallDoneCallback(f) \/ Cancel(f)

\* The conductor runs to a result (scheduler timeouts bound it), runnable
\* goroutines get scheduled (a select picks among its ready cases at
\* random, so the ctx.Done spin does not starve the others), and a handler
\* that is reading finishes newFileTask, keeps reading and calls
\* DoneCallback; nothing forces a request to arrive or a context to end.
Spec == /\ Init /\ [][Next]_vars
        /\ WF_vars(Conductor)
        /\ \A f \in FileTasks : /\ WF_vars(Subscribe(f))
                                /\ WF_vars(SyncProgress(f))
                                /\ WF_vars(CallDoneCallback(f))

-----------------------------------------------------------------------------
(* Properties.                                                             *)

TypeOK ==
    /\ cstate \in {"running", "closing", "closed", "success", "fail"}
    /\ outcome \in {"none", "success", "fail"}
    /\ completed \in 0..NumPieces
    /\ pieceQ \in [FileTasks -> Seq({"piece", "finished"})]
    /\ chClosed \in [FileTasks -> BOOLEAN]
    /\ ft \in [FileTasks -> {"new", "attach", "error", "loop", "sendPiece", "store", "sendFinal",
                             "waitStop", "exit", "panic"}]
    /\ pg \in [FileTasks -> Progress]
    /\ stored \in [FileTasks -> {"none", "ok", "err"}]
    /\ consumer \in [FileTasks -> {"recv", "callback", "exit"}]
    /\ results \in [FileTasks -> Seq(DownResult)]
    /\ rpcErr \in [FileTasks -> BOOLEAN]

\* dfget is told the download is done (a DownResult with Done) only when
\* the shared peer task succeeded, this file task's storeToOutput stored
\* the output, the last result carries the whole length, and the RPC did
\* not fail -- whatever the other file tasks of the conductor did.
SuccessMeansStored ==
    \A f \in FileTasks :
        (\E i \in DOMAIN results[f] : results[f][i].done) =>
            /\ outcome = "success" /\ stored[f] = "ok" /\ ~rpcErr[f]
            /\ results[f][Len(results[f])] = [completedLength |-> NumPieces, done |-> TRUE]

\* No syncProgress goroutine reads a nil piece from its broker channel.
NoNilPiece == \A f \in FileTasks : ft[f] # "panic"

\* A handler that keeps reading is eventually answered with a final
\* progress (or its daemon goroutine is gone), even when another file
\* task of the same conductor walked away.
CallerAnswered ==
    \A f \in FileTasks :
        (ft[f] # "new" /\ consumer[f] = "recv") ~> (consumer[f] # "recv" \/ ft[f] = "panic")

\* No syncProgress goroutine leaks: each file task created eventually has
\* its goroutine return (or newFileTask failed), whether its handler takes
\* the final progress or walks away, and even when its context ended while
\* the loop had nothing else to select, or it subscribed after the
\* conductor had closed its broker.
SyncProgressReturns ==
    \A f \in FileTasks : (ft[f] # "new") ~> (ft[f] \in {"exit", "panic", "error"})

-----------------------------------------------------------------------------
(* The file tasks implement what DownloadStream promises each dfget        *)
(* caller: a caller's stream has ended once its handler stopped reading.   *)

Stream == INSTANCE DownloadStream
            WITH N <- NumPieces, Callers <- FileTasks,
                 length <- completed, result <- outcome, stream <- results,
                 ended <- [f \in FileTasks |-> consumer[f] # "recv"]

\* Every behaviour of the file tasks, seen through dfget's DownResult
\* streams, is one DownloadStream allows: lengths reported in order and
\* never ahead of the conductor, Done once with the whole length and only
\* after the conductor succeeded, nothing after a stream has ended.
DownloadStreamSpec == Stream!Spec

=============================================================================
