------------------------------ MODULE GameLoop ------------------------------
(***************************************************************************)
(* How the server stops: the main thread leaves the scheduler's loop, runs *)
(* the shutdown systems, signals the thread that accepts connections and   *)
(* waits for its answer.  The acceptor looks at the shutdown flag too, and *)
(* it may fail or panic at any time.                                       *)
(*                                                                         *)
(* The loop itself is TimedScheduler, whose state and steps are taken over *)
(* as they are; this module adds the acceptor and the two channels between *)
(* them.                                                                   *)
(***************************************************************************)
EXTENDS TimedScheduler

VARIABLES
    main,       \* the main thread
    acceptor,   \* the acceptor thread
    signal,     \* the oneshot from main to acceptor holds a value
    response,   \* answers in the channel from acceptor to main
    failed,     \* ghost: the acceptor ended on an error or a panic
    raced       \* ghost: it was not waiting when the shutdown was requested,
                \* or a connection came in after that

scheduler == <<due, burst_count, running, ran_count, loop, owed, next, served, after>>
stopping  == <<main, acceptor, signal, response, failed, raced>>
server    == <<scheduler, shut_down, stopping>>

ServerInit ==
    /\ Init
    /\ main = "loop" /\ acceptor = "binding"
    /\ signal = FALSE /\ response = 0
    /\ failed = FALSE /\ raced = FALSE

\* The receiving end of `signal` lives in the accept loop, the sending end of
\* `response` in the thread.
Receiving  == acceptor \in {"binding", "check", "select"}
Responding == acceptor # "ended"

-----------------------------------------------------------------------------
(* The main thread.                                                        *)

RunLoop ==
    /\ main = "loop" /\ MainLoop
    /\ UNCHANGED stopping

\* The ctrl-c handler's thread sets the flag.
RequestShutDown ==
    /\ main = "loop" /\ ShutDown
    /\ raced' = (raced \/ acceptor # "select")
    /\ UNCHANGED <<main, acceptor, signal, response, failed>>

\* shutdown_schedule.run: a disconnect packet for every player.
ShutdownSystems ==
    /\ main = "loop" /\ loop = "stopped"
    /\ main' = "signal"
    /\ UNCHANGED <<scheduler, shut_down, acceptor, signal, response, failed, raced>>

\* .expect("Failed to send shutdown signal")
SendSignal ==
    /\ main = "signal"
    /\ IF Receiving THEN main' = "wait" /\ signal' = TRUE
                    ELSE main' = "panicked" /\ UNCHANGED signal
    /\ UNCHANGED <<scheduler, shut_down, acceptor, response, failed, raced>>

\* Mutant: main keeps a sender of its own, so the channel never closes.
ReceiveOnly ==
    /\ main = "wait"
    /\ response > 0 /\ main' = "returned" /\ response' = response - 1
    /\ UNCHANGED <<scheduler, shut_down, acceptor, signal, failed, raced>>

\* .expect("Failed to receive shutdown response"): waits for an answer, or for
\* the other end to be dropped.
Receive ==
    /\ main = "wait"
    /\ \/ response > 0 /\ main' = "returned" /\ response' = response - 1
       \/ response = 0 /\ ~Responding /\ main' = "panicked" /\ UNCHANGED response
    /\ UNCHANGED <<scheduler, shut_down, acceptor, signal, failed, raced>>

-----------------------------------------------------------------------------
(* The acceptor thread, which dies with the process.                       *)

Up == main \notin {"returned", "panicked"}

\* create_server_listener; on failure the thread just ends.
Bind ==
    /\ Up /\ acceptor = "binding"
    /\ \/ acceptor' = "check" /\ UNCHANGED failed
       \/ acceptor' = "ended" /\ failed' = TRUE
    /\ UNCHANGED <<scheduler, shut_down, main, signal, response, raced>>

\* `while !state.shut_down`
Check ==
    /\ Up /\ acceptor = "check"
    /\ acceptor' = IF shut_down THEN "leaving" ELSE "select"
    /\ UNCHANGED <<scheduler, shut_down, main, signal, response, failed, raced>>

\* tokio::select!, the accept branch: a task is spawned for the connection, or
\* the error is logged; peer_addr()? ends the thread.
Accept ==
    /\ Up /\ acceptor = "select"
    /\ \/ acceptor' = "check" /\ raced' = (raced \/ shut_down) /\ UNCHANGED failed
       \/ acceptor' = "ended" /\ failed' = TRUE /\ UNCHANGED raced
    /\ UNCHANGED <<scheduler, shut_down, main, signal, response>>

\* ... and the signal branch.
TakeSignal ==
    /\ Up /\ acceptor = "select" /\ signal
    /\ signal' = FALSE /\ acceptor' = "leaving"
    /\ UNCHANGED <<scheduler, shut_down, main, response, failed, raced>>

\* Mutant: the thread ends without an answer.
LeaveSilently ==
    /\ Up /\ acceptor = "leaving"
    /\ acceptor' = "ended"
    /\ UNCHANGED <<scheduler, shut_down, main, signal, response, failed, raced>>

Leave ==
    /\ Up /\ acceptor = "leaving"
    /\ response' = response + 1 /\ acceptor' = "ended"
    /\ UNCHANGED <<scheduler, shut_down, main, signal, failed, raced>>

\* A panic is caught, and sets the flag.
Panic ==
    /\ Up /\ Receiving
    /\ acceptor' = "ended" /\ failed' = TRUE
    /\ shut_down' = TRUE
    /\ UNCHANGED <<scheduler, main, signal, response, raced>>

-----------------------------------------------------------------------------
Main     == RunLoop \/ ShutdownSystems \/ SendSignal \/ Receive
Acceptor == Bind \/ Check \/ TakeSignal \/ Leave

ServerNext == Main \/ RequestShutDown \/ Acceptor \/ Accept \/ Panic

\* Both threads run; connections, failures and shutdowns may never come.  The
\* accept branch cannot shut out the signal for ever: select! picks at random.
ServerSpec == ServerInit /\ [][ServerNext]_server
             /\ WF_server(Main) /\ WF_server(Bind \/ Check \/ Leave) /\ SF_server(TakeSignal)

-----------------------------------------------------------------------------
ServerTypeOK ==
    /\ TypeOK
    /\ main \in {"loop", "signal", "wait", "returned", "panicked"}
    /\ acceptor \in {"binding", "check", "select", "leaving", "ended"}
    /\ signal \in BOOLEAN /\ response \in 0..1 /\ failed \in BOOLEAN /\ raced \in BOOLEAN

(* Main and acceptor never wait for each other for ever: a requested        *)
(* shutdown ends the process, whenever and however the acceptor fails.      *)
MainEnds == shut_down ~> ~Up

(* ... and ends it without a panic, if the acceptor was waiting for         *)
(* connections when the shutdown was requested, and stayed undisturbed.     *)
CleanStop == main = "panicked" => failed \/ raced
=============================================================================
