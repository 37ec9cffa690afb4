---------------------------- MODULE RabbitClient ----------------------------
(***************************************************************************)
(* The RabbitMQ client every publisher and consumer of a process shares    *)
(* (internal/rabbitmq/client.go): one connection, a supervisor goroutine   *)
(* that replaces it when it is lost, callers of Connection that wait for a *)
(* usable one, and Close, which may come at any moment of a recovery.      *)
(*                                                                         *)
(* Connections and ready channels are numbered in the order they are made. *)
(* Connections are bounded by MaxDials, failed dials by MaxFailures; the   *)
(* last connection is not lost.                                            *)
(***************************************************************************)
EXTENDS Integers

CONSTANTS
    Callers,     \* goroutines that call Connection
    MaxDials,    \* bound: connections, the first one included
    MaxFailures  \* bound: dials that fail

ASSUME RabbitClientAssumption == MaxDials \in Nat \ {0} /\ MaxFailures \in Nat

VARIABLES
    conn,          \* Client.conn, 0 for nil
    readyCh,       \* Client.readyCh: the number of the current ready channel
    clientClosed,  \* Client.closed
    shutdown,      \* shutdownCh is closed
    sup,           \* where supervise and recoverConnection are
    current,       \* the connection they watch or are about to install
    up,            \* open connections
    dialled,       \* connections made so far
    failures,      \* dials failed so far
    readied,       \* ready channels that are closed
    panicked,      \* a closed channel was closed again
    clientClosePc, \* the Close call: idle, marked, signalled, waiting, done
    closing,       \* the connection Close found
    caller,        \* where a caller of Connection is
    awaits         \* the ready channel it waits for

clientVars == <<conn, readyCh, clientClosed, shutdown>>
supVars    == <<sup, current>>
netVars    == <<up, dialled, failures>>
chanVars   == <<readied, panicked>>
closeVars  == <<clientClosePc, closing>>
callerVars == <<caller, awaits>>
rabbitVars == <<clientVars, supVars, netVars, chanVars, closeVars, callerVars>>

\* Open dials once; the first ready channel is closed from the start.
ClientInit ==
    /\ conn = 1 /\ readyCh = 1 /\ clientClosed = FALSE /\ shutdown = FALSE
    /\ sup = "watch" /\ current = 1
    /\ up = {1} /\ dialled = 1 /\ failures = 0
    /\ readied = {1} /\ panicked = FALSE
    /\ clientClosePc = "idle" /\ closing = 0
    /\ caller = [w \in Callers |-> "idle"]
    /\ awaits = [w \in Callers |-> 0]

(***************************************************************************)
(* supervise and recoverConnection.                                        *)
(***************************************************************************)

\* Faulty variant: the old ready channel stays.
ClearedChannelKept == readyCh

\* clearConnection makes a new ready channel, unless the client is closed.
ClearedChannel == IF clientClosed THEN readyCh ELSE readyCh + 1

\* The watched connection is closed, or the client shuts down.
Watch ==
    /\ sup = "watch"
    /\ \/ current \notin up /\ sup' = "lost"
       \/ shutdown /\ sup' = "leaving"
    /\ UNCHANGED <<clientVars, current, netVars, chanVars, closeVars, callerVars>>

ClearConnection ==
    /\ sup \in {"lost", "leaving"}
    /\ sup' = IF sup = "lost" THEN "recover" ELSE "done"
    /\ IF conn = current
         THEN conn' = 0 /\ readyCh' = ClearedChannel
         ELSE UNCHANGED <<conn, readyCh>>
    /\ UNCHANGED <<clientClosed, shutdown, current, netVars, chanVars, closeVars, callerVars>>

\* The loop of recoverConnection looks at shutdownCh before every dial.
Recover ==
    /\ sup = "recover"
    /\ sup' = IF shutdown THEN "done" ELSE "dial"
    /\ UNCHANGED <<clientVars, current, netVars, chanVars, closeVars, callerVars>>

DialSucceeds ==
    /\ sup = "dial"
    /\ dialled' = dialled + 1
    /\ up' = up \cup {dialled + 1}
    /\ current' = dialled + 1
    /\ sup' = "install"
    /\ UNCHANGED <<clientVars, failures, chanVars, closeVars, callerVars>>

DialFails ==
    /\ sup = "dial"
    /\ failures < MaxFailures
    /\ failures' = failures + 1
    /\ sup' = "backoff"
    /\ UNCHANGED <<clientVars, current, up, dialled, chanVars, closeVars, callerVars>>

\* The backoff timer, or shutdownCh.
Backoff ==
    /\ sup = "backoff"
    /\ \/ sup' = "recover"
       \/ shutdown /\ sup' = "done"
    /\ UNCHANGED <<clientVars, current, netVars, chanVars, closeVars, callerVars>>

\* Faulty variant: a client that was closed meanwhile gets the connection.
InstallAlways ==
    /\ sup = "install"
    /\ conn' = current
    /\ readied' = readied \cup {readyCh}
    /\ panicked' = (panicked \/ readyCh \in readied)
    /\ sup' = "watch"
    /\ UNCHANGED <<readyCh, clientClosed, shutdown, current, netVars, closeVars, callerVars>>

\* installConnection: the new connection is published and the ready channel closed,
\* or, when the client was closed meanwhile, the connection is closed again.
Install ==
    /\ sup = "install"
    /\ IF clientClosed
         THEN /\ up' = up \ {current}
              /\ sup' = "done"
              /\ UNCHANGED <<conn, chanVars>>
         ELSE /\ conn' = current
              /\ readied' = readied \cup {readyCh}
              /\ panicked' = (panicked \/ readyCh \in readied)
              /\ sup' = "watch"
              /\ UNCHANGED up
    /\ UNCHANGED <<readyCh, clientClosed, shutdown, current, dialled, failures, closeVars,
                   callerVars>>

(***************************************************************************)
(* Close.                                                                  *)
(***************************************************************************)

\* Under Client.mu: no connection is installed from now on.
CloseMarks ==
    /\ clientClosePc = "idle"
    /\ clientClosed' = TRUE
    /\ closing' = conn
    /\ clientClosePc' = "marked"
    /\ UNCHANGED <<conn, readyCh, shutdown, supVars, netVars, chanVars, callerVars>>

CloseSignals ==
    /\ clientClosePc = "marked"
    /\ shutdown' = TRUE
    /\ clientClosePc' = "signalled"
    /\ UNCHANGED <<conn, readyCh, clientClosed, supVars, netVars, chanVars, closing, callerVars>>

CloseConnection ==
    /\ clientClosePc = "signalled"
    /\ up' = up \ {closing}
    /\ clientClosePc' = "waiting"
    /\ UNCHANGED <<clientVars, supVars, dialled, failures, chanVars, closing, callerVars>>

\* supervisorDoneCh.
CloseEnds ==
    /\ clientClosePc = "waiting"
    /\ sup = "done"
    /\ clientClosePc' = "done"
    /\ UNCHANGED <<clientVars, supVars, netVars, chanVars, closing, callerVars>>

(***************************************************************************)
(* Connection, and the network.                                            *)
(***************************************************************************)
Call(w) ==
    /\ caller[w] \in {"idle", "got", "failed"}
    /\ caller' = [caller EXCEPT ![w] = "looking"]
    /\ UNCHANGED <<clientVars, supVars, netVars, chanVars, closeVars, awaits>>

\* The connection the client has is not nil and not closed.
Usable == conn # 0 /\ conn \in up

\* One look under the read lock: an answer, or the ready channel to wait for.
Look(w) ==
    /\ caller[w] = "looking"
    /\ caller' = [caller EXCEPT ![w] =
                    CASE clientClosed -> "failed" [] ~clientClosed /\ Usable -> "got"
                      [] OTHER -> "waiting"]
    /\ awaits' = [awaits EXCEPT ![w] = readyCh]
    /\ UNCHANGED <<clientVars, supVars, netVars, chanVars, closeVars>>

\* Faulty variant: shutdownCh is not listened to.
WakeByReadyOnly(w) ==
    /\ caller[w] = "waiting"
    /\ awaits[w] \in readied
    /\ caller' = [caller EXCEPT ![w] = "looking"]
    /\ UNCHANGED <<clientVars, supVars, netVars, chanVars, closeVars, awaits>>

\* The ready channel or shutdownCh wakes the caller; a channel that is already
\* closed, of a connection whose loss is not noticed yet, wakes it at once.
Wake(w) ==
    /\ caller[w] = "waiting"
    /\ \/ awaits[w] \in readied /\ caller' = [caller EXCEPT ![w] = "looking"]
       \/ shutdown /\ caller' = [caller EXCEPT ![w] = "failed"]
    /\ UNCHANGED <<clientVars, supVars, netVars, chanVars, closeVars, awaits>>

\* The caller's context is done.
Cancel(w) ==
    /\ caller[w] = "waiting"
    /\ caller' = [caller EXCEPT ![w] = "failed"]
    /\ UNCHANGED <<clientVars, supVars, netVars, chanVars, closeVars, awaits>>

LoseConnection(n) ==
    /\ n \in up
    /\ dialled < MaxDials
    /\ up' = up \ {n}
    /\ UNCHANGED <<clientVars, supVars, dialled, failures, chanVars, closeVars, callerVars>>

(***************************************************************************)
(* Specification.                                                          *)
(***************************************************************************)
Supervise ==
    \/ Watch \/ ClearConnection \/ Recover
    \/ DialSucceeds \/ DialFails \/ Backoff \/ Install

Close == CloseSignals \/ CloseConnection \/ CloseEnds

ClientNext ==
    \/ Supervise \/ CloseMarks \/ Close
    \/ \E w \in Callers : Call(w) \/ Look(w) \/ Wake(w) \/ Cancel(w)
    \/ \E n \in 1..MaxDials : LoseConnection(n)

ClientSpec == ClientInit /\ [][ClientNext]_rabbitVars

\* The goroutines run when they can and every dial ends, by its timeout if need be.
\* Nobody has to call, and no context has to end.
ClientFairSpec ==
    /\ ClientSpec
    /\ WF_rabbitVars(Supervise) /\ WF_rabbitVars(Close)
    /\ \A w \in Callers : WF_rabbitVars(Look(w) \/ Wake(w))

(***************************************************************************)
(* Properties.                                                             *)
(***************************************************************************)

\* Every variable keeps its type; connections are numbered up to the last dial.
ClientTypeOK ==
    /\ dialled \in Nat /\ failures \in Nat /\ up \subseteq 1..dialled
    /\ conn \in 0..dialled /\ current \in 1..dialled /\ closing \in 0..dialled
    /\ readyCh \in Nat /\ readied \subseteq 0..readyCh
    /\ clientClosed \in BOOLEAN /\ shutdown \in BOOLEAN /\ panicked \in BOOLEAN
    /\ sup \in {"watch", "lost", "leaving", "recover", "dial", "backoff", "install", "done"}
    /\ clientClosePc \in {"idle", "marked", "signalled", "waiting", "done"}
    /\ caller \in [Callers -> {"idle", "looking", "waiting", "got", "failed"}]
    /\ awaits \in [Callers -> Nat]

\* A caller never waits for a ready channel that nobody is going to close: the
\* current one is open exactly while an open client has no connection, older ones
\* are closed, and none is closed twice, which would end the process.
ReadyChannelSound ==
    /\ ~panicked
    /\ ~clientClosed => (readyCh \in readied <=> conn # 0)
    /\ \A w \in Callers : caller[w] = "waiting" =>
          awaits[w] = readyCh \/ awaits[w] \in readied

\* Close leaves no connection open: neither the one it found, nor one that a
\* recovery dialled while Close ran, nor one lost and replaced before.
NoLeakedConnection == clientClosePc = "done" => up = {}

\* Close returns in whatever state of a recovery it comes, and every caller gets a
\* connection or an error once the broker stays reachable, although it may spin on
\* the ready channel of a connection whose loss the supervisor has yet to notice.
NobodyWaitsForever ==
    /\ clientClosed ~> clientClosePc = "done"
    /\ \A w \in Callers : caller[w] \in {"looking", "waiting"} ~> caller[w] \in {"got", "failed"}
=============================================================================
