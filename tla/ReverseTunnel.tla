--------------------------- MODULE ReverseTunnel ---------------------------
(***************************************************************************)
(* The reverse SSH tunnel of gonc (ssh -R): tunnel/reverse_*.go driven by  *)
(* internal/core/reverse.go.                                               *)
(*                                                                         *)
(* Goroutines: main (ReverseTunnelMode.Run: Start, Wait, Close), the       *)
(* watcher that Start spawns to unblock Accept, acceptLoop, one            *)
(* keepaliveLoop per established connection, one handleConnection per      *)
(* forwarded connection, and optionally an embedding caller's own Close.   *)
(* They share rt.client, rt.listener and rt.closed under rt.mu.            *)
(*                                                                         *)
(* The n-th SSH connection the tunnel dials is "generation" n; rt.client   *)
(* and rt.listener hold a generation, 0 for nil.  A critical section of    *)
(* rt.mu in which nothing blocks is one action; the four that call         *)
(* listener.Close() block on the gateway's reply and are two.  Time is     *)
(* abstracted: a timer may fire at any moment.                             *)
(***************************************************************************)
EXTENDS Naturals, FiniteSets

CONSTANTS
    AutoReconnect,      \* ReverseTunnelConfig.AutoReconnect
    KeepAlive,          \* KeepAliveInterval > 0
    CheckGatewayPorts,  \* the values of ReverseTunnelConfig.CheckGatewayPorts considered
    OutsideClose,       \* an embedding program calls rt.Close() while Run waits
    MaxAttempts,        \* reconnect's maxAttempts
    MaxGen,             \* bound: SSH connections that get as far as TCP connect
    Conns               \* bound: forwarded connections alive at the same time

ASSUME ConfigAssumption ==
    /\ AutoReconnect \in BOOLEAN /\ KeepAlive \in BOOLEAN
    /\ CheckGatewayPorts \subseteq BOOLEAN /\ OutsideClose \in BOOLEAN

ASSUME BoundAssumption ==
    /\ MaxAttempts \in Nat \ {0} /\ MaxGen \in Nat \ {0}
    /\ IsFiniteSet(Conns)

Gens == 1..MaxGen
OptGen == 0..MaxGen
Closers == {"main", "other"}

VARIABLES
    cancelled,   \* rt.ctx is done
    locked,      \* rt.mu (a Go mutex has no owner)
    client,      \* rt.client
    listener,    \* rt.listener
    closed,      \* rt.closed
    gen,         \* the last SSH connection dialled
    conn,        \* the SSH connection of each generation
    registered,  \* its "forwarded-tcpip" channel handler is taken
    forwarded,   \* the gateway forwards its remote port to us
    queue,       \* channels the gateway opened, not yet accepted
    done,        \* the listener's done channel is closed
    main,        \* where Run / Start is
    cl,          \* where each caller of Close is
    watcher,     \* the goroutine that waits for ctx.Done
    acc,         \* where acceptLoop is, reconnect included
    accL,        \* acceptLoop's local variable listener
    attempt,     \* reconnect's local variable attempt
    keep,        \* where the keepaliveLoop started with each generation is
    keepC,       \* that loop's local variable client
    hs,          \* where each handleConnection is
    hgen         \* the connection its channel belongs to

shared  == <<cancelled, locked, client, listener, closed>>
ssh     == <<gen, conn, registered, forwarded, queue, done>>
start   == <<main, cl, watcher>>
accept  == <<acc, accL, attempt>>
keepers == <<keep, keepC>>
handler == <<hs, hgen>>
vars    == <<shared, ssh, start, accept, keepers, handler>>

----------------------------------------------------------------------------
(* The SSH library and the mutex.                                          *)

(* "hung" is a gateway that is silent for good behind a live TCP session.  *)
Alive(g)    == conn[g] \in {"up", "hung"}
(* SendRequest returns: the gateway replied, or the transport failed.  It  *)
(* has no timeout and does not look at any context.                        *)
Answered(g) == conn[g] \in {"up", "dead"}

(* listener.Close(): the first call closes done, then waits for the reply  *)
(* to cancel-tcpip-forward; any other call returns at once.  All callers   *)
(* hold rt.mu, until the reply.                                            *)
ClosingStarts ==
    /\ ~locked /\ listener # 0 /\ ~done[listener]
    /\ locked' = TRUE
    /\ done' = [done EXCEPT ![listener] = TRUE]
(* Mutant: a listener that is still open is dropped without Close. *)
MutNothingToClose == ~locked
(* Mutant: a path that forgets to unlock. *)
MutClosingEnds ==
    /\ Answered(listener)
    /\ forwarded' = [forwarded EXCEPT ![listener] = FALSE]
    /\ UNCHANGED locked
NothingToClose ==
    ~locked /\ (listener # 0 => done[listener])
ClosingEnds ==
    /\ Answered(listener)
    /\ locked' = FALSE
    /\ forwarded' = [forwarded EXCEPT ![listener] = FALSE]

(* Mutant: the client is forgotten, not closed. *)
MutDropClient == client' = 0 /\ UNCHANGED conn
(* rt.client.Close(); rt.client = nil *)
DropClient ==
    /\ client' = 0
    /\ conn' = [g \in Gens |-> IF g = client THEN "dead" ELSE conn[g]]

Live == {h \in Conns : hs[h] # "off"}

(* rt.wg is zero: it counts acceptLoop, the keepalive loops, the handlers. *)
WaitGroupZero ==
    /\ acc \in {"off", "exited"}
    /\ \A g \in Gens : keep[g] \in {"off", "exited"}
    /\ Live = {}

----------------------------------------------------------------------------
Init ==
    /\ cancelled = FALSE /\ locked = FALSE
    /\ client = 0 /\ listener = 0 /\ closed = FALSE
    /\ gen = 0
    /\ conn = [g \in Gens |-> "none"]
    /\ registered = [g \in Gens |-> FALSE]
    /\ forwarded = [g \in Gens |-> FALSE]
    /\ queue = [g \in Gens |-> 0]
    /\ done = [g \in Gens |-> FALSE]
    /\ main = "dial" /\ watcher = "off"
    /\ cl = [p \in Closers |-> "idle"]
    /\ acc = "off" /\ accL = 0 /\ attempt = 0
    /\ keep = [g \in Gens |-> "off"]
    /\ keepC = [g \in Gens |-> 0]
    /\ hs = [h \in Conns |-> "off"]
    /\ hgen = [h \in Conns |-> 0]

----------------------------------------------------------------------------
(* Connecting: what dialSSH and listenRemoteForward do to the SSH state,   *)
(* in the steps Start and reconnect share.                                 *)

(* Mutant: net.Dialer.Dial, which is deaf to the context. *)
MutTCPConnect ==
    /\ gen < MaxGen
    /\ gen' = gen + 1
    /\ conn' = [conn EXCEPT ![gen + 1] = "up"]
    /\ UNCHANGED <<registered, forwarded, queue, done>>

(* net.Dialer.DialContext succeeds; it fails on a cancelled context. *)
TCPConnect ==
    /\ ~cancelled /\ gen < MaxGen
    /\ gen' = gen + 1
    /\ conn' = [conn EXCEPT ![gen + 1] = "up"]
    /\ UNCHANGED <<registered, forwarded, queue, done>>

(* ssh.NewClientConn and then client.HandleChannelOpen, which takes the    *)
(* handler unless somebody has it already.                                 *)
HandshakeOK == conn[gen] = "up" /\ UNCHANGED ssh
Register ==
    /\ ~registered[gen]
    /\ registered' = [registered EXCEPT ![gen] = TRUE]
    /\ UNCHANGED <<gen, conn, forwarded, queue, done>>

(* The gateway grants tcpip-forward. *)
ForwardGranted ==
    /\ conn[gen] = "up"
    /\ forwarded' = [forwarded EXCEPT ![gen] = TRUE]
    /\ UNCHANGED <<gen, conn, registered, queue, done>>

(* The connection that was just dialled is closed again. *)
Abandon ==
    /\ conn' = [conn EXCEPT ![gen] = "dead"]
    /\ UNCHANGED <<gen, registered, forwarded, queue, done>>

----------------------------------------------------------------------------
(* main: ReverseTunnelMode.Run and Start.                                  *)

MainGoto(from, to) ==
    main = from /\ main' = to /\ UNCHANGED <<cl, watcher>>

StartDial ==
    /\ MainGoto("dial", "handshake")
    /\ TCPConnect
    /\ UNCHANGED <<shared, accept, keepers, handler>>

StartDialFails ==
    /\ MainGoto("dial", "failed")
    /\ cancelled' = TRUE
    /\ UNCHANGED <<locked, client, listener, closed, ssh, accept, keepers, handler>>

(* The handshake ends; rt.client = client. *)
StartHandshake ==
    /\ \E check \in CheckGatewayPorts :
           MainGoto("handshake", IF check THEN "probe" ELSE "register")
    /\ HandshakeOK /\ ~locked
    /\ client' = gen
    /\ UNCHANGED <<cancelled, locked, listener, closed, accept, keepers, handler>>

(* validateGatewayPorts: rt.client.Listen makes the library register its   *)
(* own forwarded-tcpip handler, whatever the gateway then answers.         *)
StartProbe ==
    /\ MainGoto("probe", "probing")
    /\ registered' = [registered EXCEPT ![gen] = TRUE]
    /\ UNCHANGED <<gen, conn, forwarded, queue, done>>
    /\ UNCHANGED <<shared, accept, keepers, handler>>

(* The test listener is granted, and closed again. *)
StartProbed ==
    /\ MainGoto("probing", "register")
    /\ conn[gen] = "up"
    /\ UNCHANGED <<shared, ssh, accept, keepers, handler>>

StartRegister ==
    /\ MainGoto("register", "request")
    /\ Register
    /\ UNCHANGED <<shared, accept, keepers, handler>>

StartRegisterFails ==
    /\ MainGoto("register", "conflict")
    /\ registered[gen]
    /\ UNCHANGED <<shared, ssh, accept, keepers, handler>>

(* rt.listener = listener, and the goroutines are spawned. *)
StartListen ==
    /\ main = "request" /\ main' = "wait"
    /\ ~locked
    /\ ForwardGranted
    /\ listener' = gen
    /\ watcher' = "waiting"
    /\ keep' = [keep EXCEPT ![gen] = IF KeepAlive THEN "idle" ELSE "off"]
    /\ acc' = "top"
    /\ UNCHANGED <<cancelled, locked, client, closed, cl, accL, attempt, keepC, handler>>

(* Mutant: Start returns its error without closing the connection. *)
MutStartFails ==
    /\ \E pc \in {"handshake", "probe", "probing", "request", "conflict"} :
           /\ MainGoto(pc, "failed")
           /\ pc \in {"handshake", "probing", "request"} => Answered(gen)
    /\ cancelled' = TRUE
    /\ UNCHANGED <<locked, client, listener, closed, ssh, accept, keepers, handler>>

(* Start returns an error (handshake refused, no free port to probe with,  *)
(* a request refused or failed): it closes the connection and cancels.     *)
StartFails ==
    /\ \E pc \in {"handshake", "probe", "probing", "request", "conflict"} :
           /\ MainGoto(pc, "failed")
           /\ pc \in {"handshake", "probing", "request"} => Answered(gen)
    /\ Abandon
    /\ cancelled' = TRUE
    /\ UNCHANGED <<locked, client, listener, closed, accept, keepers, handler>>

(* rt.Wait() returns and the deferred rt.Close() begins. *)
RunWaited ==
    /\ main = "wait" /\ WaitGroupZero
    /\ main' = "close"
    /\ cl' = [cl EXCEPT !["main"] = "entry"]
    /\ UNCHANGED <<watcher, shared, ssh, accept, keepers, handler>>

OutsideCall ==
    /\ OutsideClose /\ main = "wait" /\ cl["other"] = "idle"
    /\ cl' = [cl EXCEPT !["other"] = "entry"]
    /\ UNCHANGED <<main, watcher, shared, ssh, accept, keepers, handler>>

----------------------------------------------------------------------------
(* Close, by caller p.                                                     *)

CloseGoto(p, from, to) ==
    /\ cl[p] = from /\ cl' = [cl EXCEPT ![p] = to]
    /\ UNCHANGED <<main, watcher, accept, keepers, handler>>

CloseTwice(p) ==
    /\ CloseGoto(p, "entry", "done")
    /\ ~locked /\ closed
    /\ UNCHANGED <<shared, ssh>>

(* rt.closed = true, then rt.cancel(); only Close looks at rt.closed. *)
CloseFirst(p) ==
    /\ CloseGoto(p, "entry", "listener")
    /\ ~locked /\ ~closed
    /\ closed' = TRUE /\ cancelled' = TRUE
    /\ UNCHANGED <<locked, client, listener, ssh>>

CloseListener(p) ==
    \/ /\ CloseGoto(p, "listener", "closing")
       /\ ClosingStarts
       /\ UNCHANGED <<cancelled, client, listener, closed>>
       /\ UNCHANGED <<gen, conn, registered, forwarded, queue>>
    \/ /\ CloseGoto(p, "listener", "grace")
       /\ NothingToClose
       /\ listener' = 0
       /\ UNCHANGED <<cancelled, locked, client, closed, ssh>>

CloseListenerEnds(p) ==
    /\ CloseGoto(p, "closing", "grace")
    /\ ClosingEnds
    /\ listener' = 0
    /\ UNCHANGED <<cancelled, client, closed, gen, conn, registered, queue, done>>

(* The select between the wait group and the 5 s timer. *)
CloseGrace(p) ==
    /\ CloseGoto(p, "grace", "client")
    /\ UNCHANGED <<shared, ssh>>

CloseClient(p) ==
    /\ CloseGoto(p, "client", "done")
    /\ ~locked
    /\ DropClient
    /\ UNCHANGED <<cancelled, locked, listener, closed>>
    /\ UNCHANGED <<gen, registered, forwarded, queue, done>>

Close(p) ==
    \/ CloseTwice(p) \/ CloseFirst(p) \/ CloseListener(p)
    \/ CloseListenerEnds(p) \/ CloseGrace(p) \/ CloseClient(p)

----------------------------------------------------------------------------
(* The goroutine Start spawns: it waits for ctx.Done, once, and closes     *)
(* whatever rt.listener is at that moment.                                 *)

WatcherGoto(from, to) ==
    /\ watcher = from /\ watcher' = to
    /\ UNCHANGED <<main, cl, cancelled, client, listener, closed>>
    /\ UNCHANGED <<gen, conn, registered, queue, accept, keepers, handler>>

WatcherFires ==
    /\ cancelled
    /\ \/ WatcherGoto("waiting", "closing") /\ ClosingStarts /\ UNCHANGED forwarded
       \/ WatcherGoto("waiting", "exited") /\ NothingToClose
          /\ UNCHANGED <<locked, forwarded, done>>

WatcherEnds ==
    WatcherGoto("closing", "exited") /\ ClosingEnds /\ UNCHANGED done

----------------------------------------------------------------------------
(* keepaliveLoop k, the one started with generation k.                     *)

KeepGoto(k, from, to) ==
    /\ keep[k] = from /\ keep' = [keep EXCEPT ![k] = to]
    /\ UNCHANGED <<start, accept, handler>>

KeepStops(k) ==
    /\ KeepGoto(k, "idle", "exited")
    /\ cancelled
    /\ UNCHANGED <<shared, ssh, keepC>>

(* The ticker fires; the loop now waits for rt.mu. *)
KeepTick(k) ==
    /\ KeepGoto(k, "idle", "tick")
    /\ UNCHANGED <<shared, ssh, keepC>>

KeepPing(k) ==
    /\ ~locked
    /\ \/ KeepGoto(k, "tick", "exited") /\ client = 0 /\ UNCHANGED keepC
       \/ KeepGoto(k, "tick", "ping") /\ client # 0
          /\ keepC' = [keepC EXCEPT ![k] = client]
    /\ UNCHANGED <<shared, ssh>>

KeepPong(k) ==
    /\ KeepGoto(k, "ping", "idle")
    /\ conn[keepC[k]] = "up"
    /\ UNCHANGED <<shared, ssh, keepC>>

KeepFails(k) ==
    /\ KeepGoto(k, "ping", "failed")
    /\ conn[keepC[k]] = "dead"
    /\ UNCHANGED <<shared, ssh, keepC>>

(* It closes rt.listener, which need not belong to the client it pinged. *)
KeepTearsDown(k) ==
    \/ /\ KeepGoto(k, "failed", "closing")
       /\ ClosingStarts
       /\ UNCHANGED <<cancelled, client, listener, closed, keepC>>
       /\ UNCHANGED <<gen, conn, registered, forwarded, queue>>
    \/ /\ KeepGoto(k, "failed", "exited")
       /\ NothingToClose
       /\ listener' = 0
       /\ UNCHANGED <<cancelled, locked, client, closed, ssh, keepC>>

KeepEnds(k) ==
    /\ KeepGoto(k, "closing", "exited")
    /\ ClosingEnds
    /\ listener' = 0
    /\ UNCHANGED <<cancelled, client, closed, gen, conn, registered, queue, done, keepC>>

Keeper(k) ==
    \/ KeepStops(k) \/ KeepTick(k) \/ KeepPing(k) \/ KeepPong(k)
    \/ KeepFails(k) \/ KeepTearsDown(k) \/ KeepEnds(k)

----------------------------------------------------------------------------
(* acceptLoop, with reconnect.                                             *)

AccGoto(from, to) ==
    acc = from /\ acc' = to /\ UNCHANGED start

(* defer rt.cancel(); defer rt.wg.Done() *)
AccExit(from) ==
    /\ AccGoto(from, "exited")
    /\ cancelled' = TRUE
    /\ UNCHANGED <<locked, client, listener, closed, accL, attempt>>
    /\ UNCHANGED <<ssh, keepers, handler>>

(* listener := rt.listener, under rt.mu *)
AccTop ==
    /\ ~locked
    /\ \/ listener = 0 /\ AccExit("top")
       \/ /\ listener # 0 /\ AccGoto("top", "accept")
          /\ accL' = listener
          /\ UNCHANGED <<shared, ssh, attempt, keepers, handler>>

(* Mutant: Accept hands out a channel the gateway did not open. *)
MutAccConn ==
    /\ AccGoto("accept", "top")
    /\ Alive(accL)
    /\ queue' = [queue EXCEPT ![accL] = @ - 1]
    /\ \E h \in Conns \ Live :
           /\ hs' = [hs EXCEPT ![h] = "dial"]
           /\ hgen' = [hgen EXCEPT ![h] = accL]
    /\ UNCHANGED <<shared, gen, conn, registered, forwarded, done>>
    /\ UNCHANGED <<accL, attempt, keepers>>

(* Accept returns a channel and a handler is spawned. *)
AccConn ==
    /\ AccGoto("accept", "top")
    /\ queue[accL] > 0 /\ Alive(accL)
    /\ queue' = [queue EXCEPT ![accL] = @ - 1]
    /\ \E h \in Conns \ Live :
           /\ hs' = [hs EXCEPT ![h] = "dial"]
           /\ hgen' = [hgen EXCEPT ![h] = accL]
    /\ UNCHANGED <<shared, gen, conn, registered, forwarded, done>>
    /\ UNCHANGED <<accL, attempt, keepers>>

(* Accept fails: done is closed, the channel queue is, or confirming a     *)
(* queued channel fails on a dead connection.                              *)
AccFails ==
    /\ AccGoto("accept", "error")
    /\ done[accL] \/ conn[accL] = "dead"
    /\ UNCHANGED <<shared, ssh, accL, attempt, keepers, handler>>

AccError ==
    \/ (cancelled \/ ~AutoReconnect) /\ AccExit("error")
    \/ /\ ~cancelled /\ AutoReconnect
       /\ AccGoto("error", "teardown")
       /\ UNCHANGED <<shared, ssh, accL, attempt, keepers, handler>>

(* reconnect: close the old listener, then the old client. *)
DropTunnel ==
    /\ AccGoto(acc, "retry")
    /\ DropClient /\ listener' = 0 /\ attempt' = 1
    /\ UNCHANGED <<cancelled, closed, accL, gen, registered, queue, done>>
    /\ UNCHANGED <<keepers, handler>>

AccTeardown ==
    \/ /\ AccGoto("teardown", "closing")
       /\ ClosingStarts
       /\ UNCHANGED <<cancelled, client, listener, closed, accL, attempt>>
       /\ UNCHANGED <<gen, conn, registered, forwarded, queue, keepers, handler>>
    \/ /\ acc = "teardown" /\ NothingToClose
       /\ DropTunnel
       /\ UNCHANGED <<locked, forwarded>>

AccTeardownEnds ==
    acc = "closing" /\ ClosingEnds /\ DropTunnel

AccGivesUp ==
    /\ cancelled \/ attempt > MaxAttempts
    /\ AccExit("retry")

AccDial ==
    /\ AccGoto("retry", "handshake")
    /\ attempt <= MaxAttempts
    /\ TCPConnect
    /\ UNCHANGED <<shared, accL, attempt, keepers, handler>>

(* sleepCtx(backoff) follows every failure. *)
AccDialFails ==
    /\ AccGoto("retry", "sleep")
    /\ ~cancelled /\ attempt <= MaxAttempts
    /\ UNCHANGED <<shared, ssh, accL, attempt, keepers, handler>>

AccHandshake ==
    /\ AccGoto("handshake", "register")
    /\ HandshakeOK
    /\ UNCHANGED <<shared, accL, attempt, keepers, handler>>

AccRegister ==
    /\ AccGoto("register", "request")
    /\ Register
    /\ UNCHANGED <<shared, accL, attempt, keepers, handler>>

AccGranted ==
    /\ AccGoto("request", "install")
    /\ ForwardGranted
    /\ UNCHANGED <<shared, accL, attempt, keepers, handler>>

AccRefused ==
    /\ \E pc \in {"handshake", "request"} : AccGoto(pc, "sleep")
    /\ Answered(gen)
    /\ Abandon
    /\ UNCHANGED <<shared, accL, attempt, keepers, handler>>

(* Mutant: rt.client is not replaced. *)
MutAccInstall ==
    /\ AccGoto("install", "top")
    /\ ~locked
    /\ listener' = gen
    /\ keep' = [keep EXCEPT ![gen] = IF KeepAlive THEN "idle" ELSE "off"]
    /\ UNCHANGED <<cancelled, locked, client, closed, ssh, accL, attempt, keepC, handler>>

(* rt.client, rt.listener = client, listener; then a keepaliveLoop for     *)
(* the new connection is started.  rt.ctx is not looked at here.           *)
AccInstall ==
    /\ AccGoto("install", "top")
    /\ ~locked
    /\ client' = gen /\ listener' = gen
    /\ keep' = [keep EXCEPT ![gen] = IF KeepAlive THEN "idle" ELSE "off"]
    /\ UNCHANGED <<cancelled, locked, closed, ssh, accL, attempt, keepC, handler>>

(* Mutant: the attempt is not counted. *)
MutAccSleep ==
    /\ AccGoto("sleep", "retry")
    /\ UNCHANGED <<shared, ssh, accL, attempt, keepers, handler>>

AccSleep ==
    /\ AccGoto("sleep", "retry")
    /\ attempt' = attempt + 1
    /\ UNCHANGED <<shared, ssh, accL, keepers, handler>>

AcceptLoop ==
    \/ AccTop \/ AccConn \/ AccFails \/ AccError \/ AccTeardown
    \/ AccTeardownEnds \/ AccGivesUp \/ AccDial \/ AccDialFails
    \/ AccHandshake \/ AccRegister \/ AccGranted \/ AccRefused
    \/ AccInstall \/ AccSleep

----------------------------------------------------------------------------
(* handleConnection h.                                                     *)

HandlerGoto(h, from, to) ==
    /\ hs[h] = from /\ hs' = [hs EXCEPT ![h] = to]
    /\ UNCHANGED <<hgen, shared, ssh, start, accept, keepers>>

(* net.DialTimeout to the local service: 5 s at most, deaf to rt.ctx. *)
HandlerDial(h) ==
    HandlerGoto(h, "dial", "bridge") \/ HandlerGoto(h, "dial", "off")

(* Mutant: bridgeConns does not look at the context. *)
MutHandlerStops(h) ==
    /\ HandlerGoto(h, "bridge", "closing")
    /\ conn[hgen[h]] = "dead"

(* bridgeConns stops on a cancelled context or a dead channel... *)
HandlerStops(h) ==
    /\ HandlerGoto(h, "bridge", "closing")
    /\ cancelled \/ conn[hgen[h]] = "dead"

(* ...or when one side ends by itself.  If that is the gateway's side no   *)
(* further answer is awaited.                                              *)
HandlerEOF(h) ==
    HandlerGoto(h, "bridge", "closing") \/ HandlerGoto(h, "bridge", "off")

(* Closing an SSH channel unblocks its reader only once the gateway has    *)
(* closed it too, or the transport is gone.                                *)
HandlerEnds(h) ==
    HandlerGoto(h, "closing", "off") /\ Answered(hgen[h])

Handler(h) ==
    HandlerDial(h) \/ HandlerStops(h) \/ HandlerEOF(h) \/ HandlerEnds(h)

----------------------------------------------------------------------------
(* The user and the gateway.                                               *)

(* SIGINT / SIGTERM cancel Run's context, rt.ctx's parent. *)
Interrupt ==
    /\ ~cancelled /\ cancelled' = TRUE
    /\ UNCHANGED <<locked, client, listener, closed>>
    /\ UNCHANGED <<ssh, start, accept, keepers, handler>>

GatewayOnly == UNCHANGED <<gen, registered, forwarded, done, shared, start, accept,
                           keepers, handler>>

(* Somebody connects to the remote port. *)
GatewayOpens(g) ==
    /\ conn[g] = "up" /\ forwarded[g]
    /\ queue[g] + Cardinality(Live) < Cardinality(Conns)
    /\ queue' = [queue EXCEPT ![g] = @ + 1]
    /\ UNCHANGED conn /\ GatewayOnly

GatewayHangs(g) ==
    /\ conn[g] = "up"
    /\ conn' = [conn EXCEPT ![g] = "hung"]
    /\ UNCHANGED queue /\ GatewayOnly

(* The connection is reset, or a silent one is given up by TCP. *)
ConnReset(g) ==
    /\ conn[g] = "up"
    /\ conn' = [conn EXCEPT ![g] = "dead"]
    /\ UNCHANGED queue /\ GatewayOnly

ConnTimesOut(g) ==
    /\ conn[g] = "hung"
    /\ conn' = [conn EXCEPT ![g] = "dead"]
    /\ UNCHANGED queue /\ GatewayOnly

Gateway(g) ==
    GatewayOpens(g) \/ GatewayHangs(g) \/ ConnReset(g) \/ ConnTimesOut(g)

----------------------------------------------------------------------------
Start ==
    \/ StartDial \/ StartDialFails \/ StartHandshake \/ StartProbe \/ StartProbed
    \/ StartRegister \/ StartRegisterFails \/ StartListen \/ StartFails

Ended == main = "failed" \/ cl["main"] = "done"

(* Nothing of the tunnel runs any more; not a step of the code. *)
Terminated ==
    /\ Ended /\ watcher \in {"off", "exited"} /\ acc \in {"off", "exited"}
    /\ UNCHANGED vars

Next ==
    \/ Start \/ RunWaited \/ OutsideCall \/ \E p \in Closers : Close(p)
    \/ WatcherFires \/ WatcherEnds
    \/ \E k \in Gens : Keeper(k)
    \/ AcceptLoop
    \/ \E h \in Conns : Handler(h)
    \/ Interrupt \/ \E g \in Gens : Gateway(g)
    \/ Terminated

Spec == Init /\ [][Next]_vars

(* Every goroutine that can run runs; Go's select picks each ready case    *)
(* again and again, so a case that is ready again and again is taken.      *)
Scheduled ==
    /\ WF_vars(Start) /\ WF_vars(RunWaited)
    /\ \A p \in Closers : WF_vars(Close(p))
    /\ WF_vars(WatcherFires) /\ WF_vars(WatcherEnds)
    /\ \A k \in Gens : WF_vars(Keeper(k)) /\ SF_vars(KeepStops(k))
    /\ WF_vars(AcceptLoop) /\ SF_vars(AccFails)
    /\ \A h \in Conns : WF_vars(HandlerDial(h)) /\ WF_vars(HandlerStops(h))
                        /\ WF_vars(HandlerEnds(h))

(* A silent peer is noticed: true when the network or the host is gone     *)
(* (TCP gives up).  A stalled server whose kernel still acknowledges would *)
(* not be, and holds up whoever waits for its answer.                      *)
SilenceNoticed == \A g \in Gens : WF_vars(ConnTimesOut(g))

FairSpec == Spec /\ Scheduled /\ SilenceNoticed

----------------------------------------------------------------------------
(* Type invariant of the tunnel's shared state and program counters. *)
TypeOK ==
    /\ cancelled \in BOOLEAN /\ locked \in BOOLEAN /\ closed \in BOOLEAN
    /\ client \in OptGen /\ listener \in OptGen /\ gen \in OptGen
    /\ conn \in [Gens -> {"none", "up", "hung", "dead"}]
    /\ registered \in [Gens -> BOOLEAN] /\ forwarded \in [Gens -> BOOLEAN]
    /\ done \in [Gens -> BOOLEAN] /\ queue \in [Gens -> Nat]
    /\ main \in {"dial", "handshake", "probe", "probing", "register", "request",
                 "conflict", "wait", "close", "failed"}
    /\ cl \in [Closers -> {"idle", "entry", "listener", "closing", "grace",
                           "client", "done"}]
    /\ watcher \in {"off", "waiting", "closing", "exited"}
    /\ acc \in {"off", "top", "accept", "error", "teardown", "closing", "retry",
                "handshake", "register", "request", "install", "sleep", "exited"}
    /\ accL \in OptGen /\ attempt \in Nat
    /\ keep \in [Gens -> {"off", "idle", "tick", "ping", "failed", "closing", "exited"}]
    /\ keepC \in [Gens -> OptGen]
    /\ hs \in [Conns -> {"off", "dial", "bridge", "closing"}]
    /\ hgen \in [Conns -> OptGen]

(* The goroutines inside a critical section of rt.mu that spans a blocking *)
(* listener.Close().                                                       *)
InCritical ==
    {<<"close", p>> : p \in {q \in Closers : cl[q] = "closing"}}
    \cup {<<"keepalive", k>> : k \in {j \in Gens : keep[j] = "closing"}}
    \cup (IF watcher = "closing" THEN {<<"watcher", 0>>} ELSE {})
    \cup (IF acc = "closing" THEN {<<"acceptLoop", 0>>} ELSE {})

(* rt.mu is held exactly while one goroutine is closing the listener, and  *)
(* no two ever are: every path (nil listener, already closed listener,     *)
(* answered or failed cancel request) unlocks once.                        *)
MutexDiscipline ==
    /\ locked <=> InCritical # {}
    /\ \A a, b \in InCritical : a = b
    /\ locked => listener # 0 /\ done[listener]

(* However often the tunnel reconnects, it never keeps two SSH sessions:   *)
(* reconnect closes the old client before it dials, and every failed       *)
(* attempt closes what it dialled.                                         *)
OneSession == Cardinality({g \in Gens : Alive(g)}) <= 1

(* rt.listener always belongs to rt.client: keepaliveLoop and Close drop   *)
(* the listener first, reconnect replaces both together.                   *)
ListenerOfClient == listener # 0 => client = listener

(* When Run returns and no other Close is under way, nothing of the tunnel *)
(* is left: no forwarding or keepalive goroutine, no open SSH session, no  *)
(* listener.  The watcher may still be on its way out.                     *)
NothingLeft ==
    Ended /\ cl["other"] \in {"idle", "done"} =>
        /\ WaitGroupZero /\ cancelled
        /\ \A g \in Gens : ~Alive(g)
        /\ main = "close" => client = 0 /\ listener = 0

(* A running forwarded connection never belongs to a live SSH session that *)
(* is not the tunnel's own, even while the tunnel reconnects.              *)
TrafficOnCurrentSession ==
    \A h \in Live : Alive(hgen[h]) => hgen[h] = gen /\ client = gen

(* rt.listener is replaced or dropped only after it was closed, so Accept  *)
(* on a lost listener always wakes up.                                     *)
ListenerClosedBeforeDropped ==
    [][ listener # 0 /\ listener' # listener => done[listener] ]_vars

(* Cancelling the context (or Close) makes Run return. *)
ShutdownCompletes == cancelled ~> Ended

(* Close by anybody ends the SSH sessions, whoever else works on them: when *)
(* the Close that closes the client returns, the only session that may be  *)
(* open is the one reconnect is setting up, and from then on none is       *)
(* opened.  reconnect installs that one without a look at rt.closed, which *)
(* is more than the comment of Close allows for (reverse_tunnel.go:144).   *)
CloseEndsSessions ==
    [][ \A p \in Closers :
          /\ cl[p] = "client" /\ cl'[p] = "done" =>
                \A g \in Gens : Alive(g)' =>
                    g = gen /\ acc \in {"handshake", "register", "request", "install"}
          /\ cl[p] = "done" => \A g \in Gens : Alive(g)' => Alive(g) ]_vars

(* The loss of the SSH session is always dealt with: a new session takes   *)
(* its place, or Run (or Start) ends.                                      *)
LossIsHandled ==
    \A g \in Gens : (client = g /\ conn[g] = "dead") ~> (client > g \/ Ended)

(* The tunnel implements the serial sessions of SerialSessions: reconnect  *)
(* opens a session only when the former is gone for good, none comes back, *)
(* and once Run has returned, unless some other Close is about, there is   *)
(* none and none is opened any more.                                       *)
Serial == INSTANCE SerialSessions WITH
              live  <- {g \in Gens : Alive(g)},
              last  <- gen,
              ended <- Ended /\ cl["other"] = "idle"
Implements == Serial!Spec

=============================================================================
