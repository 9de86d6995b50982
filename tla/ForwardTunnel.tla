--------------------------- MODULE ForwardTunnel ---------------------------
(***************************************************************************)
(* The forward SSH tunnel (-T): transport.SSHDialer over tunnel.SSHTunnel. *)
(* Callers dial concurrently (the port scanner does); the first Dial       *)
(* connects the tunnel while holding d.mu, and every Connect spawns a      *)
(* monitor goroutine that flips t.alive when its SSH connection ends.      *)
(* The n-th SSH connection is generation n, 0 stands for a nil client.     *)
(* The critical sections of t.mu never block and are single actions.       *)
(***************************************************************************)
EXTENDS Naturals, FiniteSets

CONSTANTS
    Callers,  \* goroutines that call SSHDialer.Dial
    MaxGen    \* bound: SSH connections that get as far as TCP connect

ASSUME TunnelAssumption == MaxGen \in Nat \ {0}

Gens == 1..MaxGen
OptGen == 0..MaxGen

VARIABLES
    locked,     \* d.mu
    connected,  \* d.connected
    client,     \* t.client
    alive,      \* t.alive
    gen,        \* the last SSH connection dialled
    conn,       \* the SSH connection of each generation
    mon,        \* the monitor spawned with each generation
    watched,    \* its local variable client
    call,       \* where each caller's Dial is
    target,     \* its local variable client in SSHTunnel.Dial
    expired     \* the context it passed is done

dialer  == <<locked, connected>>
tunnel  == <<client, alive, gen, conn>>
monitor == <<mon, watched>>
calls   == <<call, target, expired>>
vars    == <<dialer, tunnel, monitor, calls>>

(* Not returned yet. *)
InFlight(c) == call[c] \in {"lock", "tcp", "handshake", "read", "open", "opened"}
Up(g)       == conn[g] \in {"up", "hung"}
(* A blocking exchange with the gateway ends: answered, or torn.  The SSH  *)
(* library looks at no context here.                                       *)
Answered(g) == conn[g] \in {"up", "dead"}

Init ==
    /\ locked = FALSE /\ connected = FALSE
    /\ client = 0 /\ alive = FALSE /\ gen = 0
    /\ conn = [g \in Gens |-> "none"]
    /\ mon = [g \in Gens |-> "off"] /\ watched = [g \in Gens |-> 0]
    /\ call = [c \in Callers |-> "idle"]
    /\ target = [c \in Callers |-> 0]
    /\ expired = [c \in Callers |-> FALSE]

----------------------------------------------------------------------------
Goto(c, from, to) ==
    /\ call[c] = from /\ call' = [call EXCEPT ![c] = to]
    /\ UNCHANGED expired

(* A caller dials, for the first time or again. *)
Dial(c) ==
    /\ ~InFlight(c)
    /\ call' = [call EXCEPT ![c] = "lock"]
    /\ expired' = [expired EXCEPT ![c] = FALSE]
    /\ target' = [target EXCEPT ![c] = 0]
    /\ UNCHANGED <<dialer, tunnel, monitor>>

(* Mutant: the lock is given back before Connect. *)
MutConnectLock(c) ==
    /\ ~locked
    /\ Goto(c, "lock", IF connected THEN "read" ELSE "tcp")
    /\ UNCHANGED <<locked, connected, target, tunnel, monitor>>

(* connect: takes d.mu, and keeps it unless the tunnel is connected. *)
ConnectLock(c) ==
    /\ ~locked
    /\ Goto(c, "lock", IF connected THEN "read" ELSE "tcp")
    /\ locked' = ~connected
    /\ UNCHANGED <<connected, target, tunnel, monitor>>

ConnectTCP(c) ==
    /\ Goto(c, "tcp", "handshake")
    /\ ~expired[c] /\ gen < MaxGen
    /\ gen' = gen + 1
    /\ conn' = [conn EXCEPT ![gen + 1] = "up"]
    /\ UNCHANGED <<dialer, client, alive, target, monitor>>

(* Mutant: the error path keeps d.mu. *)
MutConnectTCPFails(c) ==
    /\ Goto(c, "tcp", "failed")
    /\ UNCHANGED <<locked, connected, target, tunnel, monitor>>

ConnectTCPFails(c) ==
    /\ Goto(c, "tcp", "failed")
    /\ locked' = FALSE
    /\ UNCHANGED <<connected, target, tunnel, monitor>>

(* Mutant: the TCP connection of a failed handshake stays open. *)
MutConnectRefused(c) ==
    /\ Goto(c, "handshake", "failed")
    /\ Answered(gen)
    /\ locked' = FALSE
    /\ UNCHANGED <<connected, target, tunnel, monitor>>

ConnectRefused(c) ==
    /\ Goto(c, "handshake", "failed")
    /\ Answered(gen)
    /\ conn' = [conn EXCEPT ![gen] = "dead"]
    /\ locked' = FALSE
    /\ UNCHANGED <<connected, client, alive, gen, target, monitor>>

(* The handshake ends: Connect publishes the client and spawns its monitor *)
(* and connect marks the dialer connected.                                 *)
ConnectDone(c) ==
    /\ Goto(c, "handshake", "read")
    /\ conn[gen] = "up"
    /\ client' = gen /\ alive' = TRUE
    /\ mon' = [mon EXCEPT ![gen] = "started"]
    /\ connected' = TRUE /\ locked' = FALSE
    /\ UNCHANGED <<gen, conn, target, watched>>

(* SSHTunnel.Dial: ErrNotConnected, or client.Dial on the client read. *)
TunnelDial(c) ==
    /\ \/ Goto(c, "read", "failed") /\ (~alive \/ client = 0) /\ UNCHANGED target
       \/ Goto(c, "read", "open") /\ alive /\ client # 0
          /\ target' = [target EXCEPT ![c] = client]
    /\ UNCHANGED <<dialer, tunnel, monitor>>

(* The gateway opens the channel or refuses it, or the session is gone. *)
Opened(c) ==
    /\ Goto(c, "open", "opened")
    /\ conn[target[c]] = "up"
    /\ UNCHANGED <<dialer, target, tunnel, monitor>>
NotOpened(c) ==
    /\ Goto(c, "open", "failed")
    /\ Answered(target[c])
    /\ UNCHANGED <<dialer, target, tunnel, monitor>>

(* Dial returns the channel; what happened to its session since the        *)
(* gateway's confirmation shows in the channel, not in Dial's result.      *)
Returns(c) ==
    /\ Goto(c, "opened", "ok")
    /\ UNCHANGED <<dialer, target, tunnel, monitor>>

(* Mutant: the client is dropped without closing it. *)
MutClose ==
    /\ ~locked /\ connected
    /\ connected' = FALSE /\ alive' = FALSE /\ client' = 0
    /\ UNCHANGED <<locked, gen, conn, monitor, calls>>

(* SSHDialer.Close with SSHTunnel.Close; nothing to do when not connected. *)
Close ==
    /\ ~locked /\ connected
    /\ connected' = FALSE /\ alive' = FALSE /\ client' = 0
    /\ conn' = [g \in Gens |-> IF g = client THEN "dead" ELSE conn[g]]
    /\ UNCHANGED <<locked, gen, monitor, calls>>

----------------------------------------------------------------------------
(* monitor g reads t.client when it gets to run... *)
MonitorReads(g) ==
    /\ mon[g] = "started"
    /\ watched' = [watched EXCEPT ![g] = client]
    /\ mon' = [mon EXCEPT ![g] = IF client = 0 THEN "exited" ELSE "waiting"]
    /\ UNCHANGED <<dialer, tunnel, calls>>

(* Mutant: the monitor does not touch t.alive. *)
MutMonitorWakes(g) ==
    /\ mon[g] = "waiting" /\ conn[watched[g]] = "dead"
    /\ mon' = [mon EXCEPT ![g] = "exited"]
    /\ UNCHANGED <<dialer, tunnel, watched, calls>>

(* ...and clears t.alive when that client is done, whatever t.client is.   *)
MonitorWakes(g) ==
    /\ mon[g] = "waiting" /\ conn[watched[g]] = "dead"
    /\ alive' = FALSE
    /\ mon' = [mon EXCEPT ![g] = "exited"]
    /\ UNCHANGED <<dialer, client, gen, conn, watched, calls>>

----------------------------------------------------------------------------
(* The outside: contexts expire, the gateway falls silent or goes away. *)
Expire(c) ==
    /\ InFlight(c) /\ ~expired[c]
    /\ expired' = [expired EXCEPT ![c] = TRUE]
    /\ UNCHANGED <<call, target, dialer, tunnel, monitor>>

ConnTo(g, from, to) ==
    /\ conn[g] = from /\ conn' = [conn EXCEPT ![g] = to]
    /\ UNCHANGED <<client, alive, gen, dialer, monitor, calls>>
ConnHangs(g)    == ConnTo(g, "up", "hung")
ConnReset(g)    == ConnTo(g, "up", "dead")
ConnTimesOut(g) == ConnTo(g, "hung", "dead")

Progress(c) ==
    \/ ConnectTCP(c) \/ ConnectTCPFails(c) \/ ConnectRefused(c) \/ ConnectDone(c)
    \/ TunnelDial(c) \/ Opened(c) \/ NotOpened(c) \/ Returns(c)

Next ==
    \/ \E c \in Callers : Dial(c) \/ ConnectLock(c) \/ Progress(c) \/ Expire(c)
    \/ Close
    \/ \E g \in Gens : \/ MonitorReads(g) \/ MonitorWakes(g)
                       \/ ConnHangs(g) \/ ConnReset(g) \/ ConnTimesOut(g)

Spec == Init /\ [][Next]_vars

(* Goroutines run, a Go mutex starves nobody, a TCP dial ends, and TCP     *)
(* gives up on a gateway that stays silent.                                *)
FairSpec ==
    /\ Spec
    /\ \A c \in Callers : WF_vars(Progress(c)) /\ SF_vars(ConnectLock(c))
    /\ \A g \in Gens : /\ WF_vars(MonitorReads(g)) /\ WF_vars(MonitorWakes(g))
                       /\ WF_vars(ConnTimesOut(g))

----------------------------------------------------------------------------
(* Type invariant of the forward tunnel. *)
TypeOK ==
    /\ locked \in BOOLEAN /\ connected \in BOOLEAN /\ alive \in BOOLEAN
    /\ client \in OptGen /\ gen \in OptGen
    /\ conn \in [Gens -> {"none", "up", "hung", "dead"}]
    /\ mon \in [Gens -> {"off", "started", "waiting", "exited"}]
    /\ watched \in [Gens -> OptGen]
    /\ call \in [Callers -> {"idle", "lock", "tcp", "handshake", "read", "open",
                             "opened", "ok", "failed"}]
    /\ target \in [Callers -> OptGen]
    /\ expired \in [Callers -> BOOLEAN]

(* When nobody is connecting and the dialer is not connected, no session   *)
(* is open: a failed Connect and Close leave nothing behind.               *)
NothingLeftOpen ==
    ~locked /\ ~connected => client = 0 /\ ~alive /\ \A g \in Gens : ~Up(g)

(* A channel is opened on the tunnel's current session only, even when     *)
(* Close and a new Connect ran while the dial waited for it; and the       *)
(* channel a dial returns, some time later, is on the current session or   *)
(* on one that is gone, never on one that lives on without an owner.       *)
DialUsesCurrentSession ==
    [][ \A c \in Callers :
          /\ call[c] = "open" /\ call'[c] = "opened" => target[c] = client
          /\ call[c] = "opened" /\ call'[c] = "ok"
                => target[c] = client \/ ~Up(target[c]) ]_vars

(* The end of the current session is noticed: the tunnel stops claiming to *)
(* be alive (or is closed, or reconnected).                                *)
LossIsNoticed ==
    \A g \in Gens : (client = g /\ conn[g] = "dead") ~> (client # g \/ ~alive)

(* Every Dial returns. *)
DialReturns == \A c \in Callers : InFlight(c) ~> ~InFlight(c)

(* Concurrent first dials share one SSH session, and after a Close the     *)
(* next one comes only when the former is gone: the dialer implements      *)
(* SerialSessions.                                                         *)
Serial == INSTANCE SerialSessions WITH
              live <- {g \in Gens : Up(g)}, last <- gen, ended <- FALSE
Implements == Serial!Spec

=============================================================================
