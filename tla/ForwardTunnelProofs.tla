------------------------- MODULE ForwardTunnelProofs -------------------------
(***************************************************************************)
(* Proofs about ForwardTunnel for any number of callers and connections.   *)
(* d.mu is held by the one caller that connects, and an open SSH session   *)
(* is either the published client or the one being shaken hands with.      *)
(***************************************************************************)
EXTENDS ForwardTunnel, TLAPS

Connecting(c) == call[c] \in {"tcp", "handshake"}

LockHeld ==
    \A c \in Callers : Connecting(c) =>
        locked /\ ~connected /\ \A d \in Callers : Connecting(d) => d = c
Published ==
    /\ client \in {0, gen}
    /\ connected <=> client # 0
    /\ ~connected => ~alive
Owned ==
    /\ \A g \in Gens : Up(g) => /\ g = gen
                                /\ client = g \/ \E c \in Callers : call[c] = "handshake"
    /\ \A c \in Callers : call[c] = "handshake" => gen # 0
(* Who has asked for a channel asked a session that has been published. *)
Targets ==
    \A c \in Callers :
        /\ target[c] <= gen
        /\ call[c] \in {"open", "opened"} =>
              /\ target[c] # 0
              /\ \A d \in Callers : call[d] = "handshake" => target[c] # gen

TunnelInv == TypeOK /\ LockHeld /\ Published /\ Owned /\ Targets

----------------------------------------------------------------------------
LEMMA TypeInit == Init => TypeOK
<1> SUFFICES ASSUME Init PROVE TypeOK
  OBVIOUS
<1>1. 0 \in OptGen
  BY TunnelAssumption DEF OptGen
<1>2. watched \in [Gens -> OptGen] /\ target \in [Callers -> OptGen]
  BY <1>1 DEF Init
<1>3. conn \in [Gens -> {"none", "up", "hung", "dead"}]
      /\ mon \in [Gens -> {"off", "started", "waiting", "exited"}]
  BY DEF Init
<1>4. /\ call \in [Callers -> {"idle", "lock", "tcp", "handshake", "read", "open",
                                "opened", "ok", "failed"}]
      /\ expired \in [Callers -> BOOLEAN]
  BY DEF Init
<1>5. locked \in BOOLEAN /\ connected \in BOOLEAN /\ alive \in BOOLEAN
      /\ client \in OptGen /\ gen \in OptGen
  BY <1>1 DEF Init
<1> QED
  BY <1>2, <1>3, <1>4, <1>5 DEF TypeOK

LEMMA TypeCaller ==
    ASSUME TypeOK, NEW c \in Callers, Dial(c) \/ ConnectLock(c) \/ Progress(c) \/ Expire(c)
    PROVE  TypeOK'
<1> USE TunnelAssumption DEF TypeOK, Goto, dialer, tunnel, monitor, OptGen
<1>1. CASE Dial(c) BY <1>1 DEF Dial
<1>2. CASE ConnectLock(c) BY <1>2 DEF ConnectLock
<1>3. CASE ConnectTCP(c) BY <1>3 DEF ConnectTCP, Gens
<1>4. CASE ConnectTCPFails(c) BY <1>4 DEF ConnectTCPFails
<1>5. CASE ConnectRefused(c) BY <1>5 DEF ConnectRefused
<1>6. CASE ConnectDone(c) BY <1>6 DEF ConnectDone
<1>7. CASE TunnelDial(c) BY <1>7 DEF TunnelDial
<1>8. CASE Opened(c) \/ NotOpened(c) \/ Returns(c) BY <1>8 DEF Opened, NotOpened, Returns
<1>9. CASE Expire(c) BY <1>9 DEF Expire
<1> QED
  BY <1>1, <1>2, <1>3, <1>4, <1>5, <1>6, <1>7, <1>8, <1>9 DEF Progress

LEMMA TypeStep == TypeOK /\ [Next]_vars => TypeOK'
<1> SUFFICES ASSUME TypeOK, [Next]_vars PROVE TypeOK'
  OBVIOUS
<1> USE TunnelAssumption DEF TypeOK, dialer, tunnel, monitor, calls
<1>1. CASE Close
  <2>1. conn' \in [Gens -> {"none", "up", "hung", "dead"}]
    BY <1>1 DEF Close
  <2>2. /\ locked' = locked /\ connected' = FALSE /\ alive' = FALSE /\ client' = 0
        /\ gen' = gen /\ UNCHANGED <<mon, watched, call, target, expired>>
    BY <1>1 DEF Close
  <2>3. client' \in OptGen
    BY <2>2 DEF OptGen
  <2>4. locked' \in BOOLEAN /\ connected' \in BOOLEAN /\ alive' \in BOOLEAN
    BY <2>2
  <2> QED
    BY <2>1, <2>2, <2>3, <2>4
<1>2. ASSUME NEW g \in Gens, MonitorReads(g) \/ MonitorWakes(g) PROVE TypeOK'
  <2>1. CASE MonitorReads(g) BY <2>1 DEF MonitorReads
  <2>2. CASE MonitorWakes(g) BY <2>2 DEF MonitorWakes
  <2> QED BY <1>2, <2>1, <2>2
<1>3. ASSUME NEW g \in Gens, ConnHangs(g) \/ ConnReset(g) \/ ConnTimesOut(g) PROVE TypeOK'
  BY <1>3 DEF ConnHangs, ConnReset, ConnTimesOut, ConnTo
<1>4. CASE UNCHANGED vars
  BY <1>4 DEF vars
<1> QED
  BY TypeCaller, <1>1, <1>2, <1>3, <1>4 DEF Next

----------------------------------------------------------------------------
LEMMA InvInit == Init => TunnelInv
<1> SUFFICES ASSUME Init PROVE TunnelInv
  OBVIOUS
<1>1. TypeOK
  BY TypeInit
<1>2. LockHeld /\ Published /\ Owned /\ Targets
  BY DEF Init, LockHeld, Published, Owned, Targets, Connecting, Up
<1> QED
  BY <1>1, <1>2 DEF TunnelInv

(* What the calls do to the four parts, in the order of a Dial. *)
Parts == LockHeld /\ Published /\ Owned /\ Targets

LEMMA InvConnect ==
    ASSUME TunnelInv, TypeOK', NEW c \in Callers,
           ConnectLock(c) \/ ConnectTCP(c) \/ ConnectTCPFails(c) \/ ConnectRefused(c)
               \/ ConnectDone(c)
    PROVE  Parts'
<1> USE TunnelAssumption DEF TunnelInv, TypeOK, Goto, dialer, tunnel, Connecting, Up, Gens,
        OptGen
<1>1. CASE ConnectLock(c)
  <2>1. LockHeld'
    <3>1. \A d \in Callers : ~Connecting(d)
      BY <1>1 DEF ConnectLock, LockHeld
    <3>2. \A d \in Callers : call'[d] \in {"tcp", "handshake"} => d = c /\ ~connected
      BY <1>1, <3>1 DEF ConnectLock
    <3>3. connected' = connected /\ locked' = ~connected
      BY <1>1 DEF ConnectLock
    <3>4. ASSUME NEW d \in Callers, Connecting(d)' PROVE locked' /\ ~connected' /\ d = c
      BY <3>2, <3>3, <3>4
    <3> QED
      BY ONLY <3>4 DEF LockHeld
  <2>2. Published' /\ Targets'
    BY <1>1 DEF ConnectLock, Published, Targets
  <2>3. Owned'
    BY <1>1 DEF ConnectLock, Owned
  <2> QED
    BY <2>1, <2>2, <2>3 DEF Parts
<1>2. CASE ConnectTCP(c)
  <2>1. ~connected /\ client = 0 /\ \A d \in Callers : Connecting(d) => d = c
    BY <1>2 DEF ConnectTCP, LockHeld, Published
  <2>2. \A g \in Gens : ~Up(g)
    BY <1>2, <2>1 DEF ConnectTCP, Owned
  <2>3. LockHeld'
    BY <1>2, <2>1 DEF ConnectTCP, LockHeld
  <2>4. Owned'
    <3>1. gen' = gen + 1 /\ gen' # 0 /\ call'[c] = "handshake"
      BY <1>2 DEF ConnectTCP
    <3>2. \A g \in Gens : Up(g)' => g = gen'
      BY <1>2, <2>2, <3>1 DEF ConnectTCP
    <3> QED
      BY <3>1, <3>2 DEF Owned
  <2>5. Published'
    BY <1>2, <2>1 DEF ConnectTCP, Published
  <2>6. Targets'
    BY <1>2, <2>1 DEF ConnectTCP, Targets
  <2> QED
    BY <2>3, <2>4, <2>5, <2>6 DEF Parts
<1>3. CASE ConnectTCPFails(c)
  BY <1>3 DEF ConnectTCPFails, Parts, LockHeld, Published, Owned, Targets
<1>4. CASE ConnectRefused(c)
  BY <1>4 DEF ConnectRefused, Parts, LockHeld, Published, Owned, Targets
<1>5. CASE ConnectDone(c)
  BY <1>5 DEF ConnectDone, Parts, LockHeld, Published, Owned, Targets
<1> QED
  BY <1>1, <1>2, <1>3, <1>4, <1>5

LEMMA InvDial ==
    ASSUME TunnelInv, TypeOK', NEW c \in Callers,
           Dial(c) \/ TunnelDial(c) \/ Opened(c) \/ NotOpened(c) \/ Returns(c) \/ Expire(c)
    PROVE  Parts'
<1> USE TunnelAssumption DEF TunnelInv, TypeOK, Goto, dialer, tunnel, Connecting, Up, Gens, OptGen
<1>1. CASE Dial(c)
  BY <1>1 DEF Dial, InFlight, Parts, LockHeld, Published, Owned, Targets
<1>2. CASE TunnelDial(c)
  <2>1. LockHeld' /\ Published' /\ Owned'
    BY <1>2 DEF TunnelDial, LockHeld, Published, Owned
  <2>2. \/ target' = target /\ call'[c] = "failed"
        \/ client # 0 /\ target'[c] = client
    BY <1>2 DEF TunnelDial
  <2>3. \A d \in Callers : d # c => call'[d] = call[d] /\ target'[d] = target[d]
    BY <1>2 DEF TunnelDial
  <2>4. gen' = gen /\ call'[c] # "handshake"
    BY <1>2 DEF TunnelDial
  <2>5. client # 0 => \A d \in Callers : call[d] # "handshake"
    BY DEF LockHeld, Published
  <2>6. client <= gen
    BY DEF Published
  <2>7. \A d \in Callers : call'[d] = "handshake" => call[d] = "handshake"
    BY <2>3, <2>4
  <2>8. Targets'
    <3> SUFFICES ASSUME NEW d \in Callers
                 PROVE  /\ target'[d] <= gen
                        /\ call'[d] \in {"open", "opened"} =>
                              /\ target'[d] # 0
                              /\ \A e \in Callers : call'[e] = "handshake" => target'[d] # gen
      BY <2>4 DEF Targets
    <3>1. CASE d # c
      BY <2>3, <2>7, <3>1 DEF Targets
    <3>2. CASE d = c
      BY <2>2, <2>5, <2>6, <2>7, <3>2 DEF Targets
    <3> QED
      BY <3>1, <3>2
  <2> QED
    BY <2>1, <2>8 DEF Parts
<1>3. CASE Opened(c)
  BY <1>3 DEF Opened, Parts, LockHeld, Published, Owned, Targets
<1>4. CASE NotOpened(c) \/ Returns(c)
  <2>1. /\ UNCHANGED <<dialer, tunnel, target>>
        /\ call[c] \in {"open", "opened"} /\ call'[c] \in {"failed", "ok"}
        /\ \A d \in Callers : d # c => call'[d] = call[d]
    BY <1>4 DEF NotOpened, Returns
  <2>2. ASSUME NEW d \in Callers
        PROVE  /\ call'[d] \in {"tcp", "handshake"} <=> call[d] \in {"tcp", "handshake"}
               /\ call'[d] = "handshake" <=> call[d] = "handshake"
               /\ call'[d] \in {"open", "opened"} => call[d] \in {"open", "opened"}
    <3>1. CASE d = c
      BY <2>1, <3>1
    <3>2. CASE d # c
      BY <2>1, <3>2
    <3> QED
      BY <3>1, <3>2
  <2>3. LockHeld' /\ Published'
    BY <2>1, <2>2 DEF LockHeld, Published
  <2>4. Owned' /\ Targets'
    BY <2>1, <2>2 DEF Owned, Targets
  <2> QED
    BY <2>3, <2>4 DEF Parts
<1>5. CASE Expire(c)
  BY <1>5 DEF Expire, Parts, LockHeld, Published, Owned, Targets
<1> QED
  BY <1>1, <1>2, <1>3, <1>4, <1>5

LEMMA InvOthers ==
    ASSUME TunnelInv, TypeOK',
           \/ Close
           \/ \E g \in Gens : \/ MonitorReads(g) \/ MonitorWakes(g)
                              \/ ConnHangs(g) \/ ConnReset(g) \/ ConnTimesOut(g)
           \/ UNCHANGED vars
    PROVE  Parts'
<1> USE DEF TunnelInv, TypeOK, vars, dialer, tunnel, monitor, calls, Connecting, Up, Parts,
        LockHeld, Published, Owned, Targets
<1>1. CASE Close
  BY <1>1 DEF Close
<1>2. ASSUME NEW g \in Gens, MonitorReads(g) \/ MonitorWakes(g) PROVE Parts'
  BY <1>2 DEF MonitorReads, MonitorWakes
<1>3. ASSUME NEW g \in Gens, ConnHangs(g) \/ ConnReset(g) \/ ConnTimesOut(g) PROVE Parts'
  BY <1>3 DEF ConnHangs, ConnReset, ConnTimesOut, ConnTo
<1>4. CASE UNCHANGED vars
  BY <1>4
<1> QED
  BY <1>1, <1>2, <1>3, <1>4

LEMMA InvStep == TunnelInv /\ [Next]_vars => TunnelInv'
<1> SUFFICES ASSUME TunnelInv, [Next]_vars, TypeOK' PROVE Parts'
  BY TypeStep DEF TunnelInv, Parts
<1> QED
  BY InvConnect, InvDial, InvOthers DEF Next, Progress

LEMMA TunnelCorrect == Spec => []TunnelInv
BY InvInit, InvStep, PTL DEF Spec

----------------------------------------------------------------------------
(* Every variable of the forward tunnel keeps its type. *)
THEOREM TypeCorrect == Spec => []TypeOK
BY TypeInit, TypeStep, PTL DEF Spec

(* A failed Connect and a Close leave no session open, whoever else is     *)
(* dialling meanwhile.                                                     *)
THEOREM NothingLeftCorrect == Spec => []NothingLeftOpen
<1>1. TunnelInv => NothingLeftOpen
  BY DEF TunnelInv, LockHeld, Published, Owned, Connecting, NothingLeftOpen, Gens
<1> QED
  BY <1>1, TunnelCorrect, PTL

(* Every channel is opened on the session that is current then, although   *)
(* SSHTunnel.Dial read the client earlier, and when the dial returns it,   *)
(* that session is still the current one or gone.                          *)
THEOREM CurrentSession == Spec => DialUsesCurrentSession
<1>1. ASSUME TunnelInv, NEW c \in Callers, call[c] \in {"open", "opened"}, Up(target[c])
      PROVE  target[c] = client
  <2>1. target[c] \in Gens
    BY <1>1, TunnelAssumption DEF TunnelInv, TypeOK, Targets, Gens, OptGen
  <2> QED
    BY <1>1, <2>1 DEF TunnelInv, Owned, Targets
<1>2. TunnelInv /\ [Next]_vars =>
        [\A c \in Callers :
            /\ call[c] = "open" /\ call'[c] = "opened" => target[c] = client
            /\ call[c] = "opened" /\ call'[c] = "ok" => target[c] = client \/ ~Up(target[c])]_vars
  <2> SUFFICES ASSUME TunnelInv, Next, NEW c \in Callers, call[c] = "open", call'[c] = "opened"
               PROVE  Up(target[c])
    BY <1>1 DEF vars
  <2>1. Opened(c)
    BY DEF Next, Progress, Dial, InFlight, ConnectLock, ConnectTCP, ConnectTCPFails,
           ConnectRefused, ConnectDone, TunnelDial, Opened, NotOpened, Returns, Expire, Goto,
           Close, MonitorReads, MonitorWakes, ConnHangs, ConnReset, ConnTimesOut, ConnTo, calls,
           TunnelInv, TypeOK
  <2> QED
    BY <2>1 DEF Opened, Up
<1> QED
  BY <1>2, TunnelCorrect, PTL DEF Spec, DialUsesCurrentSession

(* Concurrent first dials share one session, and a new one is opened only  *)
(* when the former is gone: the dialer implements SerialSessions.          *)
THEOREM SerialDialer == Spec => Implements
<1> USE DEF Serial!Open, Serial!Lose, Serial!Next, Serial!vars
<1> DEFINE Live == {g \in Gens : Up(g)}
<1>1. Init => Serial!Init
  BY DEF Init, Serial!Init, Up
<1>2. TunnelInv /\ TunnelInv' /\ [Next]_vars => [Serial!Next]_(Serial!vars)
  <2> SUFFICES ASSUME TunnelInv, TunnelInv', [Next]_vars PROVE [Serial!Next]_(Serial!vars)
    OBVIOUS
  <2>1. CASE \E c \in Callers : ConnectTCP(c)
    <3>1. PICK c \in Callers : ConnectTCP(c)
      BY <2>1
    <3>2. Live = {}
      BY <3>1 DEF ConnectTCP, Goto, TunnelInv, LockHeld, Published, Owned, Connecting, Gens
    <3>3. gen' = gen + 1 /\ gen + 1 \in Gens
      BY <3>1, TunnelAssumption DEF ConnectTCP, TunnelInv, TypeOK, OptGen, Gens
    <3>4. Live' = {gen + 1}
      BY <3>1, <3>2, <3>3 DEF ConnectTCP, TunnelInv, TypeOK, Up
    <3> QED
      BY <3>2, <3>3, <3>4
  <2>2. ASSUME gen' = gen, Live' = Live \/ Live' = {} PROVE [Serial!Next]_(Serial!vars)
    BY <2>2
  <2>3. CASE \E c \in Callers : ConnectRefused(c)
    <3>1. gen' = gen /\ Live' = {}
      BY <2>3 DEF ConnectRefused, Goto, TunnelInv, TypeOK, Owned, Up, Gens, OptGen
    <3> QED
      BY <2>2, <3>1
  <2>4. CASE Close
    <3>1. gen' = gen /\ Live' = {}
      BY <2>4 DEF Close, TunnelInv, TypeOK, LockHeld, Owned, Connecting, Up
    <3> QED
      BY <2>2, <3>1
  <2>5. CASE \E g \in Gens : ConnReset(g) \/ ConnTimesOut(g)
    <3>1. gen' = gen /\ Live' = {}
      BY <2>5 DEF ConnReset, ConnTimesOut, ConnTo, TunnelInv, TypeOK, Owned, Up
    <3> QED
      BY <2>2, <3>1
  <2>6. CASE \E g \in Gens : ConnHangs(g)
    <3>1. gen' = gen /\ Live' = Live
      BY <2>6 DEF ConnHangs, ConnTo, TunnelInv, TypeOK, Up
    <3> QED
      BY <2>2, <3>1
  <2>7. CASE \/ \E c \in Callers : \/ Dial(c) \/ ConnectLock(c) \/ ConnectTCPFails(c)
                                   \/ ConnectDone(c) \/ TunnelDial(c) \/ Opened(c)
                                   \/ NotOpened(c) \/ Returns(c) \/ Expire(c)
             \/ \E g \in Gens : MonitorReads(g) \/ MonitorWakes(g)
             \/ UNCHANGED vars
    <3>1. gen' = gen /\ conn' = conn
      BY <2>7 DEF Dial, ConnectLock, ConnectTCPFails, ConnectDone, TunnelDial, Opened,
         NotOpened, Returns, Expire, MonitorReads, MonitorWakes, tunnel, vars
    <3> QED
      BY <2>2, <3>1 DEF Up
  <2> QED
    BY <2>1, <2>3, <2>4, <2>5, <2>6, <2>7 DEF Next, Progress
<1> QED
  BY <1>1, <1>2, TunnelCorrect, PTL DEF Spec, Implements, Serial!Spec

----------------------------------------------------------------------------
(* What makes every Dial return, and the loss of a session noticed.        *)
(* Liveness itself rests on fairness; proved are its two safety sides,     *)
(* that there is always somebody who can take the next step.               *)

(* What caller c can do without anybody's help: the guards of ConnectLock  *)
(* and of Progress.                                                        *)
CallerReady(c) ==
    \/ call[c] = "lock" /\ ~locked
    \/ call[c] \in {"tcp", "read"}
    \/ call[c] = "handshake" /\ Answered(gen)
    \/ call[c] = "open" /\ Answered(target[c])
    \/ call[c] = "opened"

(* Who waits for d.mu waits for a caller that connects and can go on.      *)
NobodyWaitsInVain ==
    (\A g \in Gens : conn[g] # "hung") =>
        \A c \in Callers : InFlight(c) =>
            \/ CallerReady(c)
            \/ call[c] = "lock" /\ \E d \in Callers : Connecting(d) /\ CallerReady(d)

(* A tunnel that claims to be alive has its own monitor: one that has yet  *)
(* to read t.client, or waits for the end of the very session it holds.    *)
Monitored ==
    alive => /\ client # 0
             /\ \/ mon[client] = "started"
                \/ mon[client] = "waiting" /\ watched[client] = client

(* d.mu is not left locked, and nobody waits for the answer of a session   *)
(* that was never dialled.                                                 *)
Held    == locked => \E c \in Callers : Connecting(c)
Dialled == \A g \in Gens : g <= gen => conn[g] # "none"

MoveInv == TunnelInv /\ Held /\ Dialled /\ Monitored

LEMMA MoveInit == Init => MoveInv
<1> SUFFICES ASSUME Init PROVE MoveInv
  OBVIOUS
<1>1. Held /\ Dialled /\ Monitored
  BY DEF Init, Held, Dialled, Monitored, Gens
<1> QED
  BY <1>1, InvInit DEF MoveInv

LEMMA HeldStep == ASSUME MoveInv, TypeOK', [Next]_vars PROVE Held'
<1> SUFFICES ASSUME locked' PROVE \E c \in Callers : Connecting(c)'
  BY DEF Held
<1> USE DEF MoveInv, TunnelInv, TypeOK, Held, Connecting
(* Whoever connects goes on connecting, unless it takes the step itself.   *)
<1>1. ASSUME NEW c \in Callers, call' = [call EXCEPT ![c] = call'[c]], locked' = locked,
             ~Connecting(c)
      PROVE  \E d \in Callers : Connecting(d)'
  BY <1>1
<1>2. ASSUME NEW c \in Callers,
             Dial(c) \/ TunnelDial(c) \/ Opened(c) \/ NotOpened(c) \/ Returns(c) \/ Expire(c)
      PROVE  \E d \in Callers : Connecting(d)'
  BY <1>1, <1>2 DEF Dial, TunnelDial, Opened, NotOpened, Returns, Expire, InFlight, Goto, dialer
<1>3. ASSUME NEW c \in Callers, ConnectLock(c) \/ ConnectTCP(c)
      PROVE  \E d \in Callers : Connecting(d)'
  BY <1>3 DEF ConnectLock, ConnectTCP, Goto
<1>4. ASSUME NEW c \in Callers, ConnectTCPFails(c) \/ ConnectRefused(c) \/ ConnectDone(c)
      PROVE  FALSE
  BY <1>4 DEF ConnectTCPFails, ConnectRefused, ConnectDone
<1>5. CASE \/ Close
           \/ \E g \in Gens : \/ MonitorReads(g) \/ MonitorWakes(g)
                              \/ ConnHangs(g) \/ ConnReset(g) \/ ConnTimesOut(g)
           \/ UNCHANGED vars
  <2>1. UNCHANGED <<locked, call>>
    BY <1>5 DEF Close, MonitorReads, MonitorWakes, ConnHangs, ConnReset, ConnTimesOut, ConnTo,
           dialer, calls, vars
  <2> QED
    BY <2>1
<1> QED
  BY <1>2, <1>3, <1>4, <1>5 DEF Next, Progress

LEMMA DialledStep == ASSUME MoveInv, [Next]_vars PROVE Dialled'
<1> USE TunnelAssumption DEF MoveInv, TunnelInv, TypeOK, Dialled, Gens, OptGen
<1>1. ASSUME NEW c \in Callers, ConnectTCP(c) PROVE Dialled'
  BY <1>1 DEF ConnectTCP
<1>2. ASSUME NEW c \in Callers, ConnectRefused(c) PROVE Dialled'
  BY <1>2 DEF ConnectRefused
<1>3. CASE Close
  BY <1>3 DEF Close
<1>4. ASSUME NEW g \in Gens, ConnHangs(g) \/ ConnReset(g) \/ ConnTimesOut(g) PROVE Dialled'
  BY <1>4 DEF ConnHangs, ConnReset, ConnTimesOut, ConnTo
<1>5. CASE \/ \E c \in Callers : \/ Dial(c) \/ ConnectLock(c) \/ ConnectTCPFails(c)
                                 \/ ConnectDone(c) \/ TunnelDial(c) \/ Opened(c)
                                 \/ NotOpened(c) \/ Returns(c) \/ Expire(c)
           \/ \E g \in Gens : MonitorReads(g) \/ MonitorWakes(g)
           \/ UNCHANGED vars
  <2>1. UNCHANGED <<gen, conn>>
    BY <1>5 DEF Dial, ConnectLock, ConnectTCPFails, ConnectDone, TunnelDial, Opened, NotOpened, Returns,
           Expire, MonitorReads, MonitorWakes, tunnel, vars
  <2> QED
    BY <2>1
<1> QED
  BY <1>1, <1>2, <1>3, <1>4, <1>5 DEF Next, Progress

LEMMA MonitoredStep == ASSUME MoveInv, [Next]_vars PROVE Monitored'
<1> USE DEF MoveInv, TunnelInv, TypeOK, Monitored, OptGen, Gens
<1>1. ASSUME NEW c \in Callers, ConnectDone(c) PROVE Monitored'
  BY <1>1 DEF ConnectDone, Goto, Owned
<1>2. ASSUME NEW g \in Gens, MonitorReads(g) PROVE Monitored'
  BY <1>2 DEF MonitorReads, dialer, tunnel, calls
<1>3. CASE Close \/ \E g \in Gens : MonitorWakes(g)
  BY <1>3 DEF Close, MonitorWakes
<1>4. CASE \/ \E c \in Callers : \/ Dial(c) \/ ConnectLock(c) \/ ConnectTCP(c)
                                 \/ ConnectTCPFails(c) \/ ConnectRefused(c) \/ TunnelDial(c)
                                 \/ Opened(c) \/ NotOpened(c) \/ Returns(c) \/ Expire(c)
           \/ \E g \in Gens : ConnHangs(g) \/ ConnReset(g) \/ ConnTimesOut(g)
           \/ UNCHANGED vars
  <2>1. UNCHANGED <<alive, client, mon, watched>>
    BY <1>4 DEF Dial, ConnectLock, ConnectTCP, ConnectTCPFails, ConnectRefused, TunnelDial,
           Opened, NotOpened, Returns, Expire, ConnHangs, ConnReset, ConnTimesOut, ConnTo, tunnel,
           monitor, vars
  <2> QED
    BY <2>1
<1> QED
  BY <1>1, <1>2, <1>3, <1>4 DEF Next, Progress

LEMMA MoveStep == MoveInv /\ [Next]_vars => MoveInv'
<1> SUFFICES ASSUME MoveInv, [Next]_vars PROVE MoveInv'
  OBVIOUS
<1>1. TunnelInv'
  BY InvStep DEF MoveInv
<1> QED
  BY <1>1, HeldStep, DialledStep, MonitoredStep DEF MoveInv, TunnelInv

(* While the gateway answers, every Dial that has not returned can go on   *)
(* by itself, or waits for the one that connects the tunnel and can.       *)
THEOREM ProgressCorrect == Spec => []NobodyWaitsInVain
<1>1. MoveInv => NobodyWaitsInVain
  <2> SUFFICES ASSUME MoveInv, \A g \in Gens : conn[g] # "hung", NEW c \in Callers, InFlight(c)
               PROVE  \/ CallerReady(c)
                      \/ call[c] = "lock" /\ \E d \in Callers : Connecting(d) /\ CallerReady(d)
    BY DEF NobodyWaitsInVain
  <2> USE DEF MoveInv, TunnelInv, TypeOK
  <2>1. \A g \in Gens : g <= gen => Answered(g)
    BY DEF Dialled, Answered
  <2>2. \A d \in Callers : Connecting(d) => CallerReady(d)
    BY <2>1 DEF Connecting, CallerReady, Owned, OptGen, Gens
  <2>3. call[c] = "open" => Answered(target[c])
    BY <2>1 DEF Targets, OptGen, Gens
  <2> QED
    BY <2>2, <2>3 DEF InFlight, Connecting, CallerReady, Held
<1> QED
  BY <1>1, MoveInit, MoveStep, PTL DEF Spec

(* As long as the tunnel claims to be alive the monitor of its current     *)
(* session is there to clear the claim, whatever became of the monitors of *)
(* earlier sessions, which read the same t.client.                         *)
THEOREM MonitorCorrect == Spec => []Monitored
<1>1. MoveInv => Monitored
  BY DEF MoveInv
<1> QED
  BY <1>1, MoveInit, MoveStep, PTL DEF Spec

=============================================================================
