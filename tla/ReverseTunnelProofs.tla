------------------------ MODULE ReverseTunnelProofs ------------------------
(***************************************************************************)
(* Theorems about ReverseTunnel, for any number of sessions, attempts,     *)
(* forwarded connections and any configuration: its types, its sessions,   *)
(* its mutex, its traffic, that it implements SerialSessions, and what Run *)
(* and Close leave behind when they have returned.                         *)
(***************************************************************************)
EXTENDS ReverseTunnel, FiniteSetTheorems, TLAPS

(* Every action keeps the tunnel's state well typed; in particular the     *)
(* queue of channels is never popped empty and no goroutine indexes a      *)
(* generation that was never dialled.                                      *)
LEMMA ZeroIsOptGen == 0 \in OptGen
BY BoundAssumption DEF BoundAssumption, OptGen

LEMMA ClosingTypes ==
    ASSUME TypeOK, ClosingStarts
    PROVE  locked' \in BOOLEAN /\ done' \in [Gens -> BOOLEAN]
BY DEF TypeOK, ClosingStarts

LEMMA EndingTypes ==
    ASSUME TypeOK, ClosingEnds
    PROVE  locked' \in BOOLEAN /\ forwarded' \in [Gens -> BOOLEAN]
BY DEF TypeOK, ClosingEnds

LEMMA TypeInit == Init => TypeOK
<1> SUFFICES ASSUME Init PROVE TypeOK
  OBVIOUS
<1> QED
  BY ZeroIsOptGen DEF Init, TypeOK

LEMMA TypeStart == TypeOK /\ Start => TypeOK'
<1> USE BoundAssumption, ConfigAssumption DEF BoundAssumption, ConfigAssumption, TypeOK, Gens, OptGen, Closers, shared, ssh, accept,
        keepers, handler, MainGoto
<1> SUFFICES ASSUME TypeOK, Start PROVE TypeOK'
  OBVIOUS
<1>1. CASE StartDial BY <1>1 DEF StartDial, TCPConnect
<1>2. CASE StartDialFails BY <1>2 DEF StartDialFails
<1>3. CASE StartHandshake BY <1>3 DEF StartHandshake, HandshakeOK
<1>4. CASE StartProbe BY <1>4 DEF StartProbe
<1>5. CASE StartProbed BY <1>5 DEF StartProbed
<1>6. CASE StartRegister BY <1>6 DEF StartRegister, Register
<1>7. CASE StartRegisterFails BY <1>7 DEF StartRegisterFails
<1>8. CASE StartListen BY <1>8 DEF StartListen, ForwardGranted
<1>9. CASE StartFails BY <1>9 DEF StartFails, Abandon
<1> QED
  BY <1>1, <1>2, <1>3, <1>4, <1>5, <1>6, <1>7, <1>8, <1>9 DEF Start

LEMMA TypeClose == ASSUME TypeOK, NEW p \in Closers, Close(p) PROVE TypeOK'
<1> USE ZeroIsOptGen DEF TypeOK, shared, ssh, start, accept, keepers, handler, CloseGoto
<1>1. CASE CloseTwice(p) BY <1>1 DEF CloseTwice
<1>2. CASE CloseFirst(p) BY <1>2 DEF CloseFirst
<1>3. CASE CloseListener(p)
  <2>1. CASE ClosingStarts
    BY <1>3, <2>1, ClosingTypes DEF CloseListener
  <2>2. CASE ~ClosingStarts
    BY <1>3, <2>2 DEF CloseListener
  <2> QED
    BY <2>1, <2>2
<1>4. CASE CloseListenerEnds(p) 
  BY <1>4, EndingTypes DEF CloseListenerEnds
<1>5. CASE CloseGrace(p) BY <1>5 DEF CloseGrace
<1>6. CASE CloseClient(p) BY <1>6 DEF CloseClient, DropClient
<1> QED
  BY <1>1, <1>2, <1>3, <1>4, <1>5, <1>6 DEF Close

LEMMA TypeWatcher == TypeOK /\ (WatcherFires \/ WatcherEnds) => TypeOK'
<1> SUFFICES ASSUME TypeOK, WatcherFires \/ WatcherEnds PROVE TypeOK'
  OBVIOUS
<1> USE DEF WatcherGoto, accept, keepers, handler
<1>1. CASE WatcherFires
  <2>1. CASE ClosingStarts
    <3>1. /\ watcher' \in {"off", "waiting", "closing", "exited"}
          /\ UNCHANGED <<main, cl, cancelled, client, listener, closed>>
          /\ UNCHANGED <<gen, conn, registered, forwarded, queue, accept, keepers, handler>>
      BY <1>1, <2>1 DEF WatcherFires, ClosingStarts, NothingToClose
    <3> QED
      BY <3>1, <2>1, ClosingTypes DEF TypeOK
  <2>2. CASE ~ClosingStarts
    <3>1. /\ watcher' = "exited"
          /\ UNCHANGED <<main, cl, shared, ssh, accept, keepers, handler>>
      BY <1>1, <2>2 DEF WatcherFires, shared, ssh
    <3> QED
      BY <3>1 DEF TypeOK, shared, ssh
  <2> QED
    BY <2>1, <2>2
<1>2. CASE WatcherEnds
  BY <1>2, EndingTypes DEF WatcherEnds, TypeOK
<1> QED
  BY <1>1, <1>2

LEMMA TypeKeeper == ASSUME TypeOK, NEW k \in Gens, Keeper(k) PROVE TypeOK'
<1> USE ZeroIsOptGen DEF TypeOK, shared, ssh, start, accept, keepers, handler, KeepGoto
<1>1. CASE KeepStops(k) BY <1>1 DEF KeepStops
<1>2. CASE KeepTick(k) BY <1>2 DEF KeepTick
<1>3. CASE KeepPing(k) BY <1>3 DEF KeepPing
<1>4. CASE KeepPong(k) BY <1>4 DEF KeepPong
<1>5. CASE KeepFails(k) BY <1>5 DEF KeepFails
<1>6. CASE KeepTearsDown(k)
  <2>1. CASE ClosingStarts
    BY <1>6, <2>1, ClosingTypes DEF KeepTearsDown
  <2>2. CASE ~ClosingStarts
    BY <1>6, <2>2 DEF KeepTearsDown
  <2> QED
    BY <2>1, <2>2
<1>7. CASE KeepEnds(k) BY <1>7, EndingTypes DEF KeepEnds
<1> QED
  BY <1>1, <1>2, <1>3, <1>4, <1>5, <1>6, <1>7 DEF Keeper

LEMMA TypeAcceptLoop == TypeOK /\ AcceptLoop => TypeOK'
<1> SUFFICES ASSUME TypeOK, AcceptLoop PROVE TypeOK'
  OBVIOUS
<1> USE ZeroIsOptGen DEF TypeOK, shared, ssh, start, accept, keepers, handler, AccGoto, AccExit
<1>1. CASE AccTop BY <1>1 DEF AccTop
<1>2. CASE AccConn
  <2>1. queue' \in [Gens -> Nat]
    <3> HIDE DEF TypeOK
    <3>1. /\ queue \in [Gens -> Nat]
          /\ queue[accL] > 0
          /\ queue' = [queue EXCEPT ![accL] = queue[accL] - 1]
      BY <1>2 DEF AccConn, TypeOK
    <3>2. accL \in Gens => queue[accL] - 1 \in Nat
      BY <3>1
    <3> QED
      BY <3>1, <3>2
  <2> QED
    BY <1>2, <2>1 DEF AccConn
<1>3. CASE AccFails BY <1>3 DEF AccFails
<1>4. CASE AccError
  <2>1. acc' \in {"exited", "teardown"} /\ cancelled' \in BOOLEAN
    BY <1>4 DEF AccError
  <2>2. /\ UNCHANGED <<locked, client, listener, closed, ssh>>
        /\ UNCHANGED <<start, accL, attempt, keepers, handler>>
    BY <1>4 DEF AccError
  <2> QED
    BY <2>1, <2>2
<1>5. CASE AccTeardown
  <2>1. CASE ClosingStarts
    <3>1. /\ acc' = "closing"
          /\ UNCHANGED <<cancelled, client, listener, closed, accL, attempt>>
          /\ UNCHANGED <<gen, conn, registered, forwarded, queue, start, keepers, handler>>
      <4> HIDE DEF TypeOK
      <4> QED
        BY <1>5, <2>1 DEF AccTeardown, NothingToClose, ClosingStarts
    <3> QED
      BY <3>1, <2>1, ClosingTypes
  <2>2. CASE ~ClosingStarts
    BY <1>5, <2>2 DEF AccTeardown, DropTunnel, DropClient
  <2> QED
    BY <2>1, <2>2
<1>6. CASE AccTeardownEnds 
  BY <1>6, EndingTypes DEF AccTeardownEnds, DropTunnel, DropClient
<1>7. CASE AccGivesUp BY <1>7 DEF AccGivesUp
<1>8. CASE AccDial
  <2>1. gen' \in OptGen
    BY <1>8, BoundAssumption DEF AccDial, TCPConnect, BoundAssumption, OptGen
  <2> QED
    BY <1>8, <2>1 DEF AccDial, TCPConnect
<1>9. CASE AccDialFails BY <1>9 DEF AccDialFails
<1>10. CASE AccHandshake BY <1>10 DEF AccHandshake, HandshakeOK
<1>11. CASE AccRegister BY <1>11 DEF AccRegister, Register
<1>12. CASE AccGranted BY <1>12 DEF AccGranted, ForwardGranted
<1>13. CASE AccRefused BY <1>13 DEF AccRefused, Abandon
<1>14. CASE AccInstall BY <1>14 DEF AccInstall
<1>15. CASE AccSleep BY <1>15 DEF AccSleep
<1> QED
  BY <1>1, <1>2, <1>3, <1>4, <1>5, <1>6, <1>7, <1>8, <1>9, <1>10, <1>11, <1>12, <1>13,
     <1>14, <1>15 DEF AcceptLoop

LEMMA TypeHandler == ASSUME TypeOK, NEW h \in Conns, Handler(h) PROVE TypeOK'
<1> USE ZeroIsOptGen DEF TypeOK, shared, ssh, start, accept, keepers, handler
<1> USE DEF HandlerGoto
<1>1. CASE HandlerDial(h) BY <1>1 DEF HandlerDial
<1>2. CASE HandlerStops(h) BY <1>2 DEF HandlerStops
<1>3. CASE HandlerEOF(h) BY <1>3 DEF HandlerEOF
<1>4. CASE HandlerEnds(h) BY <1>4 DEF HandlerEnds
<1> QED
  BY <1>1, <1>2, <1>3, <1>4 DEF Handler

LEMMA TypeGateway == ASSUME TypeOK, NEW g \in Gens, Gateway(g) PROVE TypeOK'
<1> USE ZeroIsOptGen DEF TypeOK, shared, ssh, start, accept, keepers, handler
<1> USE DEF GatewayOnly
<1>1. CASE GatewayOpens(g) BY <1>1 DEF GatewayOpens
<1>2. CASE GatewayHangs(g) BY <1>2 DEF GatewayHangs
<1>3. CASE ConnReset(g) BY <1>3 DEF ConnReset
<1>4. CASE ConnTimesOut(g) BY <1>4 DEF ConnTimesOut
<1> QED
  BY <1>1, <1>2, <1>3, <1>4 DEF Gateway

LEMMA TypeStutter == TypeOK /\ UNCHANGED vars => TypeOK'
BY DEF TypeOK, vars, shared, ssh, start, accept, keepers, handler

LEMMA TypeStep == TypeOK /\ [Next]_vars => TypeOK'
<1> SUFFICES ASSUME TypeOK, Next PROVE TypeOK'
  BY TypeStutter
<1> USE DEF TypeOK, shared, ssh, start, accept, keepers, handler
<1>1. CASE RunWaited BY <1>1 DEF RunWaited
<1>2. CASE OutsideCall BY <1>2 DEF OutsideCall
<1>3. CASE Interrupt BY <1>3 DEF Interrupt
<1>4. CASE Terminated BY <1>4, TypeStutter DEF Terminated
<1> HIDE DEF TypeOK
<1> QED
  BY <1>1, <1>2, <1>3, <1>4, TypeStart, TypeClose, TypeWatcher, TypeKeeper, TypeAcceptLoop,
     TypeHandler, TypeGateway DEF Next

(* The state of the tunnel is always well typed: no generation is indexed  *)
(* that was never dialled, and no channel is taken from an empty queue.    *)
THEOREM TypeCorrect == Spec => []TypeOK
BY TypeInit, TypeStep, PTL DEF Spec

----------------------------------------------------------------------------
(* Why there is never a second SSH session: a live session is the newest   *)
(* one, and it is rt.client or is being set up by Start or reconnect; and  *)
(* whoever is about to dial has dropped rt.client, and with it the only    *)
(* session there was.                                                      *)
Dialling == {"handshake", "register", "request", "install"}

SessionOwned ==
    \A g \in Gens : Alive(g) =>
        /\ g = gen
        /\ client = g \/ main = "handshake" \/ acc \in Dialling
NilWhileDialling ==
    /\ main \in {"dial", "handshake"} => client = 0
    /\ acc \in Dialling \cup {"retry", "sleep"} => client = 0
StartFirst == main \notin {"wait", "close"} => acc = "off"

SessionInv == TypeOK /\ SessionOwned /\ NilWhileDialling /\ StartFirst

SessionParts == SessionOwned /\ NilWhileDialling /\ StartFirst

LEMMA SessionInit == Init => SessionParts
BY DEF Init, SessionParts, SessionOwned, NilWhileDialling, StartFirst, Dialling, Alive, Gens

LEMMA SessionStart == SessionInv /\ Start => SessionParts'
<1> SUFFICES ASSUME SessionInv, Start PROVE SessionParts'
  OBVIOUS
<1> USE DEF SessionInv, SessionOwned, NilWhileDialling, StartFirst, Dialling, Alive, Gens,
        shared, ssh, start, accept, keepers, handler, MainGoto, SessionParts
<1>1. CASE StartDial BY <1>1 DEF StartDial, TCPConnect, TypeOK
<1>2. CASE StartDialFails BY <1>2 DEF StartDialFails
<1>3. CASE StartHandshake BY <1>3 DEF StartHandshake, HandshakeOK
<1>4. CASE StartProbe BY <1>4 DEF StartProbe
<1>5. CASE StartProbed BY <1>5 DEF StartProbed
<1>6. CASE StartRegister BY <1>6 DEF StartRegister, Register
<1>7. CASE StartRegisterFails BY <1>7 DEF StartRegisterFails
<1>8. CASE StartListen BY <1>8 DEF StartListen, ForwardGranted
<1>9. CASE StartFails BY <1>9 DEF StartFails, Abandon, TypeOK
<1> QED
  BY <1>1, <1>2, <1>3, <1>4, <1>5, <1>6, <1>7, <1>8, <1>9 DEF Start

(* Steps that leave the sessions, rt.client and the two program counters   *)
(* that dial as they are.                                                  *)
LEMMA SessionKept ==
    ASSUME SessionInv, UNCHANGED <<client, gen, conn, acc>>,
           main' = main \/ (main = "wait" /\ main' = "close")
    PROVE  SessionParts'
<1> USE DEF SessionInv, SessionOwned, NilWhileDialling, StartFirst, Dialling, Alive, Gens,
        shared, ssh, start, accept, keepers, handler, SessionParts
<1> QED
  OBVIOUS

LEMMA SessionClose == ASSUME SessionInv, NEW p \in Closers, Close(p) PROVE SessionParts'
<1>1. CASE CloseClient(p)
  BY <1>1 DEF CloseClient, CloseGoto, DropClient, SessionParts, SessionInv, SessionOwned,
        NilWhileDialling, StartFirst, Dialling, Alive, Gens, TypeOK, accept
<1>2. CASE ~CloseClient(p)
  <2>1. UNCHANGED <<client, gen, conn, acc, main>>
    BY <1>2 DEF Close, CloseTwice, CloseFirst, CloseListener, CloseListenerEnds, CloseGrace,
          CloseGoto, ClosingStarts, NothingToClose, ClosingEnds, shared, ssh, accept
  <2> QED
    BY <2>1, SessionKept
<1> QED
  BY <1>1, <1>2

LEMMA SessionAcceptLoop == SessionInv /\ AcceptLoop => SessionParts'
<1> SUFFICES ASSUME SessionInv, AcceptLoop PROVE SessionParts'
  OBVIOUS
<1> USE DEF SessionInv, SessionOwned, NilWhileDialling, StartFirst, Dialling, Alive, Gens,
        shared, ssh, start, accept, keepers, handler, AccGoto, AccExit, SessionParts
<1>1. CASE AccTop BY <1>1 DEF AccTop
<1>2. CASE AccConn BY <1>2 DEF AccConn
<1>3. CASE AccFails BY <1>3 DEF AccFails
<1>4. CASE AccError BY <1>4 DEF AccError
<1>5. CASE AccTeardown
  <2>1. CASE acc' = "closing"
    BY <1>5, <2>1 DEF AccTeardown, DropTunnel
  <2>2. CASE acc' # "closing"
    <3>1. acc = "teardown" /\ DropTunnel
      BY <1>5, <2>2 DEF AccTeardown
    <3> QED
      BY <3>1 DEF DropTunnel, DropClient, TypeOK
  <2> QED
    BY <2>1, <2>2
<1>6. CASE AccTeardownEnds BY <1>6 DEF AccTeardownEnds, DropTunnel, DropClient, TypeOK
<1>7. CASE AccGivesUp BY <1>7 DEF AccGivesUp
<1>8. CASE AccDial BY <1>8 DEF AccDial, TCPConnect, TypeOK
<1>9. CASE AccDialFails BY <1>9 DEF AccDialFails
<1>10. CASE AccHandshake BY <1>10 DEF AccHandshake, HandshakeOK
<1>11. CASE AccRegister BY <1>11 DEF AccRegister, Register
<1>12. CASE AccGranted BY <1>12 DEF AccGranted, ForwardGranted
<1>13. CASE AccRefused BY <1>13 DEF AccRefused, Abandon, TypeOK
<1>14. CASE AccInstall BY <1>14 DEF AccInstall
<1>15. CASE AccSleep BY <1>15 DEF AccSleep
<1> QED
  BY <1>1, <1>2, <1>3, <1>4, <1>5, <1>6, <1>7, <1>8, <1>9, <1>10, <1>11, <1>12, <1>13,
     <1>14, <1>15 DEF AcceptLoop

LEMMA SessionGateway == ASSUME SessionInv, NEW g \in Gens, Gateway(g) PROVE SessionParts'
<1> USE DEF SessionInv, SessionOwned, NilWhileDialling, StartFirst, Dialling, Alive, Gens,
        shared, ssh, start, accept, keepers, handler, SessionParts, GatewayOnly, TypeOK
<1>1. CASE GatewayOpens(g) BY <1>1 DEF GatewayOpens
<1>2. CASE GatewayHangs(g) BY <1>2 DEF GatewayHangs
<1>3. CASE ConnReset(g) BY <1>3 DEF ConnReset
<1>4. CASE ConnTimesOut(g) BY <1>4 DEF ConnTimesOut
<1> QED
  BY <1>1, <1>2, <1>3, <1>4 DEF Gateway

LEMMA SessionOthers ==
    ASSUME SessionInv,
           \/ WatcherFires \/ WatcherEnds \/ RunWaited \/ OutsideCall \/ Interrupt
           \/ \E k \in Gens : Keeper(k)
           \/ \E h \in Conns : Handler(h)
           \/ UNCHANGED vars
    PROVE  SessionParts'
<1> USE DEF vars, shared, ssh, start, accept, keepers, handler
<1>1. CASE WatcherFires \/ WatcherEnds
  BY <1>1, SessionKept DEF WatcherFires, WatcherEnds, WatcherGoto
<1>2. CASE RunWaited \/ OutsideCall \/ Interrupt
  BY <1>2, SessionKept DEF RunWaited, OutsideCall, Interrupt
<1>3. ASSUME NEW k \in Gens, Keeper(k) PROVE SessionParts'
  BY <1>3, SessionKept DEF Keeper, KeepGoto, KeepStops, KeepTick, KeepPing, KeepPong,
        KeepFails, KeepTearsDown, KeepEnds
<1>4. ASSUME NEW h \in Conns, Handler(h) PROVE SessionParts'
  BY <1>4, SessionKept DEF Handler, HandlerGoto, HandlerDial, HandlerStops, HandlerEOF,
        HandlerEnds
<1>5. CASE UNCHANGED vars
  BY <1>5, SessionKept
<1> QED
  BY <1>1, <1>2, <1>3, <1>4, <1>5

LEMMA SessionInvInit == Init => SessionInv
BY TypeInit, SessionInit DEF SessionInv, SessionParts

LEMMA SessionInvStep == SessionInv /\ [Next]_vars => SessionInv'
<1> SUFFICES ASSUME SessionInv, [Next]_vars, TypeOK' PROVE SessionParts'
  BY TypeStep DEF SessionInv, SessionParts
<1> QED
  BY SessionStart, SessionClose, SessionAcceptLoop, SessionGateway, SessionOthers
  DEF Next, Terminated

(* However often the tunnel reconnects, and whoever calls Close meanwhile, *)
(* it never holds two live SSH sessions.                                   *)
THEOREM SessionSafety == Spec => []OneSession
<1>1. SessionInv => OneSession
  <2> SUFFICES ASSUME SessionInv PROVE OneSession
    OBVIOUS
  <2>1. {g \in Gens : Alive(g)} \subseteq {gen}
    BY DEF SessionInv, SessionOwned
  <2> QED
    <3>1. IsFiniteSet({gen}) /\ Cardinality({gen}) = 1
      BY FS_Singleton
    <3>2. Cardinality({g \in Gens : Alive(g)}) <= Cardinality({gen})
      BY <2>1, <3>1, FS_Subset
    <3> QED
      BY <3>1, <3>2 DEF OneSession
<1> QED
  BY <1>1, SessionInvInit, SessionInvStep, PTL DEF Spec

----------------------------------------------------------------------------
(* rt.mu.  The mutex has no owner in the model, nor in Go: that it is held *)
(* by exactly the goroutine that closes the listener is a fact about all   *)
(* the paths through the four critical sections.                           *)

(* A step that neither enters nor leaves a critical section, and touches   *)
(* the listener only while nobody is in one.                               *)
Outside ==
    /\ locked' = locked
    /\ locked => UNCHANGED <<listener, done>>
    /\ \A p \in Closers : (cl'[p] = "closing") <=> (cl[p] = "closing")
    /\ \A k \in Gens : (keep'[k] = "closing") <=> (keep[k] = "closing")
    /\ (watcher' = "closing") <=> (watcher = "closing")
    /\ (acc' = "closing") <=> (acc = "closing")

LEMMA OutsideKeeps == MutexDiscipline /\ Outside => MutexDiscipline'
<1> SUFFICES ASSUME MutexDiscipline, Outside PROVE MutexDiscipline'
  OBVIOUS
<1>1. {q \in Closers : cl'[q] = "closing"} = {q \in Closers : cl[q] = "closing"}
  BY DEF Outside
<1>2. {k \in Gens : keep'[k] = "closing"} = {k \in Gens : keep[k] = "closing"}
  BY DEF Outside
<1>3. InCritical' = InCritical
  BY <1>1, <1>2 DEF InCritical, Outside
<1> QED
  BY <1>3 DEF MutexDiscipline, Outside

LEMMA EnteringKeeps ==
    ASSUME MutexDiscipline, TypeOK, ClosingStarts, UNCHANGED listener,
           NEW x, InCritical' = InCritical \cup {x}
    PROVE  MutexDiscipline'
<1>1. listener \in Gens
  BY DEF ClosingStarts, TypeOK, OptGen, Gens
<1>2. InCritical = {}
  BY DEF MutexDiscipline, ClosingStarts
<1> QED
  BY <1>1, <1>2 DEF MutexDiscipline, ClosingStarts, TypeOK

LEMMA LeavingKeeps ==
    ASSUME MutexDiscipline, ClosingEnds,
           NEW x \in InCritical, InCritical' = InCritical \ {x}
    PROVE  MutexDiscipline'
<1>1. InCritical' = {}
  BY DEF MutexDiscipline
<1> QED
  BY <1>1 DEF MutexDiscipline, ClosingEnds

(* Nobody is in a critical section of rt.mu while it is free.              *)
Free ==
    /\ \A p \in Closers : cl[p] # "closing"
    /\ \A k \in Gens : keep[k] # "closing"
    /\ watcher # "closing" /\ acc # "closing"

LEMMA CriticalMembers ==
    /\ \A p \in Closers : cl[p] = "closing" <=> <<"close", p>> \in InCritical
    /\ \A k \in Gens : keep[k] = "closing" <=> <<"keepalive", k>> \in InCritical
    /\ watcher = "closing" <=> <<"watcher", 0>> \in InCritical
    /\ acc = "closing" <=> <<"acceptLoop", 0>> \in InCritical
BY DEF InCritical

LEMMA UnlockedIsFree == MutexDiscipline /\ ~locked => Free
BY CriticalMembers DEF MutexDiscipline, Free

LEMMA LockStart == TypeOK /\ MutexDiscipline /\ Start => Outside
<1> SUFFICES ASSUME TypeOK, MutexDiscipline, Start PROVE Outside
  OBVIOUS
<1>1. CASE StartListen
  BY <1>1, UnlockedIsFree DEF StartListen, ForwardGranted, Outside, Free, TypeOK, handler
<1>2. CASE ~StartListen
  BY <1>2 DEF Start, StartDial, StartDialFails, StartHandshake, StartProbe, StartProbed,
        StartRegister, StartRegisterFails, StartFails, TCPConnect, HandshakeOK, Register, Abandon,
        MainGoto, Outside, shared, ssh, accept, keepers
<1> QED
  BY <1>1, <1>2

LEMMA LockClose ==
    ASSUME TypeOK, MutexDiscipline, NEW p \in Closers, Close(p)
    PROVE  MutexDiscipline'
<1>1. CASE CloseListener(p) /\ ClosingStarts
  <2>1. /\ cl' = [cl EXCEPT ![p] = "closing"]
        /\ UNCHANGED <<keep, watcher, acc, listener>>
    BY <1>1 DEF CloseListener, CloseGoto, ClosingStarts, NothingToClose, keepers, accept
  <2>2. InCritical' = InCritical \cup {<<"close", p>>}
    <3>1. {q \in Closers : cl'[q] = "closing"} = {q \in Closers : cl[q] = "closing"} \cup {p}
      BY <2>1 DEF TypeOK
    <3> QED
      BY <2>1, <3>1 DEF InCritical
  <2> QED
    BY <1>1, <2>1, <2>2, EnteringKeeps
<1>2. CASE CloseListenerEnds(p)
  <2>1. /\ cl[p] = "closing" /\ cl' = [cl EXCEPT ![p] = "grace"]
        /\ UNCHANGED <<keep, watcher, acc>>
    BY <1>2 DEF CloseListenerEnds, CloseGoto, keepers, accept
  <2>2. InCritical' = InCritical \ {<<"close", p>>}
    <3>1. {q \in Closers : cl'[q] = "closing"} = {q \in Closers : cl[q] = "closing"} \ {p}
      BY <2>1 DEF TypeOK
    <3> QED
      BY <2>1, <3>1 DEF InCritical
  <2> QED
    BY <1>2, <2>1, <2>2, LeavingKeeps, CriticalMembers DEF CloseListenerEnds
<1>3. CASE ~CloseListenerEnds(p) /\ ~(CloseListener(p) /\ ClosingStarts)
  <2>1. Outside
    BY <1>3 DEF Close, CloseTwice, CloseFirst, CloseListener, CloseGrace, CloseClient, CloseGoto,
          NothingToClose, Outside, TypeOK, shared, ssh, keepers, accept
  <2> QED
    BY <2>1, OutsideKeeps
<1> QED
  BY <1>1, <1>2, <1>3

LEMMA LockWatcher ==
    ASSUME TypeOK, MutexDiscipline, WatcherFires \/ WatcherEnds
    PROVE  MutexDiscipline'
<1>1. CASE WatcherFires /\ ClosingStarts
  <2>1. watcher' = "closing" /\ UNCHANGED <<cl, keep, acc, listener>>
    BY <1>1 DEF WatcherFires, WatcherGoto, ClosingStarts, NothingToClose, keepers, accept
  <2>2. InCritical' = InCritical \cup {<<"watcher", 0>>}
    BY <2>1 DEF InCritical
  <2> QED
    BY <1>1, <2>1, <2>2, EnteringKeeps
<1>2. CASE WatcherEnds
  <2>1. watcher = "closing" /\ watcher' = "exited" /\ UNCHANGED <<cl, keep, acc>>
    BY <1>2 DEF WatcherEnds, WatcherGoto, keepers, accept
  <2>2. InCritical' = InCritical \ {<<"watcher", 0>>}
    BY <2>1 DEF InCritical
  <2> QED
    BY <1>2, <2>1, <2>2, LeavingKeeps, CriticalMembers DEF WatcherEnds
<1>3. CASE ~WatcherEnds /\ ~(WatcherFires /\ ClosingStarts)
  <2>1. Outside
    BY <1>3 DEF WatcherFires, WatcherGoto, NothingToClose, Outside, keepers, accept
  <2> QED
    BY <2>1, OutsideKeeps
<1> QED
  BY <1>1, <1>2, <1>3

LEMMA LockKeeper ==
    ASSUME TypeOK, MutexDiscipline, NEW k \in Gens, Keeper(k)
    PROVE  MutexDiscipline'
<1>1. CASE KeepTearsDown(k) /\ ClosingStarts
  <2>1. /\ keep' = [keep EXCEPT ![k] = "closing"]
        /\ UNCHANGED <<cl, watcher, acc, listener>>
    BY <1>1 DEF KeepTearsDown, KeepGoto, ClosingStarts, NothingToClose, start, accept
  <2>2. InCritical' = InCritical \cup {<<"keepalive", k>>}
    <3>1. {j \in Gens : keep'[j] = "closing"} = {j \in Gens : keep[j] = "closing"} \cup {k}
      BY <2>1 DEF TypeOK
    <3> QED
      BY <2>1, <3>1 DEF InCritical
  <2> QED
    BY <1>1, <2>1, <2>2, EnteringKeeps
<1>2. CASE KeepEnds(k)
  <2>1. /\ keep[k] = "closing" /\ keep' = [keep EXCEPT ![k] = "exited"]
        /\ UNCHANGED <<cl, watcher, acc>>
    BY <1>2 DEF KeepEnds, KeepGoto, start, accept
  <2>2. InCritical' = InCritical \ {<<"keepalive", k>>}
    <3>1. {j \in Gens : keep'[j] = "closing"} = {j \in Gens : keep[j] = "closing"} \ {k}
      BY <2>1 DEF TypeOK
    <3> QED
      BY <2>1, <3>1 DEF InCritical
  <2> QED
    BY <1>2, <2>1, <2>2, LeavingKeeps, CriticalMembers DEF KeepEnds
<1>3. CASE ~KeepEnds(k) /\ ~(KeepTearsDown(k) /\ ClosingStarts)
  <2>1. Outside
    BY <1>3 DEF Keeper, KeepStops, KeepTick, KeepPing, KeepPong, KeepFails, KeepTearsDown,
          KeepGoto, NothingToClose, Outside, TypeOK, shared, ssh, start, accept
  <2> QED
    BY <2>1, OutsideKeeps
<1> QED
  BY <1>1, <1>2, <1>3

LEMMA LockAcceptLoop ==
    ASSUME TypeOK, MutexDiscipline, AcceptLoop
    PROVE  MutexDiscipline'
<1>1. CASE AccTeardown /\ ClosingStarts
  <2>1. acc' = "closing" /\ UNCHANGED <<cl, keep, watcher, listener>>
    BY <1>1 DEF AccTeardown, AccGoto, ClosingStarts, NothingToClose, start, keepers
  <2>2. InCritical' = InCritical \cup {<<"acceptLoop", 0>>}
    BY <2>1 DEF InCritical
  <2> QED
    BY <1>1, <2>1, <2>2, EnteringKeeps
<1>2. CASE AccTeardownEnds
  <2>1. acc = "closing" /\ acc' = "retry" /\ UNCHANGED <<cl, keep, watcher>>
    BY <1>2 DEF AccTeardownEnds, DropTunnel, AccGoto, start, keepers
  <2>2. InCritical' = InCritical \ {<<"acceptLoop", 0>>}
    BY <2>1 DEF InCritical
  <2> QED
    BY <1>2, <2>1, <2>2, LeavingKeeps, CriticalMembers DEF AccTeardownEnds
<1>3. CASE AccInstall
  <2>1. Outside
    BY <1>3, UnlockedIsFree DEF AccInstall, AccGoto, Outside, Free, TypeOK, start, ssh
  <2> QED
    BY <2>1, OutsideKeeps
<1>4. CASE AccTeardown /\ ~ClosingStarts
  <2>1. Outside
    BY <1>4 DEF AccTeardown, NothingToClose, DropTunnel, AccGoto, Outside, start, keepers
  <2> QED
    BY <2>1, OutsideKeeps
<1>5. CASE ~AccInstall /\ ~AccTeardown /\ ~AccTeardownEnds
  <2>1. /\ UNCHANGED <<locked, listener, done, cl, keep, watcher>>
        /\ acc # "closing" /\ acc' # "closing"
    BY <1>5 DEF AcceptLoop, AccTop, AccConn, AccFails, AccError, AccGivesUp, AccDial,
          AccDialFails, AccHandshake, AccRegister, AccGranted, AccRefused, AccSleep, AccGoto,
          AccExit, TCPConnect, HandshakeOK, Register, ForwardGranted, Abandon, shared, ssh,
          start, keepers
  <2> QED
    BY <2>1, OutsideKeeps DEF Outside
<1> QED
  BY <1>1, <1>2, <1>3, <1>4, <1>5

(* The deferred Close of Run has not begun while Run waits.                *)
RunCloses == cl["main"] # "idle" => main = "close"

LockInv == TypeOK /\ RunCloses /\ MutexDiscipline

LEMMA RunClosesStep == ASSUME TypeOK, RunCloses, [Next]_vars PROVE RunCloses'
<1> USE DEF RunCloses
<1>1. CASE Start
  <2>1. main # "close" /\ cl' = cl
    BY <1>1 DEF Start, StartDial, StartDialFails, StartHandshake, StartProbe, StartProbed,
          StartRegister, StartRegisterFails, StartListen, StartFails, MainGoto
  <2> QED
    BY <2>1
<1>2. CASE RunWaited
  BY <1>2 DEF RunWaited
<1>3. CASE OutsideCall
  BY <1>3 DEF OutsideCall, TypeOK
<1>4. ASSUME NEW p \in Closers, Close(p) PROVE RunCloses'
  <2>1. cl[p] # "idle" /\ main' = main
    BY <1>4 DEF Close, CloseTwice, CloseFirst, CloseListener, CloseListenerEnds, CloseGrace,
          CloseClient, CloseGoto
  <2>2. \A q \in Closers : q # p => cl'[q] = cl[q]
    BY <1>4 DEF Close, CloseTwice, CloseFirst, CloseListener, CloseListenerEnds, CloseGrace,
          CloseClient, CloseGoto, TypeOK
  <2> QED
    BY <2>1, <2>2 DEF Closers
<1>5. CASE AcceptLoop
  BY <1>5 DEF AcceptLoop, AccTop, AccConn, AccFails, AccError, AccTeardown, AccTeardownEnds,
        AccGivesUp, AccDial, AccDialFails, AccHandshake, AccRegister, AccGranted, AccRefused,
        AccInstall, AccSleep, AccGoto, AccExit, DropTunnel, start
<1>6. CASE WatcherFires \/ WatcherEnds \/ Interrupt
  BY <1>6 DEF WatcherFires, WatcherEnds, WatcherGoto, Interrupt, start
<1>7. ASSUME NEW k \in Gens, Keeper(k) PROVE RunCloses'
  BY <1>7 DEF Keeper, KeepStops, KeepTick, KeepPing, KeepPong, KeepFails, KeepTearsDown,
        KeepEnds, KeepGoto, start
<1>8. ASSUME NEW h \in Conns, Handler(h) PROVE RunCloses'
  BY <1>8 DEF Handler, HandlerDial, HandlerStops, HandlerEOF, HandlerEnds, HandlerGoto, start
<1>9. ASSUME NEW g \in Gens, Gateway(g) PROVE RunCloses'
  BY <1>9 DEF Gateway, GatewayOpens, GatewayHangs, ConnReset, ConnTimesOut, GatewayOnly, start
<1>10. CASE UNCHANGED vars
  BY <1>10 DEF vars, start
<1> QED
  BY <1>1, <1>2, <1>3, <1>4, <1>5, <1>6, <1>7, <1>8, <1>9, <1>10 DEF Next, Terminated

LEMMA LockOthers ==
    ASSUME LockInv,
           \/ RunWaited \/ OutsideCall \/ Interrupt
           \/ \E h \in Conns : Handler(h)
           \/ \E g \in Gens : Gateway(g)
           \/ UNCHANGED vars
    PROVE  MutexDiscipline'
<1>1. CASE RunWaited \/ OutsideCall
  <2>1. Outside
    BY <1>1 DEF RunWaited, OutsideCall, LockInv, RunCloses, TypeOK, Outside, shared, ssh, accept,
          keepers
  <2> QED
    BY <2>1, OutsideKeeps DEF LockInv
<1>2. CASE ~(RunWaited \/ OutsideCall)
  <2>1. UNCHANGED <<locked, listener, done, cl, keep, watcher, acc>>
    BY <1>2 DEF Interrupt, Handler, HandlerDial, HandlerStops, HandlerEOF, HandlerEnds,
          HandlerGoto, Gateway, GatewayOpens, GatewayHangs, ConnReset, ConnTimesOut, GatewayOnly,
          vars, shared, ssh, start, accept, keepers
  <2> QED
    BY <2>1, OutsideKeeps DEF Outside, LockInv
<1> QED
  BY <1>1, <1>2

LEMMA LockInit == Init => LockInv
<1> SUFFICES ASSUME Init PROVE LockInv
  OBVIOUS
<1>1. InCritical = {}
  BY DEF Init, InCritical
<1> QED
  BY <1>1, TypeInit DEF LockInv, MutexDiscipline, RunCloses, Init, Closers

LEMMA LockStep == LockInv /\ [Next]_vars => LockInv'
<1> SUFFICES ASSUME LockInv, [Next]_vars PROVE LockInv'
  OBVIOUS
<1>1. TypeOK' /\ RunCloses'
  BY TypeStep, RunClosesStep DEF LockInv
<1>2. MutexDiscipline'
  BY LockStart, OutsideKeeps, LockClose, LockWatcher, LockKeeper, LockAcceptLoop, LockOthers
  DEF Next, LockInv, Terminated
<1> QED
  BY <1>1, <1>2 DEF LockInv

(* rt.mu is held exactly while one goroutine closes the listener, which is *)
(* there and closed: every path of the four critical sections that wait    *)
(* for the gateway unlocks, once, whoever else wants the mutex meanwhile.  *)
THEOREM MutexCorrect == Spec => []MutexDiscipline
<1>1. LockInv => MutexDiscipline
  BY DEF LockInv
<1> QED
  BY <1>1, LockInit, LockStep, PTL DEF Spec

----------------------------------------------------------------------------
(* rt.listener and the traffic.  Whoever dials has no listener, so a new   *)
(* one never replaces another; and what a handler serves was accepted from *)
(* a listener that was rt.listener, hence older than a session that is     *)
(* still being set up.                                                     *)
Bare ==
    /\ main \notin {"wait", "close"} => listener = 0
    /\ acc \in Dialling \cup {"retry", "sleep"} => listener = 0

(* Sessions are numbered in the order they are dialled.                    *)
Known ==
    /\ listener <= gen /\ accL <= gen
    /\ acc = "accept" => accL # 0
    /\ \A h \in Live : hgen[h] # 0 /\ hgen[h] <= gen
OldTraffic ==
    /\ main \notin {"wait", "close"} => Live = {}
    /\ acc \in Dialling => \A h \in Live : hgen[h] # gen

TrafficParts == Bare /\ Known /\ OldTraffic
TrafficInv == SessionInv /\ LockInv /\ TrafficParts

(* A step that at most takes rt.listener away and ends handlers.           *)
LEMMA TrafficKept ==
    ASSUME TrafficInv, UNCHANGED <<gen, accL, acc, hgen>>,
           main' = main \/ (main = "wait" /\ main' = "close"),
           listener' \in {listener, 0}, Live' \subseteq Live
    PROVE  TrafficParts'
<1>1. Bare'
  BY DEF TrafficInv, TrafficParts, Bare
<1>2. Known'
  <2>1. listener' <= gen'
    BY DEF TrafficInv, TrafficParts, Known, LockInv, TypeOK, OptGen
  <2> QED
    BY <2>1 DEF TrafficInv, TrafficParts, Known
<1>3. OldTraffic'
  BY DEF TrafficInv, TrafficParts, OldTraffic
<1> QED
  BY <1>1, <1>2, <1>3 DEF TrafficParts

LEMMA TrafficStart == ASSUME TrafficInv, Start PROVE TrafficParts'
<1> USE DEF TrafficInv, TrafficParts
<1>1. /\ UNCHANGED <<accL, hs, hgen, cl>>
      /\ main \notin {"wait", "close"} /\ main' # "close"
  BY DEF Start, StartDial, StartDialFails, StartHandshake, StartProbe, StartProbed,
        StartRegister, StartRegisterFails, StartListen, StartFails, MainGoto, accept, handler
<1>2. Live = {} /\ Live' = {} /\ listener = 0 /\ acc = "off"
  BY <1>1 DEF OldTraffic, Bare, SessionInv, StartFirst, Live
<1>3. CASE StartListen
  <2>1. main' = "wait" /\ acc' = "top" /\ listener' = gen /\ gen' = gen
    BY <1>3 DEF StartListen, ForwardGranted
  <2> QED
    BY <1>1, <1>2, <2>1 DEF Bare, Known, OldTraffic, Dialling, LockInv, TypeOK, OptGen
<1>4. CASE ~StartListen
  <2>1. /\ UNCHANGED <<listener, acc>>
        /\ main' \notin {"wait", "close"}
    BY <1>4 DEF Start, StartDial, StartDialFails, StartHandshake, StartProbe, StartProbed,
          StartRegister, StartRegisterFails, StartFails, MainGoto, accept, shared
  <2>2. gen' \in {gen, gen + 1}
    BY <1>4 DEF Start, StartDial, StartDialFails, StartHandshake, StartProbe, StartProbed,
          StartRegister, StartRegisterFails, StartFails, TCPConnect, HandshakeOK, Register,
          Abandon, ssh
  <2>3. Known'
    BY <1>1, <1>2, <2>1, <2>2 DEF Known, LockInv, TypeOK, OptGen
  <2> QED
    BY <1>1, <1>2, <2>1, <2>3 DEF Bare, OldTraffic, Dialling
<1> QED
  BY <1>3, <1>4

LEMMA TrafficClose == ASSUME TrafficInv, NEW p \in Closers, Close(p) PROVE TrafficParts'
<1>1. /\ UNCHANGED <<gen, accL, acc, hs, hgen, main>>
      /\ listener' \in {listener, 0}
  BY DEF Close, CloseTwice, CloseFirst, CloseListener, CloseListenerEnds, CloseGrace,
        CloseClient, CloseGoto, shared, ssh, accept, handler
<1> QED
  BY <1>1, TrafficKept DEF Live

LEMMA TrafficAcceptLoop == ASSUME TrafficInv, AcceptLoop PROVE TrafficParts'
<1> USE DEF TrafficInv, TrafficParts
<1>1. UNCHANGED main
  BY DEF AcceptLoop, AccTop, AccConn, AccFails, AccError, AccTeardown, AccTeardownEnds,
        AccGivesUp, AccDial, AccDialFails, AccHandshake, AccRegister, AccGranted, AccRefused,
        AccInstall, AccSleep, AccGoto, AccExit, DropTunnel, start
<1>2. acc # "off" /\ main \in {"wait", "close"}
  <2>1. acc # "off"
    BY DEF AcceptLoop, AccTop, AccConn, AccFails, AccError, AccTeardown, AccTeardownEnds,
          AccGivesUp, AccDial, AccDialFails, AccHandshake, AccRegister, AccGranted, AccRefused,
          AccInstall, AccSleep, AccGoto, AccExit
  <2> QED
    BY <2>1 DEF SessionInv, StartFirst
<1>3. /\ client \in OptGen /\ listener \in Int /\ accL \in Int /\ gen \in Nat
      /\ hs \in [Conns -> {"off", "dial", "bridge", "closing"}] /\ hgen \in [Conns -> OptGen]
  BY DEF LockInv, TypeOK, OptGen
<1>4. CASE AccTop
  BY <1>1, <1>2, <1>3, <1>4 DEF AccTop, AccGoto, AccExit, Bare, Known, OldTraffic, Dialling, Live,
        shared, ssh, handler
<1>5. CASE AccConn
  BY <1>1, <1>2, <1>3, <1>5 DEF AccConn, AccGoto, Bare, Known, OldTraffic, Dialling, Live, shared
<1>6. CASE AccDial
  <2>1. /\ gen' = gen + 1 /\ acc = "retry" /\ acc' = "handshake"
        /\ UNCHANGED <<listener, accL, hs, hgen>>
    BY <1>6 DEF AccDial, AccGoto, TCPConnect, shared, handler
  <2>2. Live' = Live /\ \A h \in Live : hgen[h] \in Int
    BY <1>3, <2>1 DEF Live, OptGen
  <2> QED
    BY <1>1, <1>2, <1>3, <2>1, <2>2 DEF Bare, Known, OldTraffic, Dialling
<1>7. CASE AccInstall
  BY <1>1, <1>2, <1>3, <1>7 DEF AccInstall, AccGoto, Bare, Known, OldTraffic, Dialling, Live, ssh,
        handler
<1>8. CASE AccTeardown \/ AccTeardownEnds
  <2>1. /\ UNCHANGED <<gen, accL, hs, hgen>>
        /\ (acc' = "closing" /\ listener' = listener) \/ (acc' = "retry" /\ listener' = 0)
    BY <1>8 DEF AccTeardown, AccTeardownEnds, DropTunnel, AccGoto, handler
  <2> QED
    BY <1>1, <1>2, <1>3, <2>1 DEF Bare, Known, OldTraffic, Dialling, Live
<1>9. CASE AccFails \/ AccError \/ AccGivesUp
  <2>1. UNCHANGED <<listener, gen, accL, hs, hgen>> /\ acc' \in {"error", "exited", "teardown"}
    BY <1>9 DEF AccFails, AccError, AccGivesUp, AccGoto, AccExit, shared, ssh, handler
  <2> QED
    BY <1>1, <1>2, <1>3, <2>1 DEF Bare, Known, OldTraffic, Dialling, Live
<1>10. CASE AccDialFails \/ AccHandshake \/ AccRegister \/ AccGranted \/ AccRefused \/ AccSleep
  <2>1. /\ UNCHANGED <<listener, gen, accL, hs, hgen>>
        /\ acc \in Dialling \cup {"retry", "sleep"} /\ acc' # "accept"
        /\ acc' \in Dialling => acc \in Dialling
    BY <1>10 DEF AccDialFails, AccHandshake, AccRegister, AccGranted, AccRefused, AccSleep,
          AccGoto, HandshakeOK, Register, ForwardGranted, Abandon, shared, ssh, handler, Dialling
  <2> QED
    BY <1>1, <1>2, <1>3, <2>1 DEF Bare, Known, OldTraffic, Dialling, Live
<1> QED
  BY <1>4, <1>5, <1>6, <1>7, <1>8, <1>9, <1>10 DEF AcceptLoop

LEMMA TrafficOthers ==
    ASSUME TrafficInv,
           \/ WatcherFires \/ WatcherEnds \/ RunWaited \/ OutsideCall \/ Interrupt
           \/ \E k \in Gens : Keeper(k)
           \/ \E h \in Conns : Handler(h)
           \/ \E g \in Gens : Gateway(g)
           \/ UNCHANGED vars
    PROVE  TrafficParts'
<1> DEFINE Calm == /\ UNCHANGED <<gen, accL, acc, hgen>>
                   /\ main' = main \/ (main = "wait" /\ main' = "close")
                   /\ listener' \in {listener, 0}
<1> USE DEF vars, shared, ssh, start, accept, handler
<1>1. CASE WatcherFires \/ WatcherEnds
  <2>1. Calm /\ UNCHANGED hs
    BY <1>1 DEF WatcherFires, WatcherEnds, WatcherGoto
  <2> QED
    BY <2>1, TrafficKept DEF Live
<1>2. CASE RunWaited \/ OutsideCall \/ Interrupt
  <2>1. Calm /\ UNCHANGED hs
    BY <1>2 DEF RunWaited, OutsideCall, Interrupt
  <2> QED
    BY <2>1, TrafficKept DEF Live
<1>3. ASSUME NEW k \in Gens, Keeper(k) PROVE TrafficParts'
  <2>1. Calm /\ UNCHANGED hs
    BY <1>3 DEF Keeper, KeepStops, KeepTick, KeepPing, KeepPong, KeepFails, KeepTearsDown,
          KeepEnds, KeepGoto
  <2> QED
    BY <2>1, TrafficKept DEF Live
<1>4. ASSUME NEW h \in Conns, Handler(h) PROVE TrafficParts'
  <2>1. Calm
    BY <1>4 DEF Handler, HandlerDial, HandlerStops, HandlerEOF, HandlerEnds, HandlerGoto
  <2>2. hs[h] # "off" /\ \E s : hs' = [hs EXCEPT ![h] = s]
    BY <1>4 DEF Handler, HandlerDial, HandlerStops, HandlerEOF, HandlerEnds, HandlerGoto
  <2>3. Live' \subseteq Live
    BY <2>2 DEF Live, TrafficInv, LockInv, TypeOK
  <2> QED
    BY <2>1, <2>3, TrafficKept
<1>5. ASSUME NEW g \in Gens, Gateway(g) PROVE TrafficParts'
  <2>1. Calm /\ UNCHANGED hs
    BY <1>5 DEF Gateway, GatewayOpens, GatewayHangs, ConnReset, ConnTimesOut, GatewayOnly
  <2> QED
    BY <2>1, TrafficKept DEF Live
<1>6. CASE UNCHANGED vars
  BY <1>6, TrafficKept DEF Live
<1> QED
  BY <1>1, <1>2, <1>3, <1>4, <1>5, <1>6

LEMMA TrafficInit == Init => TrafficInv
<1> SUFFICES ASSUME Init PROVE TrafficInv
  OBVIOUS
<1>1. Live = {} /\ listener = 0 /\ accL = 0 /\ gen = 0 /\ acc = "off"
  BY DEF Init, Live
<1> QED
  BY <1>1, SessionInvInit, LockInit
  DEF TrafficInv, TrafficParts, Bare, Known, OldTraffic, Dialling

LEMMA TrafficStep == TrafficInv /\ [Next]_vars => TrafficInv'
<1> SUFFICES ASSUME TrafficInv, [Next]_vars PROVE TrafficInv'
  OBVIOUS
<1>1. SessionInv' /\ LockInv'
  BY SessionInvStep, LockStep DEF TrafficInv
<1>2. TrafficParts'
  BY TrafficStart, TrafficClose, TrafficAcceptLoop, TrafficOthers DEF Next, Terminated
<1> QED
  BY <1>1, <1>2 DEF TrafficInv

(* Traffic flows over the session that rt.client holds, or over none: a    *)
(* handler that outlives its session never finds itself on the next one.   *)
THEOREM TrafficCorrect == Spec => []TrafficOnCurrentSession
<1>1. TrafficInv => TrafficOnCurrentSession
  <2> SUFFICES ASSUME TrafficInv, NEW h \in Live, Alive(hgen[h])
               PROVE  hgen[h] = gen /\ client = gen
    BY DEF TrafficOnCurrentSession
  <2> USE DEF TrafficInv, TrafficParts
  <2>1. main \in {"wait", "close"}
    BY DEF OldTraffic
  <2>2. hgen[h] \in OptGen
    BY DEF LockInv, TypeOK, Live
  <2>3. hgen[h] \in Gens
    BY <2>2 DEF Known, OptGen, Gens
  <2> QED
    BY <2>1, <2>3 DEF SessionInv, SessionOwned, OldTraffic
<1> QED
  BY <1>1, TrafficInit, TrafficStep, PTL DEF Spec
(* rt.listener is replaced, or forgotten, only when it is closed: Accept    *)
(* on a listener that nobody can reach any more has been woken up.         *)
THEOREM ListenerDropCorrect == Spec => ListenerClosedBeforeDropped
<1> DEFINE Drop == listener # 0 /\ listener' # listener => done[listener]
<1>1. TrafficInv /\ [Next]_vars => [Drop]_vars
  <2> SUFFICES ASSUME TrafficInv, Next, listener # 0, listener' # listener
               PROVE  done[listener]
    OBVIOUS
  <2> USE DEF TrafficInv, TrafficParts
  <2>1. locked => done[listener]
    BY DEF LockInv, MutexDiscipline
  <2>2. NothingToClose => done[listener]
    BY DEF NothingToClose
  <2>3. ~Start
    BY DEF Bare, Start, StartDial, StartDialFails, StartHandshake, StartProbe, StartProbed,
          StartRegister, StartRegisterFails, StartListen, StartFails, MainGoto, shared
  <2>4. ASSUME NEW p \in Closers, Close(p) PROVE done[listener]
    <3>1. CASE CloseListenerEnds(p)
      <4>1. locked
        BY <3>1, CriticalMembers DEF CloseListenerEnds, CloseGoto, LockInv, MutexDiscipline
      <4> QED
        BY <2>1, <4>1
    <3> QED
      BY <2>2, <2>4, <3>1 DEF Close, CloseTwice, CloseFirst, CloseListener, CloseGrace,
            CloseClient, shared
  <2>5. ~(WatcherFires \/ WatcherEnds)
    BY DEF WatcherFires, WatcherEnds, WatcherGoto
  <2>6. ASSUME NEW k \in Gens, Keeper(k) PROVE done[listener]
    <3>1. CASE KeepEnds(k)
      <4>1. locked
        BY <3>1, CriticalMembers DEF KeepEnds, KeepGoto, LockInv, MutexDiscipline
      <4> QED
        BY <2>1, <4>1
    <3> QED
      BY <2>2, <2>6, <3>1 DEF Keeper, KeepStops, KeepTick, KeepPing, KeepPong, KeepFails,
            KeepTearsDown, shared
  <2>7. CASE AcceptLoop
    <3>1. CASE AccTeardownEnds
      <4>1. locked
        BY <3>1, CriticalMembers DEF AccTeardownEnds, LockInv, MutexDiscipline
      <4> QED
        BY <2>1, <4>1
    <3>2. CASE AccTeardown
      BY <2>2, <3>2 DEF AccTeardown
    <3>3. CASE AccInstall
      BY <3>3 DEF AccInstall, AccGoto, Bare, Dialling
    <3> QED
      BY <2>7, <3>1, <3>2, <3>3 DEF AcceptLoop, AccTop, AccConn, AccFails, AccError, AccGivesUp,
            AccDial, AccDialFails, AccHandshake, AccRegister, AccGranted, AccRefused, AccSleep,
            AccExit, shared
  <2>8. ASSUME NEW h \in Conns, Handler(h) PROVE FALSE
    BY <2>8 DEF Handler, HandlerDial, HandlerStops, HandlerEOF, HandlerEnds, HandlerGoto, shared
  <2>9. ASSUME NEW g \in Gens, Gateway(g) PROVE FALSE
    BY <2>9 DEF Gateway, GatewayOpens, GatewayHangs, ConnReset, ConnTimesOut, GatewayOnly, shared
  <2>10. ~(RunWaited \/ OutsideCall \/ Interrupt \/ Terminated)
    BY DEF RunWaited, OutsideCall, Interrupt, Terminated, vars, shared
  <2> QED
    BY <2>3, <2>4, <2>5, <2>6, <2>7, <2>8, <2>9, <2>10 DEF Next
<1>2. TrafficInv /\ [Next]_vars => TrafficInv'
  BY TrafficStep
<1> QED
  BY <1>1, <1>2, TrafficInit, PTL DEF Spec, ListenerClosedBeforeDropped

----------------------------------------------------------------------------
(* The tunnel implements SerialSessions: what the end of Run and of Close  *)
(* has to say about the sessions.                                          *)

Lives == {g \in Gens : Alive(g)}
Over  == Ended /\ cl["other"] = "idle"

(* Run calls Close only when the accept loop is gone, and finds the tunnel *)
(* closed already only if somebody else closed it.                         *)
RunOrder ==
    /\ main = "close" => acc \in {"off", "exited"}
    /\ RunCloses
    /\ closed /\ cl["other"] = "idle" => cl["main"] \notin {"idle", "entry"}

RefinementInv == SessionInv /\ RunOrder /\ (Over => Lives = {})

(* The two kinds of step the sessions see. *)
Opens ==
    /\ ~Over /\ Lives = {} /\ ~Over'
    /\ gen' = gen + 1 /\ Lives' = {gen + 1}
Shrinks ==
    /\ gen' = gen /\ Lives' \subseteq Lives
    /\ Over => Over'
    /\ Over' /\ ~Over => Lives' = {}

(* Whoever dials has no session, and only a tunnel that runs dials.        *)
LEMMA DialOpens ==
    ASSUME RefinementInv, StartDial \/ AccDial
    PROVE  Opens
<1> USE DEF RefinementInv, SessionInv, SessionOwned, NilWhileDialling, StartFirst, Dialling,
        RunOrder, RunCloses, Alive, Ended
<1>1. Lives = {} /\ ~Over
  <2>1. CASE StartDial
    BY <2>1 DEF StartDial, MainGoto, Lives, Over, Gens
  <2>2. CASE AccDial
    BY <2>2 DEF AccDial, AccGoto, Lives, Over, Gens
  <2> QED
    BY <2>1, <2>2
<1>2. gen' = gen + 1 /\ conn' = [conn EXCEPT ![gen + 1] = "up"] /\ gen + 1 \in Gens
  BY BoundAssumption DEF StartDial, AccDial, TCPConnect, TypeOK, OptGen, Gens, BoundAssumption
<1>3. Lives' = {gen + 1}
  BY <1>1, <1>2 DEF Lives, TypeOK
<1>4. ~Over'
  <2>1. CASE StartDial
    BY <2>1, <1>1 DEF StartDial, MainGoto, Over
  <2>2. CASE AccDial
    BY <2>2, <1>1 DEF AccDial, AccGoto, Over, start
  <2> QED
    BY <2>1, <2>2
<1> QED
  BY <1>1, <1>2, <1>3, <1>4 DEF Opens

(* Every other step leaves the sessions alone or ends some.                *)
SessionsShrink == gen' = gen /\ \A g \in Gens : Alive(g)' => Alive(g)

LEMMA StartShrinks == ASSUME TypeOK, Start, ~StartDial PROVE SessionsShrink
<1> USE DEF SessionsShrink, Alive, ssh
<1>1. CASE StartDialFails BY <1>1 DEF StartDialFails
<1>2. CASE StartHandshake BY <1>2 DEF StartHandshake, HandshakeOK
<1>3. CASE StartProbe BY <1>3 DEF StartProbe
<1>4. CASE StartProbed BY <1>4 DEF StartProbed
<1>5. CASE StartRegister BY <1>5 DEF StartRegister, Register
<1>6. CASE StartRegisterFails BY <1>6 DEF StartRegisterFails
<1>7. CASE StartListen BY <1>7 DEF StartListen, ForwardGranted
<1>8. CASE StartFails BY <1>8 DEF StartFails, Abandon, TypeOK
<1> QED
  BY <1>1, <1>2, <1>3, <1>4, <1>5, <1>6, <1>7, <1>8 DEF Start

LEMMA AcceptLoopShrinks == ASSUME TypeOK, AcceptLoop, ~AccDial PROVE SessionsShrink
<1> USE DEF SessionsShrink, Alive, ssh, AccExit
<1>1. CASE AccTop BY <1>1 DEF AccTop
<1>2. CASE AccConn BY <1>2 DEF AccConn
<1>3. CASE AccFails BY <1>3 DEF AccFails
<1>4. CASE AccError BY <1>4 DEF AccError
<1>5. CASE AccTeardown
  <2>1. CASE acc = "teardown" /\ NothingToClose /\ DropTunnel
    BY <2>1 DEF DropTunnel, DropClient, TypeOK
  <2>2. CASE ~(acc = "teardown" /\ NothingToClose /\ DropTunnel)
    BY <1>5, <2>2 DEF AccTeardown
  <2> QED
    BY <2>1, <2>2
<1>6. CASE AccTeardownEnds BY <1>6 DEF AccTeardownEnds, DropTunnel, DropClient, TypeOK
<1>7. CASE AccGivesUp BY <1>7 DEF AccGivesUp
<1>8. CASE AccDialFails BY <1>8 DEF AccDialFails
<1>9. CASE AccHandshake BY <1>9 DEF AccHandshake, HandshakeOK
<1>10. CASE AccRegister BY <1>10 DEF AccRegister, Register
<1>11. CASE AccGranted BY <1>11 DEF AccGranted, ForwardGranted
<1>12. CASE AccRefused BY <1>12 DEF AccRefused, Abandon, TypeOK
<1>13. CASE AccInstall BY <1>13 DEF AccInstall
<1>14. CASE AccSleep BY <1>14 DEF AccSleep
<1> QED
  BY <1>1, <1>2, <1>3, <1>4, <1>5, <1>6, <1>7, <1>8, <1>9, <1>10, <1>11, <1>12, <1>13,
     <1>14 DEF AcceptLoop

LEMMA CloseShrinks == ASSUME TypeOK, NEW p \in Closers, Close(p) PROVE SessionsShrink
<1> USE DEF SessionsShrink, Alive, ssh
<1>1. CASE CloseTwice(p) \/ CloseFirst(p) BY <1>1 DEF CloseTwice, CloseFirst
<1>2. CASE CloseListener(p) BY <1>2 DEF CloseListener
<1>3. CASE CloseListenerEnds(p) BY <1>3 DEF CloseListenerEnds
<1>4. CASE CloseGrace(p) BY <1>4 DEF CloseGrace
<1>5. CASE CloseClient(p) BY <1>5 DEF CloseClient, DropClient, TypeOK
<1> QED
  BY <1>1, <1>2, <1>3, <1>4, <1>5 DEF Close

LEMMA GatewayShrinks == ASSUME TypeOK, NEW g \in Gens, Gateway(g) PROVE SessionsShrink
<1> USE DEF SessionsShrink, Alive, GatewayOnly, TypeOK
<1>1. CASE GatewayOpens(g) BY <1>1 DEF GatewayOpens
<1>2. CASE GatewayHangs(g) BY <1>2 DEF GatewayHangs
<1>3. CASE ConnReset(g) BY <1>3 DEF ConnReset
<1>4. CASE ConnTimesOut(g) BY <1>4 DEF ConnTimesOut
<1> QED
  BY <1>1, <1>2, <1>3, <1>4 DEF Gateway

(* Steps of everybody else change none of this. *)
Bystander ==
    \/ WatcherFires \/ WatcherEnds \/ Interrupt
    \/ \E k \in Gens : Keeper(k)
    \/ \E h \in Conns : Handler(h)
    \/ UNCHANGED vars

LEMMA BystanderLeaves ==
    ASSUME Bystander
    PROVE  UNCHANGED <<gen, conn, main, cl, closed, acc>>
<1> USE DEF vars, shared, ssh, start, accept
<1>1. CASE WatcherFires \/ WatcherEnds
  BY <1>1 DEF WatcherFires, WatcherEnds, WatcherGoto
<1>2. CASE Interrupt
  BY <1>2 DEF Interrupt
<1>3. ASSUME NEW k \in Gens, Keeper(k) PROVE UNCHANGED <<gen, conn, main, cl, closed, acc>>
  BY <1>3 DEF Keeper, KeepGoto, KeepStops, KeepTick, KeepPing, KeepPong,
        KeepFails, KeepTearsDown, KeepEnds
<1>4. ASSUME NEW h \in Conns, Handler(h) PROVE UNCHANGED <<gen, conn, main, cl, closed, acc>>
  BY <1>4 DEF Handler, HandlerGoto, HandlerDial, HandlerStops, HandlerEOF, HandlerEnds
<1>5. CASE UNCHANGED vars
  BY <1>5
<1> QED
  BY <1>1, <1>2, <1>3, <1>4, <1>5 DEF Bystander

LEMMA RunOrderStep == ASSUME RefinementInv, [Next]_vars PROVE RunOrder'
<1> USE DEF RefinementInv, RunOrder, RunCloses
<1>1. CASE Start
  <2>1. /\ main \notin {"wait", "close"} /\ main' # "close"
        /\ UNCHANGED <<cl, closed>>
    BY <1>1 DEF Start, StartDial, StartDialFails, StartHandshake, StartProbe, StartProbed,
          StartRegister, StartRegisterFails, StartListen, StartFails, MainGoto, shared
  <2> QED
    BY <2>1
<1>2. CASE AcceptLoop
  <2>1. acc \notin {"off", "exited"} /\ UNCHANGED <<main, cl, closed>>
    BY <1>2 DEF AcceptLoop, AccTop, AccConn, AccFails, AccError, AccTeardown, AccTeardownEnds,
          AccGivesUp, AccDial, AccDialFails, AccHandshake, AccRegister, AccGranted, AccRefused,
          AccInstall, AccSleep, AccGoto, AccExit, DropTunnel, shared, start
  <2> QED
    BY <2>1
<1>3. CASE RunWaited
  BY <1>3 DEF RunWaited, WaitGroupZero, accept, shared, SessionInv, TypeOK, Closers
<1>4. CASE OutsideCall
  BY <1>4 DEF OutsideCall, accept, shared, SessionInv, TypeOK, Closers
<1>5. ASSUME NEW p \in Closers, Close(p) PROVE RunOrder'
  <2>1. /\ cl[p] \notin {"idle", "done"} /\ cl' = [cl EXCEPT ![p] = cl'[p]]
        /\ cl'[p] \notin {"idle", "entry"} /\ UNCHANGED <<main, acc>>
    BY <1>5 DEF Close, CloseTwice, CloseFirst, CloseListener, CloseListenerEnds, CloseGrace,
          CloseClient, CloseGoto, accept, SessionInv, TypeOK
  <2>2. closed' = closed \/ cl[p] = "entry"
    BY <1>5 DEF Close, CloseTwice, CloseFirst, CloseListener, CloseListenerEnds, CloseGrace,
          CloseClient, CloseGoto, shared
  <2>3. cl \in [Closers -> {"idle", "entry", "listener", "closing", "grace", "client", "done"}]
    BY DEF SessionInv, TypeOK
  <2>4. CASE p = "main"
    BY <2>1, <2>2, <2>3, <2>4 DEF Closers
  <2>5. CASE p = "other"
    BY <2>1, <2>2, <2>3, <2>5 DEF Closers
  <2> QED
    BY <2>4, <2>5 DEF Closers
<1>6. CASE Bystander
  BY <1>6, BystanderLeaves
<1>7. CASE \E g \in Gens : Gateway(g)
  BY <1>7 DEF Gateway, GatewayOpens, GatewayHangs, ConnReset, ConnTimesOut, GatewayOnly,
        shared, start, accept
<1> QED
  BY <1>1, <1>2, <1>3, <1>4, <1>5, <1>6, <1>7 DEF Next, Bystander, Terminated

(* A session never opens once Run is through, and Run's own Close leaves   *)
(* none: rt.client is the only one there can be by then.                   *)
LEMMA OtherStepsShrink ==
    ASSUME RefinementInv, [Next]_vars, ~StartDial, ~AccDial
    PROVE  Shrinks
<1>1. SessionsShrink => gen' = gen /\ Lives' \subseteq Lives
  BY DEF SessionsShrink, Lives
<1>2. UNCHANGED <<gen, conn>> => SessionsShrink
  BY DEF SessionsShrink, Alive
<1> USE DEF RefinementInv, RunOrder, RunCloses, Over, Ended
<1>3. CASE Start
  <2>1. SessionsShrink
    BY <1>3, StartShrinks DEF SessionInv
  <2>2. ~Over /\ cl' = cl
    BY <1>3 DEF Start, StartDial, StartDialFails, StartHandshake, StartProbe, StartProbed,
          StartRegister, StartRegisterFails, StartListen, StartFails, MainGoto
  <2>3. main' = "failed" => Lives' = {}
    <3>1. CASE StartDialFails
      BY <2>1, <3>1 DEF StartDialFails, MainGoto, SessionsShrink, SessionInv, SessionOwned,
            NilWhileDialling, StartFirst, Dialling, Lives, Gens
    <3>2. CASE StartFails
      BY <2>1, <3>2 DEF StartFails, Abandon, SessionsShrink, SessionInv, SessionOwned, TypeOK,
            Lives, Alive
    <3>3. CASE ~StartDialFails /\ ~StartFails
      BY <1>3, <3>3 DEF Start, StartDial, StartHandshake, StartProbe, StartProbed, StartRegister,
            StartRegisterFails, StartListen, MainGoto
    <3> QED
      BY <3>1, <3>2, <3>3
  <2>4. Over' => main' = "failed"
    BY <2>2, <1>3 DEF Start, StartDial, StartDialFails, StartHandshake, StartProbe, StartProbed,
          StartRegister, StartRegisterFails, StartListen, StartFails, MainGoto
  <2> QED
    BY <1>1, <2>1, <2>2, <2>3, <2>4 DEF Shrinks
<1>4. CASE AcceptLoop
  <2>1. SessionsShrink
    BY <1>4, AcceptLoopShrinks DEF SessionInv
  <2>2. UNCHANGED start
    BY <1>4 DEF AcceptLoop, AccTop, AccConn, AccFails, AccError, AccTeardown, AccTeardownEnds,
          AccGivesUp, AccDial, AccDialFails, AccHandshake, AccRegister, AccGranted, AccRefused,
          AccInstall, AccSleep, AccGoto, AccExit, DropTunnel
  <2> QED
    BY <1>1, <2>1, <2>2 DEF Shrinks, start
<1>5. CASE RunWaited
  BY <1>1, <1>2, <1>5 DEF RunWaited, ssh, Shrinks, SessionInv, TypeOK, Closers
<1>6. CASE OutsideCall
  BY <1>1, <1>2, <1>6 DEF OutsideCall, ssh, Shrinks, SessionInv, TypeOK, Closers
<1>7. ASSUME NEW p \in Closers, Close(p) PROVE Shrinks
  <2>1. SessionsShrink
    BY <1>7, CloseShrinks DEF SessionInv
  <2>2. /\ cl[p] \notin {"idle", "done"} /\ cl' = [cl EXCEPT ![p] = cl'[p]]
        /\ cl'[p] # "idle" /\ main' = main
    BY <1>7 DEF Close, CloseTwice, CloseFirst, CloseListener, CloseListenerEnds, CloseGrace,
          CloseClient, CloseGoto, SessionInv, TypeOK
  <2>3. cl \in [Closers -> {"idle", "entry", "listener", "closing", "grace", "client", "done"}]
    BY DEF SessionInv, TypeOK
  <2>4. CASE p = "other"
    BY <1>1, <2>1, <2>2, <2>3, <2>4 DEF Shrinks, Closers
  <2>5. CASE p = "main"
    <3>1. main = "close" /\ ~Over
      BY <2>2, <2>5
    <3>2. CASE CloseClient(p)
      BY <1>1, <2>1, <3>1, <3>2 DEF CloseClient, DropClient, SessionsShrink, SessionInv,
            SessionOwned, Dialling, Shrinks, Lives, Alive
    <3>3. CASE ~CloseClient(p)
      <4>1. Over' => CloseTwice(p)
        BY <1>7, <2>3, <2>5, <3>1, <3>3 DEF Close, CloseFirst, CloseListener, CloseListenerEnds,
              CloseGrace, CloseGoto, Closers
      <4>2. ~(Over' /\ CloseTwice(p))
        BY <2>2, <2>3, <2>5 DEF CloseTwice, CloseGoto, Closers
      <4> QED
        BY <1>1, <2>1, <3>1, <4>1, <4>2 DEF Shrinks
    <3> QED
      BY <3>2, <3>3
  <2> QED
    BY <2>4, <2>5 DEF Closers
<1>8. CASE Bystander
  BY <1>1, <1>2, <1>8, BystanderLeaves DEF Shrinks
<1>9. CASE \E g \in Gens : Gateway(g)
  <2>1. SessionsShrink
    BY <1>9, GatewayShrinks DEF SessionInv
  <2>2. UNCHANGED start
    BY <1>9 DEF Gateway, GatewayOpens, GatewayHangs, ConnReset, ConnTimesOut, GatewayOnly
  <2> QED
    BY <1>1, <2>1, <2>2 DEF Shrinks, start
<1> QED
  BY <1>3, <1>4, <1>5, <1>6, <1>7, <1>8, <1>9 DEF Next, Bystander, Terminated

LEMMA OpensOrShrinks == RefinementInv /\ [Next]_vars => Opens \/ Shrinks
BY DialOpens, OtherStepsShrink

LEMMA RefinementInit == Init => RefinementInv
BY SessionInvInit DEF RefinementInv, RunOrder, RunCloses, Init, Lives, Alive, Closers

LEMMA RefinementStep == RefinementInv /\ [Next]_vars => RefinementInv'
<1> SUFFICES ASSUME RefinementInv, [Next]_vars PROVE RefinementInv'
  OBVIOUS
<1>1. SessionInv' /\ RunOrder'
  BY SessionInvStep, RunOrderStep DEF RefinementInv
<1>2. Over' => Lives' = {}
  BY OpensOrShrinks DEF Opens, Shrinks, RefinementInv
<1> QED
  BY <1>1, <1>2 DEF RefinementInv

(* Reconnecting, failing to, and closing at any point: the sessions the    *)
(* tunnel opens follow one another, each opened when the one before it is  *)
(* gone for good, and when Run has returned none is left.                  *)
THEOREM SerialCorrect == Spec => Implements
<1> USE DEF Serial!Open, Serial!Lose, Serial!End, Serial!Next, Serial!vars
<1>1. Init => Serial!Init
  BY DEF Init, Serial!Init, Ended, Alive, Closers
<1>2. RefinementInv /\ [Next]_vars => [Serial!Next]_(Serial!vars)
  <2> SUFFICES ASSUME RefinementInv, [Next]_vars PROVE [Serial!Next]_(Serial!vars)
    OBVIOUS
  <2>1. Lives = {} \/ Lives = {gen}
    BY DEF RefinementInv, SessionInv, SessionOwned, Lives
  <2>2. CASE Opens
    BY <2>2 DEF Opens, Lives, Over
  <2>3. CASE Shrinks
    BY <2>1, <2>3 DEF Shrinks, Lives, Over
  <2> QED
    BY <2>2, <2>3, OpensOrShrinks
<1> QED
  BY <1>1, <1>2, RefinementInit, RefinementStep, PTL DEF Spec, Implements, Serial!Spec

----------------------------------------------------------------------------
(* What Close leaves behind.  An embedding program that closes a tunnel    *)
(* which may be reconnecting is another matter: rt.ctx is not looked at    *)
(* when reconnect installs its new session, so that one outlives Close.    *)
(* gonc itself never closes from outside, and OneCloser is about everybody *)
(* else who does not combine the two.                                      *)
OneCloser == ~(AutoReconnect /\ OutsideClose)

(* The steps of Close that only the caller that set rt.closed makes.       *)
InClose == {"listener", "closing", "grace", "client"}

(* How far Run, Start and the callers of Close can be from each other:     *)
(* one of them only does the work of Close, and it has set rt.closed.      *)
CloseOrder ==
    /\ \A p \in Closers : cl[p] \in InClose \cup {"done"} => closed
    /\ \A p, q \in Closers : cl[p] \in InClose /\ cl[q] \in InClose => p = q
    /\ closed => main \in {"wait", "close"}
    /\ closed /\ cl["main"] \in {"idle", "entry"} => cl["other"] \in InClose \cup {"done"}
    /\ main = "close" => cl["main"] # "idle"
    /\ cl["other"] # "idle" => OutsideClose /\ main \in {"wait", "close"}
    /\ closed \/ main = "failed" => cancelled

(* The goroutines that Wait waits for are there while Run waits only, and  *)
(* none of them dials without AutoReconnect.                               *)
RunOver ==
    /\ main \notin {"wait", "close"} => \A k \in Gens : keep[k] = "off"
    /\ main = "close" => WaitGroupZero
    /\ ~AutoReconnect => acc \in {"off", "top", "accept", "error", "exited"}

(* What rt.client and rt.listener hold while the tunnel starts, runs, is   *)
(* being closed and is closed.                                             *)
Holdings ==
    /\ main \in {"probe", "probing", "register", "request"} => client = gen
    /\ listener # 0 => client = listener \/ (closed /\ ~OneCloser)
    /\ \A p \in Closers : cl[p] \in {"grace", "client"} => listener = 0 \/ ~OneCloser
    /\ closed /\ (\A p \in Closers : cl[p] \notin InClose)
           => (client = 0 /\ listener = 0) \/ ~OneCloser

CloseParts == CloseOrder /\ RunOver /\ Holdings
CloseInv == RefinementInv /\ TrafficInv /\ CloseParts

(* Nobody resets rt.ctx.                                                   *)
LEMMA CancelStays == TypeOK /\ [Next]_vars /\ cancelled => cancelled'
<1> SUFFICES ASSUME TypeOK, [Next]_vars, cancelled PROVE cancelled'
  OBVIOUS
<1> USE DEF vars, shared
<1>1. CASE Start
  BY <1>1 DEF Start, StartDial, StartDialFails, StartHandshake, StartProbe, StartProbed,
        StartRegister, StartRegisterFails, StartListen, StartFails
<1>2. CASE \E p \in Closers : Close(p)
  BY <1>2 DEF Close, CloseTwice, CloseFirst, CloseListener, CloseListenerEnds, CloseGrace,
        CloseClient
<1>3. CASE AcceptLoop
  BY <1>3 DEF AcceptLoop, AccTop, AccConn, AccFails, AccError, AccTeardown, AccTeardownEnds,
        AccGivesUp, AccDial, AccDialFails, AccHandshake, AccRegister, AccGranted, AccRefused,
        AccInstall, AccSleep, AccExit, DropTunnel
<1>4. CASE \E k \in Gens : Keeper(k)
  BY <1>4 DEF Keeper, KeepStops, KeepTick, KeepPing, KeepPong, KeepFails, KeepTearsDown, KeepEnds
<1>5. CASE \E h \in Conns : Handler(h)
  BY <1>5 DEF Handler, HandlerDial, HandlerStops, HandlerEOF, HandlerEnds, HandlerGoto
<1>6. CASE \E g \in Gens : Gateway(g)
  BY <1>6 DEF Gateway, GatewayOpens, GatewayHangs, ConnReset, ConnTimesOut, GatewayOnly
<1>7. CASE WatcherFires \/ WatcherEnds \/ RunWaited \/ OutsideCall \/ Interrupt
  BY <1>7 DEF WatcherFires, WatcherEnds, WatcherGoto, RunWaited, OutsideCall, Interrupt
<1>8. CASE UNCHANGED vars
  BY <1>8
<1> QED
  BY <1>1, <1>2, <1>3, <1>4, <1>5, <1>6, <1>7, <1>8 DEF Next, Terminated

LEMMA CloseOrderKept ==
    ASSUME CloseOrder, UNCHANGED <<cl, closed, main>>, cancelled => cancelled'
    PROVE  CloseOrder'
BY DEF CloseOrder

LEMMA CloseInit == Init => CloseInv
<1> SUFFICES ASSUME Init PROVE CloseInv
  OBVIOUS
<1>1. CloseOrder
  BY DEF Init, CloseOrder, InClose, Closers
<1>2. RunOver /\ Holdings
  BY DEF Init, RunOver, Holdings, Closers
<1> QED
  BY <1>1, <1>2, RefinementInit, TrafficInit DEF CloseInv, CloseParts

LEMMA CloseStart == ASSUME CloseInv, Start PROVE CloseParts'
<1> USE DEF CloseInv, CloseParts
<1>1. /\ main \notin {"wait", "close"} /\ main' # "close"
      /\ UNCHANGED <<cl, closed>>
  BY DEF Start, StartDial, StartDialFails, StartHandshake, StartProbe, StartProbed,
        StartRegister, StartRegisterFails, StartListen, StartFails, MainGoto, shared
<1>2. /\ ~closed /\ cl["main"] = "idle" /\ cl["other"] = "idle"
      /\ listener = 0 /\ acc = "off" /\ (\A k \in Gens : keep[k] = "off")
  BY <1>1 DEF CloseOrder, RunOver, TrafficInv, TrafficParts, Bare, RefinementInv, SessionInv,
        StartFirst, RunOrder, RunCloses
<1>3. CloseOrder'
  <2>1. main' = "failed" => cancelled'
    BY DEF Start, StartDial, StartDialFails, StartHandshake, StartProbe, StartProbed,
        StartRegister, StartRegisterFails, StartListen, StartFails, MainGoto
  <2> QED
    BY <1>1, <1>2, <2>1 DEF CloseOrder, Closers
<1>4. RunOver'
  <2>1. CASE StartListen
    BY <1>1, <2>1 DEF StartListen, RunOver
  <2>2. CASE ~StartListen
    <3>1. main' \notin {"wait", "close"} /\ UNCHANGED <<keep, acc>>
      BY <2>2 DEF Start, StartDial, StartDialFails, StartHandshake, StartProbe, StartProbed,
        StartRegister, StartRegisterFails, StartFails, MainGoto, accept, keepers
    <3> QED
      BY <1>2, <3>1 DEF RunOver
  <2> QED
    BY <2>1, <2>2
<1>5. Holdings'
  <2>1. CASE StartListen
    <3>1. client' = gen' /\ listener' = gen' /\ main' = "wait"
      BY <2>1 DEF StartListen, ForwardGranted, Holdings
    <3> QED
      BY <1>1, <1>2, <3>1 DEF Holdings, Closers
  <2>2. CASE ~StartListen
    <3>1. listener' = 0
      BY <1>2, <2>2 DEF Start, StartDial, StartDialFails, StartHandshake, StartProbe, StartProbed,
        StartRegister, StartRegisterFails, StartFails, shared
    <3>2. main' \in {"probe", "probing", "register", "request"} => client' = gen'
      BY <2>2 DEF Start, StartDial, StartDialFails, StartHandshake, StartProbe, StartProbed,
        StartRegister, StartRegisterFails, StartFails, HandshakeOK, Register, Abandon, MainGoto,
        shared, ssh, Holdings
    <3> QED
      BY <1>1, <1>2, <3>1, <3>2 DEF Holdings, Closers
  <2> QED
    BY <2>1, <2>2
<1> QED
  BY <1>3, <1>4, <1>5

(* Run's own Close begins when the tunnel's goroutines are gone.           *)
LEMMA CloseCalls == ASSUME CloseInv, RunWaited \/ OutsideCall PROVE CloseParts'
<1> USE DEF CloseInv, CloseParts
<1>0. cl \in [Closers -> {"idle", "entry", "listener", "closing", "grace", "client", "done"}]
  BY DEF RefinementInv, SessionInv, TypeOK
<1>1. CASE RunWaited
  <2>1. /\ main = "wait" /\ main' = "close" /\ cl["main"] = "idle"
        /\ cl' = [cl EXCEPT !["main"] = "entry"]
        /\ UNCHANGED <<cancelled, closed, client, listener, acc, keep, hs, gen>>
        /\ WaitGroupZero
    BY <1>1 DEF RunWaited, shared, ssh, accept, keepers, handler, RefinementInv, RunOrder,
          RunCloses
  <2>2. cl'["main"] = "entry" /\ cl'["other"] = cl["other"]
    BY <1>0, <2>1 DEF Closers
  <2>3. CloseOrder'
    BY <2>1, <2>2 DEF CloseOrder, Closers, InClose
  <2>4. RunOver'
    BY <2>1 DEF RunOver, WaitGroupZero, Live
  <2>5. Holdings'
    BY <2>1, <2>2 DEF Holdings, Closers, InClose
  <2> QED
    BY <2>3, <2>4, <2>5
<1>2. CASE OutsideCall
  <2>1. /\ OutsideClose /\ main = "wait" /\ cl["other"] = "idle"
        /\ cl' = [cl EXCEPT !["other"] = "entry"]
        /\ UNCHANGED <<main, cancelled, closed, client, listener, acc, keep, hs, gen>>
    BY <1>2 DEF OutsideCall, shared, ssh, accept, keepers, handler
  <2>2. cl'["other"] = "entry" /\ cl'["main"] = cl["main"] /\ cl["main"] = "idle" /\ ~closed
    BY <1>0, <2>1 DEF Closers, RefinementInv, RunOrder, RunCloses, CloseOrder
  <2>3. CloseOrder'
    BY <2>1, <2>2 DEF CloseOrder, Closers, InClose
  <2>4. RunOver'
    BY <2>1 DEF RunOver
  <2>5. Holdings'
    BY <2>1, <2>2 DEF Holdings, Closers, InClose
  <2> QED
    BY <2>3, <2>4, <2>5
<1> QED
  BY <1>1, <1>2

LEMMA CloseClose == ASSUME CloseInv, NEW p \in Closers, Close(p) PROVE CloseParts'
<1> USE DEF CloseInv, CloseParts
<1>0. cl \in [Closers -> {"idle", "entry", "listener", "closing", "grace", "client", "done"}]
  BY DEF RefinementInv, SessionInv, TypeOK
<1>1. PICK q \in Closers : (p = "main" /\ q = "other") \/ (p = "other" /\ q = "main")
  BY DEF Closers
<1>2. /\ UNCHANGED <<main, gen, acc, keep, hs>>
      /\ cl'[q] = cl[q] /\ cl[p] # "idle"
      /\ main \in {"wait", "close"}
  <2>1. /\ UNCHANGED <<main, gen, acc, keep, hs>>
        /\ cl'[q] = cl[q] /\ cl[p] # "idle"
    BY <1>0, <1>1 DEF Close, CloseTwice, CloseFirst, CloseListener, CloseListenerEnds, CloseGrace,
          CloseClient, CloseGoto, shared, ssh, accept, keepers, handler
  <2>2. main \in {"wait", "close"}
    BY <2>1 DEF Closers, CloseOrder, RefinementInv, RunOrder, RunCloses
  <2> QED
    BY <2>1, <2>2
<1>3. RunOver'
  BY <1>2 DEF RunOver, WaitGroupZero, Live
<1>4. CASE CloseTwice(p)
  <2>1. /\ cl[p] = "entry" /\ cl'[p] = "done" /\ closed
        /\ UNCHANGED <<cancelled, closed, client, listener>>
    BY <1>0, <1>4 DEF CloseTwice, CloseGoto, shared
  <2>2. CloseOrder'
    BY <1>1, <1>2, <2>1 DEF CloseOrder, InClose, Closers
  <2>3. Holdings'
    BY <1>1, <1>2, <2>1 DEF Holdings, InClose, Closers
  <2> QED
    BY <1>3, <2>2, <2>3
<1>5. CASE CloseFirst(p)
  <2>1. /\ cl[p] = "entry" /\ cl'[p] = "listener" /\ ~closed /\ closed' /\ cancelled'
        /\ UNCHANGED <<client, listener>>
    BY <1>0, <1>5 DEF CloseFirst, CloseGoto
  <2>2. CloseOrder'
    BY <1>1, <1>2, <2>1 DEF CloseOrder, InClose, Closers
  <2>3. Holdings'
    BY <1>1, <1>2, <2>1 DEF Holdings, InClose, Closers
  <2> QED
    BY <1>3, <2>2, <2>3
<1>6. CASE CloseListener(p) \/ CloseListenerEnds(p) \/ CloseGrace(p)
  <2>1. /\ cl[p] \in InClose \ {"client"} /\ cl'[p] \in InClose
        /\ UNCHANGED <<cancelled, closed, client>>
        /\ listener' = listener \/ listener' = 0
        /\ cl'[p] \in {"grace", "client"} => listener' = 0 \/ cl[p] = "grace"
        /\ cl[p] = "grace" => listener' = listener
    BY <1>0, <1>6 DEF CloseListener, CloseListenerEnds, CloseGrace, CloseGoto, InClose, shared
  <2>2. CloseOrder'
    BY <1>1, <1>2, <2>1 DEF CloseOrder, InClose, Closers
  <2>3. Holdings'
    BY <1>1, <1>2, <2>1 DEF Holdings, InClose, Closers
  <2> QED
    BY <1>3, <2>2, <2>3
<1>7. CASE CloseClient(p)
  <2>1. /\ cl[p] = "client" /\ cl'[p] = "done" /\ client' = 0
        /\ UNCHANGED <<cancelled, closed, listener>>
    BY <1>0, <1>7 DEF CloseClient, DropClient, CloseGoto
  <2>2. closed /\ (listener = 0 \/ ~OneCloser)
    BY <2>1 DEF CloseOrder, Holdings, InClose
  <2>3. CloseOrder'
    BY <1>1, <1>2, <2>1 DEF CloseOrder, InClose, Closers
  <2>4. Holdings'
    BY <1>1, <1>2, <2>1, <2>2 DEF Holdings, InClose, Closers
  <2> QED
    BY <1>3, <2>3, <2>4
<1> QED
  BY <1>4, <1>5, <1>6, <1>7 DEF Close

LEMMA CloseAcceptLoop == ASSUME CloseInv, AcceptLoop PROVE CloseParts'
<1> USE DEF CloseInv, CloseParts
<1>1. UNCHANGED <<main, cl, closed>> /\ acc \notin {"off", "exited"}
  BY DEF AcceptLoop, AccTop, AccConn, AccFails, AccError, AccTeardown, AccTeardownEnds,
        AccGivesUp, AccDial, AccDialFails, AccHandshake, AccRegister, AccGranted, AccRefused,
        AccInstall, AccSleep, AccGoto, AccExit, DropTunnel, start, shared
<1>2. main = "wait"
  BY <1>1 DEF RunOver, WaitGroupZero, RefinementInv, SessionInv, StartFirst
<1>3. CloseOrder'
  BY <1>1, CancelStays, CloseOrderKept DEF RefinementInv, SessionInv, Next
<1>4. RunOver'
  <2>1. ~AutoReconnect => acc' \in {"off", "top", "accept", "error", "exited"}
    BY DEF AcceptLoop, AccTop, AccConn, AccFails, AccError, AccTeardown, AccTeardownEnds,
          AccGivesUp, AccDial, AccDialFails, AccHandshake, AccRegister, AccGranted, AccRefused,
          AccInstall, AccSleep, AccGoto, AccExit, DropTunnel, RunOver
  <2> QED
    BY <1>1, <1>2, <2>1 DEF RunOver
<1>5. CASE AccInstall
  <2>1. client' = gen /\ listener' = gen /\ acc = "install"
    BY <1>5 DEF AccInstall, AccGoto
  <2>2. closed \/ (\E p \in Closers : cl[p] \in {"grace", "client"}) => ~OneCloser
    <3>1. AutoReconnect
      BY <2>1 DEF RunOver
    <3>2. cl["main"] = "idle"
      BY <1>2 DEF RefinementInv, RunOrder, RunCloses
    <3> QED
      BY <3>1, <3>2 DEF OneCloser, CloseOrder, Closers, InClose
  <2> QED
    BY <1>1, <1>2, <1>3, <1>4, <2>1, <2>2 DEF Holdings
<1>6. CASE ~AccInstall
  <2>1. UNCHANGED <<client, listener>> \/ (client' = 0 /\ listener' = 0)
    BY <1>6 DEF AcceptLoop, AccTop, AccConn, AccFails, AccError, AccTeardown, AccTeardownEnds,
          AccGivesUp, AccDial, AccDialFails, AccHandshake, AccRegister, AccGranted, AccRefused,
          AccSleep, AccExit, DropTunnel, DropClient, shared
  <2> QED
    BY <1>1, <1>2, <1>3, <1>4, <2>1 DEF Holdings
<1> QED
  BY <1>5, <1>6

LEMMA CloseKeeper == ASSUME CloseInv, NEW k \in Gens, Keeper(k) PROVE CloseParts'
<1> USE DEF CloseInv, CloseParts
<1>1. /\ UNCHANGED <<main, cl, closed, client, gen, acc>>
      /\ keep[k] \notin {"off", "exited"}
      /\ listener' = listener \/ listener' = 0
  BY DEF Keeper, KeepStops, KeepTick, KeepPing, KeepPong, KeepFails, KeepTearsDown,
        KeepEnds, KeepGoto, start, accept, shared, ssh
<1>2. main = "wait"
  BY <1>1 DEF RunOver, WaitGroupZero
<1>3. CloseOrder'
  BY <1>1, CancelStays, CloseOrderKept DEF RefinementInv, SessionInv, Next
<1>4. RunOver' /\ Holdings'
  BY <1>1, <1>2 DEF RunOver, Holdings
<1> QED
  BY <1>3, <1>4

(* Whoever else takes a step leaves all of it alone.                       *)
LEMMA CloseOthers ==
    ASSUME CloseInv,
           \/ WatcherFires \/ WatcherEnds \/ Interrupt
           \/ \E h \in Conns : Handler(h)
           \/ \E g \in Gens : Gateway(g)
           \/ UNCHANGED vars
    PROVE  CloseParts'
<1> USE DEF CloseInv, CloseParts, vars, shared, ssh, start, accept, keepers, handler
<1>1. UNCHANGED <<main, cl, closed, client, listener, gen, acc, keep>>
  <2>1. CASE WatcherFires \/ WatcherEnds \/ Interrupt
    BY <2>1 DEF WatcherFires, WatcherEnds, WatcherGoto, Interrupt
  <2>2. CASE \E h \in Conns : Handler(h)
    BY <2>2 DEF Handler, HandlerDial, HandlerStops, HandlerEOF, HandlerEnds, HandlerGoto
  <2>3. CASE \E g \in Gens : Gateway(g)
    BY <2>3 DEF Gateway, GatewayOpens, GatewayHangs, ConnReset, ConnTimesOut, GatewayOnly
  <2> QED
    BY <2>1, <2>2, <2>3
<1>2. Live = {} => Live' = {}
  <2>1. CASE \E h \in Conns : Handler(h)
    BY <2>1 DEF Handler, HandlerDial, HandlerStops, HandlerEOF, HandlerEnds, HandlerGoto, Live
  <2>2. CASE ~\E h \in Conns : Handler(h)
    <3>1. hs' = hs
      BY <2>2 DEF WatcherFires, WatcherEnds, WatcherGoto, Interrupt, Gateway, GatewayOpens,
            GatewayHangs, ConnReset, ConnTimesOut, GatewayOnly
    <3> QED
      BY <3>1 DEF Live
  <2> QED
    BY <2>1, <2>2
<1>3. CloseOrder'
  BY <1>1, CancelStays, CloseOrderKept DEF RefinementInv, SessionInv, Next
<1>4. RunOver' /\ Holdings'
  BY <1>1, <1>2 DEF RunOver, Holdings, WaitGroupZero
<1> QED
  BY <1>3, <1>4

LEMMA CloseStep == CloseInv /\ [Next]_vars => CloseInv'
<1> SUFFICES ASSUME CloseInv, [Next]_vars PROVE CloseInv'
  OBVIOUS
<1>1. RefinementInv' /\ TrafficInv'
  BY RefinementStep, TrafficStep DEF CloseInv
<1>2. CloseParts'
  BY CloseStart, CloseCalls, CloseClose, CloseAcceptLoop, CloseKeeper, CloseOthers
  DEF Next, Terminated
<1> QED
  BY <1>1, <1>2 DEF CloseInv

(* rt.listener is always a listener of rt.client, whichever of keepalive,  *)
(* reconnect and Close drops or replaces the two, and in whatever order.   *)
THEOREM ListenerCorrect == ASSUME OneCloser PROVE Spec => []ListenerOfClient
<1>1. CloseInv => ListenerOfClient
  BY DEF CloseInv, CloseParts, Holdings, ListenerOfClient
<1> QED
  BY <1>1, CloseInit, CloseStep, PTL DEF Spec

(* Run that has returned leaves nothing: not a goroutine that Wait counts, *)
(* not an SSH session, not a listener, even if somebody else's Close had   *)
(* come first, and also when Start fails at any point.                     *)
THEOREM NothingLeftCorrect == ASSUME OneCloser PROVE Spec => []NothingLeft
<1>1. CloseInv => NothingLeft
  <2> SUFFICES ASSUME CloseInv, Ended, cl["other"] \in {"idle", "done"}
               PROVE  /\ WaitGroupZero /\ cancelled
                      /\ \A g \in Gens : ~Alive(g)
                      /\ main = "close" => client = 0 /\ listener = 0
    BY DEF NothingLeft
  <2> USE DEF CloseInv, CloseParts
  <2>1. CASE main = "failed"
    <3>1. Over
      BY <2>1 DEF CloseOrder, Over
    <3>2. \A g \in Gens : ~Alive(g)
      BY <3>1 DEF RefinementInv, Lives
    <3>3. WaitGroupZero
      BY <2>1 DEF WaitGroupZero, RunOver, RefinementInv, SessionInv, StartFirst, TrafficInv,
            TrafficParts, OldTraffic
    <3> QED
      BY <2>1, <3>2, <3>3 DEF CloseOrder
  <2>2. CASE cl["main"] = "done"
    <3>1. main = "close" /\ closed /\ cancelled /\ WaitGroupZero
      BY <2>2 DEF RefinementInv, RunOrder, RunCloses, CloseOrder, RunOver, Closers
    <3>2. client = 0 /\ listener = 0
      BY <2>2, <3>1 DEF Holdings, InClose, Closers
    <3>3. \A g \in Gens : ~Alive(g)
      BY <3>1, <3>2 DEF RefinementInv, SessionInv, SessionOwned, Dialling, WaitGroupZero, Gens
    <3> QED
      BY <3>1, <3>2, <3>3
  <2> QED
    BY <2>1, <2>2 DEF Ended
<1> QED
  BY <1>1, CloseInit, CloseStep, PTL DEF Spec

(* A closer gets to the end only by its own last step.                     *)
LEMMA OnlyCloseFinishes ==
    ASSUME TypeOK, [Next]_vars, NEW p \in Closers, cl[p] = "client", cl'[p] = "done"
    PROVE  CloseClient(p)
<1>1. cl' # cl
  OBVIOUS
<1>2. PICK q \in Closers : Close(q)
  <2>1. ~(RunWaited \/ OutsideCall)
    BY DEF RunWaited, OutsideCall, TypeOK, Closers
  <2>2. ~Start
    BY <1>1 DEF Start, StartDial, StartDialFails, StartHandshake, StartProbe, StartProbed,
          StartRegister, StartRegisterFails, StartListen, StartFails, MainGoto
  <2>3. ~AcceptLoop
    BY <1>1 DEF AcceptLoop, AccTop, AccConn, AccFails, AccError, AccTeardown, AccTeardownEnds,
          AccGivesUp, AccDial, AccDialFails, AccHandshake, AccRegister, AccGranted, AccRefused,
          AccInstall, AccSleep, AccGoto, AccExit, DropTunnel, start
  <2>4. ~Bystander
    BY <1>1, BystanderLeaves
  <2>5. ~\E g \in Gens : Gateway(g)
    BY <1>1 DEF Gateway, GatewayOpens, GatewayHangs, ConnReset, ConnTimesOut, GatewayOnly, start
  <2> QED
    BY <2>1, <2>2, <2>3, <2>4, <2>5 DEF Next, Bystander, Terminated
<1>3. q = p
  BY <1>2 DEF Close, CloseTwice, CloseFirst, CloseListener, CloseListenerEnds, CloseGrace,
        CloseClient, CloseGoto, TypeOK
<1> QED
  BY <1>2, <1>3 DEF Close, CloseTwice, CloseFirst, CloseListener, CloseListenerEnds, CloseGrace,
        CloseClient, CloseGoto, TypeOK

(* Close by anybody, with reconnect, keepalive and the handlers at work:   *)
(* it leaves at most the session reconnect is just setting up, and none is *)
(* opened after it.  The first is the ownership of sessions at the moment  *)
(* rt.client is closed, the second that whoever has set rt.closed has      *)
(* cancelled rt.ctx too, which dials look at.                              *)
THEOREM CloseEndsCorrect == Spec => CloseEndsSessions
<1>1. ASSUME CloseInv, [Next]_vars, NEW p \in Closers, cl[p] = "client", cl'[p] = "done",
             NEW g \in Gens, Alive(g)'
      PROVE  g = gen /\ acc \in {"handshake", "register", "request", "install"}
  <2> USE DEF CloseInv, CloseParts, RefinementInv, SessionInv
  <2>1. CloseClient(p)
    BY <1>1, OnlyCloseFinishes
  <2>2. Alive(g) /\ client # g
    BY <1>1, <2>1 DEF CloseClient, DropClient, Alive
  <2>3. main # "handshake"
    BY <1>1 DEF CloseOrder, InClose
  <2> QED
    BY <1>1, <2>2, <2>3 DEF SessionOwned, Dialling
<1>2. ASSUME CloseInv, [Next]_vars, NEW p \in Closers, cl[p] = "done"
      PROVE  \A g \in Gens : Alive(g)' => Alive(g)
  <2> USE DEF CloseInv, CloseParts
  <2>1. cancelled
    BY <1>2 DEF CloseOrder
  <2>2. ~StartDial /\ ~AccDial
    BY <2>1 DEF StartDial, AccDial, TCPConnect
  <2>3. Shrinks
    BY <1>2, <2>2, OtherStepsShrink
  <2> QED
    BY <2>3 DEF Shrinks, Lives
<1>3. ASSUME CloseInv, [Next]_vars
      PROVE  \A p \in Closers :
               /\ cl[p] = "client" /\ cl'[p] = "done" =>
                     \A g \in Gens : Alive(g)' =>
                         g = gen /\ acc \in {"handshake", "register", "request", "install"}
               /\ cl[p] = "done" => \A g \in Gens : Alive(g)' => Alive(g)
  <2> TAKE p \in Closers
  <2>1. ASSUME cl[p] = "client", cl'[p] = "done", NEW g \in Gens, Alive(g)'
        PROVE  g = gen /\ acc \in {"handshake", "register", "request", "install"}
    BY <1>1, <1>3, <2>1
  <2>2. ASSUME cl[p] = "done"
        PROVE  \A g \in Gens : Alive(g)' => Alive(g)
    BY <1>2, <1>3, <2>2
  <2> QED
    BY <2>1, <2>2
<1> QED
  BY <1>3, CloseInit, CloseStep, PTL DEF Spec, CloseEndsSessions

----------------------------------------------------------------------------
(* What makes Run return.  That a goroutine that can run is run, and that  *)
(* a silent gateway is noticed, is fairness; what the code answers for is  *)
(* that in a tunnel that was told to end somebody always can: no two of    *)
(* its goroutines wait for each other, and nobody waits for a mutex, a     *)
(* wait group or a listener that no one will release.                      *)

(* What each goroutine can do next without anybody's help: its guards.     *)
MainReady ==
    \/ main \in {"dial", "probe", "register", "conflict"}
    \/ main \in {"handshake", "probing", "request"} /\ Answered(gen)
    \/ main = "wait" /\ WaitGroupZero
CloserReady(p) ==
    \/ cl[p] = "grace"
    \/ cl[p] \in {"entry", "listener", "client"} /\ ~locked
    \/ cl[p] = "closing" /\ Answered(listener)
WatcherReady ==
    \/ watcher = "waiting" /\ cancelled /\ ~locked
    \/ watcher = "closing" /\ Answered(listener)
KeeperReady(k) ==
    \/ keep[k] = "idle" /\ cancelled
    \/ keep[k] \in {"tick", "failed"} /\ ~locked
    \/ keep[k] = "ping" /\ Answered(keepC[k])
    \/ keep[k] = "closing" /\ Answered(listener)
AcceptReady ==
    \/ acc \in {"error", "retry", "sleep"}
    \/ acc \in {"top", "teardown", "install"} /\ ~locked
    \/ acc \in {"handshake", "request"} /\ Answered(gen)
    \/ acc = "register" /\ ~registered[gen]
    \/ acc = "closing" /\ Answered(listener)
    \/ /\ acc = "accept"
       /\ \/ done[accL] \/ conn[accL] = "dead"
          \/ queue[accL] > 0 /\ Alive(accL) /\ Conns \ Live # {}
HandlerReady(h) ==
    \/ hs[h] = "dial"
    \/ hs[h] = "bridge" /\ (cancelled \/ conn[hgen[h]] = "dead")
    \/ hs[h] = "closing" /\ Answered(hgen[h])

Ready ==
    \/ MainReady \/ WatcherReady \/ AcceptReady
    \/ \E p \in Closers : CloserReady(p)
    \/ \E k \in Gens : KeeperReady(k)
    \/ \E h \in Conns : HandlerReady(h)

(* The accept loop waits on an open listener of a live session, and the    *)
(* goroutine that would close it is gone.                                  *)
Deaf == /\ acc = "accept" /\ ~done[accL] /\ conn[accL] = "up"
        /\ watcher = "exited"

(* A tunnel that was told to end, and whose gateway answers.               *)
Ending == cancelled /\ ~Ended /\ \A g \in Gens : conn[g] # "hung"

(* Somebody can go on until Run has returned, or nobody closes the new     *)
(* listener any more.                                                      *)
NeverStuck == Ending => Ready \/ Deaf

(* Nobody waits for the answer of a session that was never dialled, and    *)
(* reconnect finds the channel handler of its new session free.            *)
Numbered ==
    /\ \A g \in Gens : g <= gen => conn[g] # "none"
    /\ \A g \in Gens : g > gen => ~registered[g]
    /\ client <= gen
    /\ \A k \in Gens : keep[k] = "ping" => keepC[k] # 0 /\ keepC[k] <= gen
    /\ main \notin {"dial", "failed"} => gen # 0
    /\ acc \in {"handshake", "register"} => ~registered[gen]

(* Who is there to close the listener that the accept loop waits on.       *)
Watched ==
    /\ main \notin {"wait", "close"} => watcher = "off"
    /\ main = "wait" => watcher # "off"
    /\ acc = "accept" => listener = accL \/ done[accL]
    /\ ~AutoReconnect /\ watcher \in {"closing", "exited"} /\ listener # 0 => done[listener]

EndInv == CloseInv /\ Numbered /\ Watched

LEMMA NumberedStart == ASSUME EndInv, Start PROVE Numbered'
<1> USE BoundAssumption DEF EndInv, CloseInv, RefinementInv, SessionInv, TypeOK, Numbered,
        StartFirst, shared, ssh, accept, keepers, handler, MainGoto, Gens, OptGen, BoundAssumption
<1>0. acc = "off" /\ \A k \in Gens : keep[k] = "off"
  BY DEF Start, StartDial, StartDialFails, StartHandshake, StartProbe, StartProbed,
         StartRegister, StartRegisterFails, StartListen, StartFails, CloseParts, RunOver
<1>1. CASE StartDial BY <1>0, <1>1 DEF StartDial, TCPConnect
<1>2. CASE StartDialFails BY <1>0, <1>2 DEF StartDialFails
<1>3. CASE StartHandshake BY <1>0, <1>3 DEF StartHandshake, HandshakeOK
<1>4. CASE StartProbe BY <1>0, <1>4 DEF StartProbe
<1>5. CASE StartProbed BY <1>0, <1>5 DEF StartProbed
<1>6. CASE StartRegister BY <1>0, <1>6 DEF StartRegister, Register
<1>7. CASE StartRegisterFails BY <1>0, <1>7 DEF StartRegisterFails
<1>8. CASE StartListen BY <1>0, <1>8 DEF StartListen, ForwardGranted
<1>9. CASE StartFails BY <1>0, <1>9 DEF StartFails, Abandon
<1> QED
  BY <1>1, <1>2, <1>3, <1>4, <1>5, <1>6, <1>7, <1>8, <1>9 DEF Start

LEMMA NumberedAcceptLoop == ASSUME EndInv, AcceptLoop PROVE Numbered'
<1> USE BoundAssumption DEF EndInv, CloseInv, RefinementInv, SessionInv, TypeOK, Numbered,
        StartFirst, shared, ssh, start, keepers, handler, AccGoto, AccExit, Gens, OptGen,
        BoundAssumption
<1>1. CASE AccTop BY <1>1 DEF AccTop
<1>2. CASE AccConn BY <1>2 DEF AccConn
<1>3. CASE AccFails BY <1>3 DEF AccFails
<1>4. CASE AccError BY <1>4 DEF AccError
<1>5. CASE AccTeardown
  <2>1. CASE acc = "teardown" /\ NothingToClose /\ DropTunnel
    BY <2>1 DEF DropTunnel, DropClient
  <2>2. CASE ~(acc = "teardown" /\ NothingToClose /\ DropTunnel)
    BY <1>5, <2>2 DEF AccTeardown
  <2> QED
    BY <2>1, <2>2
<1>6. CASE AccTeardownEnds BY <1>6 DEF AccTeardownEnds, DropTunnel, DropClient
<1>7. CASE AccGivesUp BY <1>7 DEF AccGivesUp
<1>8. CASE AccDial BY <1>8 DEF AccDial, TCPConnect
<1>9. CASE AccDialFails BY <1>9 DEF AccDialFails
<1>10. CASE AccHandshake BY <1>10 DEF AccHandshake, HandshakeOK
<1>11. CASE AccRegister BY <1>11 DEF AccRegister, Register
<1>12. CASE AccGranted BY <1>12 DEF AccGranted, ForwardGranted
<1>13. CASE AccRefused BY <1>13 DEF AccRefused, Abandon
<1>14. CASE AccInstall
  <2>1. /\ client' = gen /\ acc' = "top"
        /\ keep' = [keep EXCEPT ![gen] = IF KeepAlive THEN "idle" ELSE "off"]
        /\ UNCHANGED <<main, gen, conn, registered, keepC>>
    BY <1>14 DEF AccInstall
  <2>2. \A k \in Gens : keep'[k] = "ping" => keep[k] = "ping"
    BY <2>1
  <2> QED
    BY <2>1, <2>2
<1>15. CASE AccSleep BY <1>15 DEF AccSleep
<1> QED
  BY <1>1, <1>2, <1>3, <1>4, <1>5, <1>6, <1>7, <1>8, <1>9, <1>10, <1>11, <1>12, <1>13,
     <1>14, <1>15 DEF AcceptLoop

LEMMA NumberedKeeper == ASSUME EndInv, NEW k \in Gens, Keeper(k) PROVE Numbered'
<1>1. UNCHANGED <<gen, conn, registered, client, main, acc>>
  BY DEF Keeper, KeepStops, KeepTick, KeepPing, KeepPong, KeepFails, KeepTearsDown, KeepEnds,
         KeepGoto, shared, ssh, start, accept
<1>2. \A j \in Gens : keep'[j] = "ping" => keepC'[j] # 0 /\ keepC'[j] <= gen
  <2>1. CASE KeepPing(k)
    BY <2>1 DEF KeepPing, KeepGoto, EndInv, CloseInv, RefinementInv, SessionInv, TypeOK, Numbered
  <2>2. CASE ~KeepPing(k)
    <3>1. keepC' = keepC /\ \A j \in Gens : keep'[j] = "ping" => keep[j] = "ping"
      BY <2>2 DEF Keeper, KeepStops, KeepTick, KeepPong, KeepFails, KeepTearsDown, KeepEnds,
             KeepGoto, EndInv, CloseInv, RefinementInv, SessionInv, TypeOK
    <3> QED
      BY <3>1 DEF EndInv, Numbered
  <2> QED
    BY <2>1, <2>2
<1> QED
  BY <1>1, <1>2 DEF EndInv, Numbered

LEMMA NumberedOthers ==
    ASSUME EndInv,
           \/ \E p \in Closers : Close(p)
           \/ \E g \in Gens : Gateway(g)
           \/ RunWaited \/ OutsideCall \/ WatcherFires \/ WatcherEnds \/ Interrupt
           \/ \E h \in Conns : Handler(h)
           \/ UNCHANGED vars
    PROVE  Numbered'
<1> DEFINE Calm == /\ UNCHANGED <<gen, registered, acc, keep, keepC>>
                   /\ main' = main \/ (main = "wait" /\ main' = "close")
                   /\ client' = client \/ client' = 0
<1>1. ASSUME Calm, \A g \in Gens : conn'[g] = "none" => conn[g] = "none" PROVE Numbered'
  <2>1. gen \in Nat
    BY DEF EndInv, CloseInv, RefinementInv, SessionInv, TypeOK, OptGen
  <2> QED
    BY <1>1, <2>1 DEF EndInv, Numbered
<1> USE DEF vars, shared, ssh, start, accept, keepers, handler
<1>2. ASSUME NEW p \in Closers, Close(p) PROVE Numbered'
  <2>1. Calm
    BY <1>2 DEF Close, CloseTwice, CloseFirst, CloseListener, CloseListenerEnds, CloseGrace,
           CloseClient, CloseGoto, DropClient
  <2>2. conn' = conn \/ DropClient
    BY <1>2 DEF Close, CloseTwice, CloseFirst, CloseListener, CloseListenerEnds, CloseGrace,
           CloseClient
  <2> QED
    BY <1>1, <2>1, <2>2 DEF DropClient
<1>3. ASSUME NEW g \in Gens, Gateway(g) PROVE Numbered'
  BY <1>1, <1>3 DEF Gateway, GatewayOpens, GatewayHangs, ConnReset, ConnTimesOut, GatewayOnly,
         EndInv, CloseInv, RefinementInv, SessionInv, TypeOK
<1>4. CASE RunWaited \/ OutsideCall \/ WatcherFires \/ WatcherEnds \/ Interrupt
  BY <1>1, <1>4 DEF RunWaited, OutsideCall, WatcherFires, WatcherEnds, WatcherGoto, Interrupt
<1>5. ASSUME NEW h \in Conns, Handler(h) PROVE Numbered'
  BY <1>1, <1>5 DEF Handler, HandlerDial, HandlerStops, HandlerEOF, HandlerEnds, HandlerGoto
<1>6. CASE UNCHANGED vars
  BY <1>1, <1>6
<1> QED
  BY <1>2, <1>3, <1>4, <1>5, <1>6

(* Nobody opens a closed listener again.                                   *)
LEMMA DoneStays ==
    ASSUME TypeOK, [Next]_vars, NEW g \in Gens, done[g]
    PROVE  done'[g]
<1> USE DEF vars, shared, ssh, ClosingStarts, TypeOK
<1>1. CASE Start
  BY <1>1 DEF Start, StartDial, StartDialFails, StartHandshake, StartProbe, StartProbed,
         StartRegister, StartRegisterFails, StartListen, StartFails, TCPConnect, HandshakeOK,
         Register, ForwardGranted, Abandon
<1>2. CASE \E p \in Closers : Close(p)
  BY <1>2 DEF Close, CloseTwice, CloseFirst, CloseListener, CloseListenerEnds, CloseGrace,
         CloseClient
<1>3. CASE AcceptLoop
  BY <1>3 DEF AcceptLoop, AccTop, AccConn, AccFails, AccError, AccTeardown, AccTeardownEnds,
         AccGivesUp, AccDial, AccDialFails, AccHandshake, AccRegister, AccGranted, AccRefused,
         AccInstall, AccSleep, AccExit, DropTunnel, TCPConnect, HandshakeOK, Register,
         ForwardGranted, Abandon
<1>4. CASE \E k \in Gens : Keeper(k)
  BY <1>4 DEF Keeper, KeepStops, KeepTick, KeepPing, KeepPong, KeepFails, KeepTearsDown, KeepEnds
<1>5. CASE \E h \in Conns : Handler(h)
  BY <1>5 DEF Handler, HandlerDial, HandlerStops, HandlerEOF, HandlerEnds, HandlerGoto
<1>6. CASE \E i \in Gens : Gateway(i)
  BY <1>6 DEF Gateway, GatewayOpens, GatewayHangs, ConnReset, ConnTimesOut, GatewayOnly
<1>7. CASE WatcherFires \/ WatcherEnds
  BY <1>7 DEF WatcherFires, WatcherEnds, WatcherGoto
<1>8. CASE RunWaited \/ OutsideCall \/ Interrupt \/ UNCHANGED vars
  BY <1>8 DEF RunWaited, OutsideCall, Interrupt
<1> QED
  BY <1>1, <1>2, <1>3, <1>4, <1>5, <1>6, <1>7, <1>8 DEF Next, Terminated

(* A step that at most takes away a listener that is closed.               *)
LEMMA WatchedKept ==
    ASSUME EndInv, [Next]_vars, UNCHANGED <<acc, accL, watcher>>,
           main' = main \/ (main = "wait" /\ main' = "close"),
           listener' = listener \/ (listener' = 0 /\ (listener # 0 => done[listener]))
    PROVE  Watched'
<1>1. TypeOK /\ listener \in OptGen /\ accL \in OptGen
  BY DEF EndInv, CloseInv, RefinementInv, SessionInv, TypeOK
<1>2. acc = "accept" => accL \in Gens
  BY <1>1 DEF EndInv, CloseInv, TrafficInv, TrafficParts, Known, OptGen, Gens
<1>3. listener # 0 => listener \in Gens
  BY <1>1 DEF OptGen, Gens
<1> QED
  BY <1>1, <1>2, <1>3, DoneStays DEF EndInv, Watched

LEMMA WatchedStart == ASSUME EndInv, Start PROVE Watched'
<1>1. main \notin {"wait", "close"} /\ main' # "close"
  BY DEF Start, StartDial, StartDialFails, StartHandshake, StartProbe, StartProbed,
         StartRegister, StartRegisterFails, StartListen, StartFails, MainGoto
<1>2. acc = "off" /\ watcher = "off"
  BY <1>1 DEF EndInv, Watched, CloseInv, RefinementInv, SessionInv, StartFirst
<1>3. CASE StartListen
  BY <1>1, <1>2, <1>3 DEF StartListen, Watched
<1>4. CASE ~StartListen
  <2>1. main' # "wait" /\ UNCHANGED <<acc, watcher>>
    BY <1>4 DEF Start, StartDial, StartDialFails, StartHandshake, StartProbe, StartProbed,
           StartRegister, StartRegisterFails, StartFails, MainGoto, accept
  <2> QED
    BY <1>1, <1>2, <2>1 DEF Watched
<1> QED
  BY <1>3, <1>4

(* The mutex is held by whoever drops the listener after its Close.        *)
LEMMA DropsClosed ==
    ASSUME MutexDiscipline,
           \/ \E p \in Closers : cl[p] = "closing"
           \/ \E k \in Gens : keep[k] = "closing"
           \/ watcher = "closing" \/ acc = "closing"
    PROVE  done[listener]
BY CriticalMembers DEF MutexDiscipline

LEMMA WatchedAcceptLoop == ASSUME EndInv, AcceptLoop PROVE Watched'
<1>1. main = "wait" /\ UNCHANGED <<main, watcher>>
  <2>1. acc \notin {"off", "exited"} /\ UNCHANGED <<main, watcher>>
    BY DEF AcceptLoop, AccTop, AccConn, AccFails, AccError, AccTeardown, AccTeardownEnds,
           AccGivesUp, AccDial, AccDialFails, AccHandshake, AccRegister, AccGranted, AccRefused,
           AccInstall, AccSleep, AccGoto, AccExit, DropTunnel, start
  <2> QED
    BY <2>1 DEF EndInv, CloseInv, CloseParts, RunOver, WaitGroupZero, RefinementInv, SessionInv,
           StartFirst
<1>2. acc' = "accept" => listener' = accL'
  BY DEF AcceptLoop, AccTop, AccConn, AccFails, AccError, AccTeardown, AccTeardownEnds,
         AccGivesUp, AccDial, AccDialFails, AccHandshake, AccRegister, AccGranted, AccRefused,
         AccInstall, AccSleep, AccGoto, AccExit, DropTunnel, shared
<1>3. ~AutoReconnect => listener' = listener
  <2> SUFFICES ASSUME ~AutoReconnect PROVE listener' = listener
    OBVIOUS
  <2>1. acc \notin {"install", "teardown", "closing"}
    BY DEF EndInv, CloseInv, CloseParts, RunOver
  <2> QED
    BY <2>1 DEF AcceptLoop, AccTop, AccConn, AccFails, AccError, AccTeardown, AccTeardownEnds,
           AccGivesUp, AccDial, AccDialFails, AccHandshake, AccRegister, AccGranted, AccRefused,
           AccInstall, AccSleep, AccGoto, AccExit, DropTunnel, shared
<1>4. TypeOK /\ (listener # 0 => listener \in Gens)
  BY DEF EndInv, CloseInv, RefinementInv, SessionInv, TypeOK, OptGen, Gens
<1> QED
  BY <1>1, <1>2, <1>3, <1>4, DoneStays DEF EndInv, Watched, Next

LEMMA WatchedWatcher == ASSUME EndInv, WatcherFires \/ WatcherEnds PROVE Watched'
<1>1. /\ UNCHANGED <<main, listener, acc, accL>>
      /\ watcher \in {"waiting", "closing"} /\ watcher' \in {"closing", "exited"}
  BY DEF WatcherFires, WatcherEnds, WatcherGoto, accept
<1>2. TypeOK /\ (listener # 0 => listener \in Gens) /\ (acc = "accept" => accL \in Gens)
  BY DEF EndInv, CloseInv, RefinementInv, SessionInv, TypeOK, OptGen, Gens, TrafficInv,
         TrafficParts, Known
<1>3. listener # 0 => done'[listener]
  <2>1. CASE WatcherFires
    BY <1>2, <2>1 DEF WatcherFires, ClosingStarts, NothingToClose, TypeOK
  <2>2. CASE WatcherEnds
    BY <2>2, DropsClosed DEF WatcherEnds, WatcherGoto, EndInv, CloseInv, TrafficInv, LockInv
  <2> QED
    BY <2>1, <2>2
<1> QED
  BY <1>1, <1>2, <1>3, DoneStays DEF EndInv, Watched, Next

LEMMA WatchedOthers ==
    ASSUME EndInv, [Next]_vars,
           \/ \E p \in Closers : Close(p)
           \/ \E k \in Gens : Keeper(k)
           \/ \E g \in Gens : Gateway(g)
           \/ RunWaited \/ OutsideCall \/ Interrupt
           \/ \E h \in Conns : Handler(h)
           \/ UNCHANGED vars
    PROVE  Watched'
<1> DEFINE Calm == /\ UNCHANGED <<acc, accL, watcher>>
                   /\ main' = main \/ (main = "wait" /\ main' = "close")
<1> USE DEF vars, shared, ssh, start, accept, keepers, handler
<1>1. MutexDiscipline
  BY DEF EndInv, CloseInv, TrafficInv, LockInv
<1>2. ASSUME NEW p \in Closers, Close(p) PROVE Watched'
  <2>1. Calm /\ (listener' = listener \/ (listener' = 0 /\ (NothingToClose \/ cl[p] = "closing")))
    BY <1>2 DEF Close, CloseTwice, CloseFirst, CloseListener, CloseListenerEnds, CloseGrace,
           CloseClient, CloseGoto
  <2> QED
    BY <1>1, <2>1, DropsClosed, WatchedKept DEF NothingToClose
<1>3. ASSUME NEW k \in Gens, Keeper(k) PROVE Watched'
  <2>1. Calm /\ (listener' = listener \/ (listener' = 0 /\ (NothingToClose \/ keep[k] = "closing")))
    BY <1>3 DEF Keeper, KeepStops, KeepTick, KeepPing, KeepPong, KeepFails, KeepTearsDown,
           KeepEnds, KeepGoto
  <2> QED
    BY <1>1, <2>1, DropsClosed, WatchedKept DEF NothingToClose
<1>4. ASSUME NEW g \in Gens, Gateway(g) PROVE Watched'
  BY <1>4, WatchedKept DEF Gateway, GatewayOpens, GatewayHangs, ConnReset, ConnTimesOut,
         GatewayOnly
<1>5. CASE RunWaited \/ OutsideCall \/ Interrupt
  BY <1>5, WatchedKept DEF RunWaited, OutsideCall, Interrupt
<1>6. ASSUME NEW h \in Conns, Handler(h) PROVE Watched'
  BY <1>6, WatchedKept DEF Handler, HandlerDial, HandlerStops, HandlerEOF, HandlerEnds,
         HandlerGoto
<1>7. CASE UNCHANGED vars
  BY <1>7, WatchedKept
<1> QED
  BY <1>2, <1>3, <1>4, <1>5, <1>6, <1>7

LEMMA EndInit == Init => EndInv
<1> SUFFICES ASSUME Init PROVE EndInv
  OBVIOUS
<1>1. Numbered
  BY DEF Init, Numbered, Gens
<1>2. Watched
  BY DEF Init, Watched
<1> QED
  BY <1>1, <1>2, CloseInit DEF EndInv

LEMMA EndStep == EndInv /\ [Next]_vars => EndInv'
<1> SUFFICES ASSUME EndInv, [Next]_vars PROVE EndInv'
  OBVIOUS
<1>1. CloseInv'
  BY CloseStep DEF EndInv
<1>2. Numbered'
  BY NumberedStart, NumberedAcceptLoop, NumberedKeeper, NumberedOthers DEF Next, Terminated
<1>3. Watched'
  BY WatchedStart, WatchedAcceptLoop, WatchedWatcher, WatchedOthers DEF Next, Terminated
<1> QED
  BY <1>1, <1>2, <1>3 DEF EndInv

(* Whoever holds rt.mu only waits for the gateway.                         *)
LEMMA HolderMoves ==
    ASSUME EndInv, locked, \A g \in Gens : conn[g] # "hung"
    PROVE  Ready
<1>1. listener \in Gens /\ InCritical # {}
  BY DEF EndInv, CloseInv, TrafficInv, LockInv, MutexDiscipline, TypeOK, OptGen, Gens
<1>2. Answered(listener)
  BY <1>1 DEF EndInv, Numbered, CloseInv, TrafficInv, TrafficParts, Known, LockInv, TypeOK,
         Answered
<1> QED
  BY <1>1, <1>2 DEF InCritical, Ready, CloserReady, KeeperReady, WatcherReady, AcceptReady

LEMMA EndNeverStuck == EndInv => NeverStuck
<1> SUFFICES ASSUME EndInv, Ending, ~Ready PROVE Deaf
  BY DEF NeverStuck
<1> USE DEF EndInv, CloseInv, CloseParts
<1>1. ~locked /\ cancelled
  BY HolderMoves DEF Ending
<1>2. \A g \in Gens : g <= gen => Answered(g)
  BY DEF Numbered, Ending, Answered, RefinementInv, SessionInv, TypeOK
<1>3. TypeOK /\ (gen # 0 => Answered(gen))
  BY <1>2 DEF RefinementInv, SessionInv, TypeOK, OptGen, Gens
<1>4. main = "wait"
  <2>1. main # "close"
    <3>1. ASSUME main = "close" PROVE CloserReady("main")
      BY <1>1, <1>3, <3>1, UnlockedIsFree DEF CloseOrder, Ending, Ended, CloserReady, Closers,
             TypeOK, TrafficInv, LockInv, Free
    <3> QED
      BY <3>1 DEF Ready, Closers
  <2> QED
    BY <1>3, <2>1 DEF Ending, Ended, Ready, MainReady, Numbered, TypeOK
<1>5. \A k \in Gens : keep[k] \in {"off", "exited"}
  <2> SUFFICES ASSUME NEW k \in Gens PROVE keep[k] \in {"off", "exited"}
    OBVIOUS
  <2>1. keep[k] = "ping" => Answered(keepC[k])
    BY <1>2, <1>3 DEF Numbered, TypeOK, OptGen, Gens
  <2> QED
    BY <1>1, <1>3, <2>1, UnlockedIsFree DEF Ready, KeeperReady, TypeOK, TrafficInv, LockInv,
           Free
<1>6. Live = {}
  <2> SUFFICES ASSUME NEW h \in Live PROVE FALSE
    OBVIOUS
  <2>1. hgen[h] \in Gens /\ hgen[h] <= gen /\ h \in Conns /\ hs[h] \in {"dial", "bridge", "closing"}
    BY <1>3 DEF TrafficInv, TrafficParts, Known, Live, TypeOK, OptGen, Gens
  <2> QED
    BY <1>1, <1>2, <2>1 DEF Ready, HandlerReady
<1>7. acc = "accept"
  <2>1. acc \notin {"off", "exited"}
    BY <1>4, <1>5, <1>6 DEF Ready, MainReady, WaitGroupZero
  <2>2. acc \in {"handshake", "request"} => Answered(gen)
    BY <1>3, <1>4 DEF Numbered
  <2> QED
    BY <1>1, <1>3, <2>1, <2>2, UnlockedIsFree DEF Ready, AcceptReady, Numbered, TypeOK,
           TrafficInv, LockInv, Free
<1>8. ~done[accL] /\ conn[accL] = "up"
  <2>1. accL \in Gens /\ accL <= gen
    BY <1>3, <1>7 DEF TrafficInv, TrafficParts, Known, TypeOK, OptGen, Gens
  <2>2. Answered(accL)
    BY <1>2, <2>1
  <2> QED
    BY <1>7, <2>2 DEF Ready, AcceptReady, Answered
<1>9. watcher = "exited"
  BY <1>1, <1>3, <1>4, UnlockedIsFree DEF Ready, WatcherReady, Watched, TypeOK, TrafficInv,
         LockInv, Free
<1> QED
  BY <1>7, <1>8, <1>9 DEF Deaf

(* A tunnel that was told to end is never stuck while its gateway answers, *)
(* but in one way: the watcher fired while reconnect had no listener, or   *)
(* an old one, to show it, and the accept loop then waits on the new one.  *)
THEOREM ProgressCorrect == Spec => []NeverStuck
BY EndInit, EndStep, EndNeverStuck, PTL DEF Spec

(* Without AutoReconnect there is one listener, and the watcher has closed *)
(* it before it goes: nobody is ever left waiting.                         *)
THEOREM HearingCorrect ==
    ASSUME ~AutoReconnect PROVE Spec => [](Ending => Ready)
<1>1. EndInv => (Ending => Ready)
  <2> SUFFICES ASSUME EndInv, Ending, ~Ready PROVE FALSE
    OBVIOUS
  <2>1. Deaf
    BY EndNeverStuck DEF NeverStuck
  <2>2. ~Deaf
    BY DEF Deaf, EndInv, Watched, CloseInv, TrafficInv, TrafficParts, Known
  <2> QED
    BY <2>1, <2>2
<1> QED
  BY <1>1, EndInit, EndStep, PTL DEF Spec

----------------------------------------------------------------------------
(* What makes the tunnel deal with a lost session, whether or not anybody  *)
(* told it to end: the accept loop sees the loss, and it goes on until it  *)
(* has a new session or has cancelled rt.ctx itself.                       *)
LossMoves ==
    /\ client # 0 /\ conn[client] = "dead" /\ ~Ended
    /\ \A g \in Gens : conn[g] # "hung"
    => Ready

(* The accept loop is there while Run waits, and cancels when it leaves.   *)
Leaves ==
    /\ acc = "exited" => cancelled
    /\ main \in {"wait", "close"} => acc # "off"

LEMMA LeavesStep == ASSUME TypeOK, StartFirst, Leaves, [Next]_vars PROVE Leaves'
<1> USE DEF Leaves, vars, shared, start, accept
<1>1. cancelled => cancelled'
  BY CancelStays
<1>2. CASE Start
  <2>1. acc = "off" /\ main' # "close" /\ (main' = "wait" => acc' = "top")
    BY <1>2 DEF Start, StartDial, StartDialFails, StartHandshake, StartProbe, StartProbed,
           StartRegister, StartRegisterFails, StartListen, StartFails, MainGoto, StartFirst
  <2>2. acc' \in {"off", "top"}
    BY <1>2, <2>1 DEF Start, StartDial, StartDialFails, StartHandshake, StartProbe, StartProbed,
           StartRegister, StartRegisterFails, StartListen, StartFails
  <2> QED
    BY <2>1, <2>2
<1>3. CASE AcceptLoop
  <2>1. acc' # "off" /\ (acc' = "exited" => cancelled')
    BY <1>3 DEF AcceptLoop, AccTop, AccConn, AccFails, AccError, AccTeardown, AccTeardownEnds,
           AccGivesUp, AccDial, AccDialFails, AccHandshake, AccRegister, AccGranted, AccRefused,
           AccInstall, AccSleep, AccGoto, AccExit, DropTunnel
  <2> QED
    BY <2>1
<1>4. ASSUME NEW p \in Closers, Close(p) PROVE UNCHANGED <<acc, main>>
  BY <1>4 DEF Close, CloseTwice, CloseFirst, CloseListener, CloseListenerEnds, CloseGrace,
         CloseClient, CloseGoto
<1>5. CASE RunWaited \/ OutsideCall
  BY <1>5 DEF RunWaited, OutsideCall
<1>6. ASSUME NEW g \in Gens, Gateway(g) PROVE UNCHANGED <<acc, main>>
  BY <1>6 DEF Gateway, GatewayOpens, GatewayHangs, ConnReset, ConnTimesOut, GatewayOnly
<1>7. Bystander => UNCHANGED <<acc, main>>
  BY BystanderLeaves
<1> QED
  BY <1>1, <1>2, <1>3, <1>4, <1>5, <1>6, <1>7 DEF Next, Bystander, Terminated

LossInv == EndInv /\ Leaves

LEMMA LossInit == Init => LossInv
BY EndInit DEF Init, LossInv, Leaves

LEMMA LossStep == LossInv /\ [Next]_vars => LossInv'
BY EndStep, LeavesStep DEF LossInv, EndInv, CloseInv, RefinementInv, SessionInv

(* The loss of the session never leaves the tunnel waiting while the       *)
(* gateway answers: not on the old listener, not for the mutex, not for a  *)
(* goroutine that does not end.                                            *)
THEOREM LossMovesCorrect == Spec => []LossMoves
<1>1. LossInv => LossMoves
  <2> SUFFICES ASSUME LossInv, client # 0, conn[client] = "dead", ~Ended,
                      \A g \in Gens : conn[g] # "hung", ~Ready
               PROVE  FALSE
    BY DEF LossMoves
  <2> USE DEF LossInv, EndInv, CloseInv, RefinementInv, SessionInv
  <2>1. ~locked
    BY HolderMoves
  <2>2. TypeOK /\ \A g \in Gens : g <= gen => Answered(g)
    BY DEF Numbered, Answered, TypeOK
  <2>3. main \in {"wait", "close"}
    BY <2>2 DEF Ended, Ready, MainReady, Numbered, TypeOK, OptGen, Gens
  <2>4. acc = "accept" => conn[accL] = "dead"
    <3> SUFFICES ASSUME acc = "accept" PROVE conn[accL] = "dead"
      OBVIOUS
    <3>1. accL \in Gens /\ accL <= gen
      BY <2>2 DEF TrafficInv, TrafficParts, Known, TypeOK, OptGen, Gens
    <3>2. ~Alive(accL)
      BY <2>3, <3>1 DEF SessionOwned, Dialling, Alive
    <3> QED
      BY <2>2, <3>1, <3>2 DEF Answered, Alive
  <2>5. CASE cancelled
    <3>1. Deaf
      BY <2>5, EndNeverStuck DEF NeverStuck, Ending
    <3> QED
      BY <2>4, <3>1 DEF Deaf
  <2>6. CASE ~cancelled
    <3>1. main = "wait" /\ acc \notin {"off", "exited"}
      BY <2>3, <2>6 DEF Leaves, RunOrder
    <3>2. acc \in {"handshake", "request"} => Answered(gen)
      BY <2>2, <3>1 DEF Numbered, TypeOK, OptGen, Gens
    <3> QED
      BY <2>1, <2>2, <2>4, <3>1, <3>2, UnlockedIsFree DEF Ready, AcceptReady, Numbered, TypeOK,
             TrafficInv, LockInv, Free
  <2> QED
    BY <2>5, <2>6
<1> QED
  BY <1>1, LossInit, LossStep, PTL DEF Spec

=============================================================================
