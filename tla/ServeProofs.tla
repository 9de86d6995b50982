----------------------------- MODULE ServeProofs -----------------------------
(***************************************************************************)
(* Theorems about Serve, for any number of connections, any mode and any   *)
(* amount of output.                                                       *)
(***************************************************************************)
EXTENDS Serve, TLAPS

(* The functions the proofs update, and the modes there are.               *)
Types ==
    /\ mode \in Modes
    /\ mainPC \in {"start", "accept", "serving", "returned"}
    /\ serve \in [Conns -> {"none", "start", "child", "copies"} \cup Results]
    /\ child \in [Conns -> {"none", "running"} \cup Gone]
    /\ outCopy \in [Conns -> {"off", "copying"} \cup Results]
    /\ pipe \in [Conns -> Nat]
    /\ peer \in [Conns -> {"away", "queued", "connected", "ended", "broken"}]

(* Without -k, Run has at most one connection, and serves it itself.       *)
OneAtATime ==
    ~mode.keepOpen =>
        /\ mainPC \in {"start", "accept"} => \A c \in Conns : serve[c] = "none"
        /\ mainPC = "serving" =>
               \A c, d \in Conns : serve[c] # "none" /\ serve[d] # "none" => c = d
        /\ mainPC = "returned" => \A c \in Conns : ~Open(c)
AcceptsTCP ==
    /\ mainPC = "accept" => mode.kind = "listenTCP"
    /\ mainPC = "serving" => ~mode.keepOpen

(* A peer is accepted once.                                                *)
Waiting == {"away", "queued"}
AcceptedOnce == \A c \in Conns : peer[c] \in Waiting => serve[c] = "none"

(* serveConn goes on only when cmd.Wait has the child and both copies.     *)
Collected ==
    \A c \in Conns :
        /\ child[c] = "running" => serve[c] = "child"
        /\ serve[c] = "nil" => child[c] = "ok" /\ outCopy[c] = "nil"
        /\ outCopy[c] = "nil" => pipe[c] = 0

ServedParts == OneAtATime /\ AcceptsTCP /\ AcceptedOnce /\ Collected /\ NilMeansServed
ServeInv == Types /\ ServedParts

LEMMA KeepOpenListens == ASSUME mode \in Modes, mode.kind # "listenTCP" PROVE ~mode.keepOpen
BY DEF Modes

LEMMA ServeInit == Init => ServeInv
<1> SUFFICES ASSUME Init PROVE ServeInv
  OBVIOUS
<1>1. Types
  BY DEF Init, Types, Results, Gone
<1> QED
  BY <1>1 DEF Init, ServeInv, ServedParts, OneAtATime, AcceptsTCP, AcceptedOnce, Collected,
        NilMeansServed, Results

(* Run.                                                                    *)
LEMMA BacklogResetTypes ==
    ASSUME Types
    PROVE  /\ BacklogReset \in [Conns -> {"away", "queued", "connected", "ended", "broken"}]
           /\ \A c \in Conns : BacklogReset[c] \in Waiting => peer[c] \in Waiting
BY DEF BacklogReset, Types, Waiting

LEMMA MainTypes == ASSUME Types, Main PROVE Types'
<1> USE DEF Types, process, copies
<1>1. CASE Listen BY <1>1 DEF Listen
<1>2. CASE StartFails \/ AcceptFails \/ AcceptBreaks
  BY <1>2, BacklogResetTypes DEF StartFails, AcceptFails, AcceptBreaks, Returns
<1>3. CASE WatcherCloses BY <1>3, BacklogResetTypes DEF WatcherCloses
<1>4. ASSUME NEW c \in Conns, Accept(c) \/ ServeOne(c) PROVE Types'
  BY <1>4 DEF Accept, ServeOne
<1>5. ASSUME NEW c \in Conns, ReturnsServed(c) PROVE Types'
  BY <1>5, BacklogResetTypes DEF ReturnsServed, Returns
<1> QED
  BY <1>1, <1>2, <1>3, <1>4, <1>5 DEF Main

LEMMA MainStep == ASSUME ServeInv, Main PROVE ServeInv'
<1> USE DEF ServeInv, ServedParts, process, copies
<1>1. Types'
  BY MainTypes
<1>2. CASE Listen
  BY <1>1, <1>2 DEF Listen, OneAtATime, AcceptsTCP, AcceptedOnce, Collected, NilMeansServed, Open
<1>3. CASE WatcherCloses
  BY <1>1, <1>3, BacklogResetTypes
  DEF WatcherCloses, OneAtATime, AcceptsTCP, AcceptedOnce, Collected, NilMeansServed, Open
<1>4. CASE StartFails \/ AcceptFails \/ AcceptBreaks
  <2>1. /\ mainPC \in {"start", "accept"} /\ mainPC' = "returned"
        /\ UNCHANGED <<mode, cancelled, serve, child, outCopy, pipe>> /\ peer' = BacklogReset
        /\ result' = "error" \/ (cancelled /\ mainPC = "accept")
    BY <1>4 DEF StartFails, AcceptFails, AcceptBreaks, Returns
  <2> QED
    BY <1>1, <2>1, BacklogResetTypes
    DEF OneAtATime, AcceptsTCP, AcceptedOnce, Collected, NilMeansServed, Open
<1>5. ASSUME NEW c \in Conns, Accept(c) \/ ServeOne(c) PROVE ServeInv'
  <2>1. /\ mainPC \in {"start", "accept"}
        /\ serve' = [serve EXCEPT ![c] = "start"]
        /\ peer' = [peer EXCEPT ![c] = "connected"]
        /\ UNCHANGED <<mode, cancelled, child, outCopy, pipe>>
    BY <1>5 DEF Accept, ServeOne
  <2>2. /\ mainPC' = IF mode.keepOpen THEN "accept" ELSE "serving"
        /\ mode.keepOpen => mode.kind = "listenTCP"
    BY <1>5, KeepOpenListens DEF Accept, ServeOne, Types
  <2>3. serve[c] = "none"
    BY <1>5, KeepOpenListens DEF Accept, ServeOne, AcceptedOnce, Waiting, OneAtATime, Types
  <2>4. OneAtATime'
    BY <2>1, <2>2 DEF OneAtATime, Types
  <2>5. Collected' /\ AcceptedOnce'
    BY <2>1, <2>3 DEF Collected, AcceptedOnce, Types, Waiting
  <2> QED
    BY <1>1, <2>1, <2>2, <2>4, <2>5 DEF AcceptsTCP, NilMeansServed
<1>6. ASSUME NEW c \in Conns, ReturnsServed(c) PROVE ServeInv'
  <2>1. /\ mainPC = "serving" /\ serve[c] \in Results /\ mainPC' = "returned"
        /\ result' = serve[c] /\ peer' = BacklogReset
        /\ UNCHANGED <<mode, cancelled, serve, child, outCopy, pipe>>
    BY <1>6 DEF ReturnsServed, Returns, Served
  <2>2. OneAtATime'
    BY <2>1 DEF OneAtATime, Open, Results
  <2>3. NilMeansServed'
    BY <1>6, <2>1 DEF Collected, NilMeansServed
  <2>4. AcceptedOnce'
    BY <2>1, BacklogResetTypes DEF AcceptedOnce
  <2> QED
    BY <1>1, <2>1, <2>2, <2>3, <2>4 DEF AcceptsTCP, Collected
<1> QED
  BY <1>2, <1>3, <1>4, <1>5, <1>6 DEF Main

(* What a step of connection c may do: it leaves the others and Run alone, *)
(* moves serveConn only while Run goes on, and changes nothing of a        *)
(* connection that was served.                                             *)
Moves(c) ==
    /\ UNCHANGED <<mode, cancelled, mainPC, result>>
    /\ \A d \in Conns : peer'[d] \in Waiting => peer[d] \in Waiting
    /\ \A d \in Conns \ {c} : /\ serve'[d] = serve[d] /\ child'[d] = child[d]
                              /\ outCopy'[d] = outCopy[d] /\ pipe'[d] = pipe[d]
    /\ serve'[c] = serve[c] \/ (serve[c] # "none" /\ mainPC # "returned")
    /\ child'[c] = "running" => serve'[c] = "child"
    /\ serve'[c] = "nil" => child'[c] = "ok" /\ outCopy'[c] = "nil"
    /\ outCopy'[c] = "nil" => pipe'[c] = 0
    /\ mainPC = "returned" /\ child[c] = "ok" /\ outCopy[c] = "nil"
           => child'[c] = "ok" /\ outCopy'[c] = "nil"

LEMMA MovesKeep == ASSUME ServeInv, NEW c \in Conns, Moves(c), Types' PROVE ServeInv'
<1> USE DEF ServeInv, ServedParts, Moves
<1>1. OneAtATime'
  BY DEF OneAtATime, Open
<1>2. Collected'
  BY DEF Collected
<1>3. NilMeansServed'
  BY DEF NilMeansServed, Collected
<1>4. AcceptedOnce'
  BY DEF AcceptedOnce
<1> QED
  BY <1>1, <1>2, <1>3, <1>4 DEF AcceptsTCP

LEMMA ServeConnStep ==
    ASSUME ServeInv, NEW c \in Conns,
           Starts(c) \/ StartRefused(c) \/ Kill(c) \/ Reaped(c) \/ Handled(c)
    PROVE  Moves(c) /\ Types'
<1> USE DEF ServeInv, ServedParts, Types, Collected, Moves, Goes, Ends, Results, Gone,
        run, process, copies
<1>1. CASE Starts(c) BY <1>1 DEF Starts
<1>2. CASE StartRefused(c) BY <1>2 DEF StartRefused
<1>3. CASE Kill(c) BY <1>3 DEF Kill
<1>4. CASE Reaped(c) BY <1>4 DEF Reaped
<1>5. CASE Handled(c) BY <1>5 DEF Handled
<1> QED
  BY <1>1, <1>2, <1>3, <1>4, <1>5

LEMMA CopyStep ==
    ASSUME ServeInv, NEW c \in Conns,
           \/ InEOF(c) \/ InFails(c) \/ InNobody(c)
           \/ OutWrites(c) \/ OutEOF(c) \/ OutFails(c)
    PROVE  Moves(c) /\ Types'
<1> USE DEF ServeInv, ServedParts, Types, Collected, Moves, Goes, Results, Gone,
        run, process, copies
<1>1. CASE InEOF(c) \/ InFails(c) \/ InNobody(c)
  BY <1>1 DEF InEOF, InFails, InNobody, InEnds
<1>2. CASE OutWrites(c)
  BY <1>2 DEF OutWrites
<1>3. CASE OutEOF(c) \/ OutFails(c)
  BY <1>3 DEF OutEOF, OutFails, OutEnds
<1> QED
  BY <1>1, <1>2, <1>3

LEMMA WorldStep == ASSUME ServeInv, NEW c \in Conns, World(c) PROVE Moves(c) /\ Types'
<1> USE DEF ServeInv, ServedParts, Types, Collected, Moves, Results, Gone, run, process, copies
<1>1. CASE ChildWrites(c)
  BY <1>1 DEF ChildWrites
<1>2. CASE ChildForks(c) \/ StrayExits(c)
  BY <1>2 DEF ChildForks, StrayExits
<1>3. CASE ChildExits(c)
  BY <1>3 DEF ChildExits
<1>4. CASE PeerConnects(c) \/ PeerEnds(c) \/ PeerResets(c) \/ DeadlinePasses(c)
  BY <1>4 DEF PeerConnects, PeerEnds, PeerResets, DeadlinePasses, Breaks, PeerMoves, Waiting
<1> QED
  BY <1>1, <1>2, <1>3, <1>4 DEF World

LEMMA ServeStep == ServeInv /\ [Next]_vars => ServeInv'
<1> SUFFICES ASSUME ServeInv, [Next]_vars PROVE ServeInv'
  OBVIOUS
<1>1. CASE Cancel
  BY <1>1 DEF Cancel, ServeInv, ServedParts, Types, OneAtATime, AcceptsTCP, AcceptedOnce,
        Collected, NilMeansServed, Open, run, process, copies
<1>2. CASE UNCHANGED vars
  BY <1>2 DEF vars, ServeInv, ServedParts, Types, OneAtATime, AcceptsTCP, AcceptedOnce,
        Collected, NilMeansServed, Open, run, process, copies
<1>3. ASSUME NEW c \in Conns,
             Starts(c) \/ StartRefused(c) \/ Kill(c) \/ InNobody(c) \/ Handle(c) \/ World(c)
      PROVE  ServeInv'
  BY <1>3, ServeConnStep, CopyStep, WorldStep, MovesKeep DEF Handle
<1> QED
  BY <1>1, <1>2, <1>3, MainStep DEF Next, Terminated

(* When Run for one connection returns, the child has been waited for and  *)
(* the connection is closed, whichever of the child, the peer, the         *)
(* deadline and the user came first.                                       *)
THEOREM NothingRunningCorrect == Spec => []NothingRunning
<1>1. ServeInv => NothingRunning
  BY DEF ServeInv, ServedParts, OneAtATime, Collected, NothingRunning, Open
<1> QED
  BY <1>1, ServeInit, ServeStep, PTL DEF Spec

(* Run returns nil for a connection only if its child succeeded and all of *)
(* its output was passed on; a listener that fails is never taken for a    *)
(* cancelled one.                                                          *)
THEOREM NilMeansServedCorrect == Spec => []NilMeansServed
<1>1. ServeInv => NilMeansServed
  BY DEF ServeInv, ServedParts
<1> QED
  BY <1>1, ServeInit, ServeStep, PTL DEF Spec

----------------------------------------------------------------------------
(* What ends Run, and closes its connections.  That a goroutine which can  *)
(* run does is fairness; proved is that there is one, but for the two      *)
(* waits that have no end of their own.                                    *)

(* What Run can do by itself, and what can be done for connection c: the   *)
(* guards of the actions that FairSpec says are taken.                     *)
RunReady ==
    \/ mainPC = "start"
    \/ mainPC = "accept" /\ (cancelled \/ ~listening)
    \/ mainPC = "serving" /\ \E c \in Conns : Served(c)
ConnReady(c) ==
    /\ mainPC # "returned"
    /\ \/ serve[c] = "start"
       \/ serve[c] = "child" /\ (cancelled \/ child[c] \in Gone)
       \/ serve[c] = "copies" /\ inCopy[c] \in Results /\ outCopy[c] \in Results
       \/ inCopy[c] = "copying" /\ peer[c] \in {"ended", "broken"}
       \/ inCopy[c] = "copying" /\ peer[c] = "connected" /\ mode.deadline /\ Open(c)
       \/ outCopy[c] = "copying" /\ (pipe[c] > 0 \/ ~HasReader(c))

(* The two things that hold up a connection whose child has been reaped: a *)
(* descendant that keeps the output pipe, and a peer that neither sends    *)
(* nor goes while there is no deadline.                                    *)
HeldUp(c) ==
    /\ serve[c] = "copies"
    /\ \/ outCopy[c] = "copying" /\ stray[c]
       \/ inCopy[c] = "copying" /\ peer[c] = "connected" /\ ~mode.deadline

(* A cancelled Run can go on, or waits for the connection it serves.       *)
CancelledMoves ==
    cancelled /\ mainPC # "returned" =>
        \/ RunReady
        \/ ~mode.keepOpen /\ \E c \in Conns : ConnReady(c) \/ HeldUp(c)

(* A connection that is not closed yet can go on, unless its child runs or *)
(* it is held up.                                                          *)
ServedMoves ==
    \A c \in Conns : Open(c) /\ mainPC # "returned" =>
        child[c] = "running" \/ ConnReady(c) \/ HeldUp(c)

(* A process that is waited for was started, with both its copies; and Run *)
(* that serves has a connection to serve.                                  *)
Started ==
    \A c \in Conns :
        /\ inCopy[c] \in {"off", "copying"} \cup Results
        /\ serve[c] \in {"none", "start"} => child[c] = "none"
        /\ serve[c] \in {"child", "copies"} =>
               child[c] # "none" /\ inCopy[c] # "off" /\ outCopy[c] # "off"
Busy == mainPC = "serving" => \E c \in Conns : serve[c] # "none"

MoveInv == ServeInv /\ inCopy \in [Conns -> {"off", "copying"} \cup Results] /\ Started /\ Busy
MoveParts == inCopy \in [Conns -> {"off", "copying"} \cup Results] /\ Started /\ Busy

LEMMA MoveInit == Init => MoveInv
<1> SUFFICES ASSUME Init PROVE MoveInv
  OBVIOUS
<1>1. Started /\ Busy
  BY DEF Init, Started, Busy
<1> QED
  BY <1>1, ServeInit DEF MoveInv, Init

LEMMA MoveMain == ASSUME MoveInv, Main PROVE MoveParts'
<1> USE DEF MoveInv, MoveParts, ServeInv, Types, Started, Busy, process, copies
<1>1. ASSUME NEW c \in Conns, Accept(c) \/ ServeOne(c) PROVE MoveParts'
  <2>1. serve[c] = "none"
    BY <1>1, KeepOpenListens
    DEF Accept, ServeOne, ServedParts, AcceptedOnce, Waiting, OneAtATime
  <2> QED
    BY <1>1, <2>1 DEF Accept, ServeOne
<1>2. CASE Listen \/ StartFails \/ WatcherCloses \/ AcceptFails \/ AcceptBreaks
  BY <1>2 DEF Listen, StartFails, WatcherCloses, AcceptFails, AcceptBreaks, Returns
<1>3. ASSUME NEW c \in Conns, ReturnsServed(c) PROVE MoveParts'
  BY <1>3 DEF ReturnsServed, Returns
<1> QED
  BY <1>1, <1>2, <1>3 DEF Main

LEMMA MoveConn ==
    ASSUME MoveInv, NEW c \in Conns,
           Starts(c) \/ StartRefused(c) \/ Kill(c) \/ InNobody(c) \/ Handle(c)
    PROVE  MoveParts'
<1> USE DEF MoveInv, MoveParts, ServeInv, Types, Started, Busy, run, process, copies, Gone, Results
<1>1. CASE Starts(c)
  BY <1>1 DEF Starts
<1>2. CASE StartRefused(c) \/ Handled(c)
  BY <1>2 DEF StartRefused, Handled, Ends
<1>3. CASE Kill(c)
  BY <1>3 DEF Kill
<1>4. CASE Reaped(c)
  BY <1>4 DEF Reaped
<1>5. CASE InEOF(c) \/ InFails(c) \/ InNobody(c)
  BY <1>5 DEF InEOF, InFails, InNobody, InEnds
<1>6. CASE OutWrites(c) \/ OutEOF(c) \/ OutFails(c)
  BY <1>6 DEF OutWrites, OutEOF, OutFails, OutEnds
<1> QED
  BY <1>1, <1>2, <1>3, <1>4, <1>5, <1>6 DEF Handle

LEMMA MoveOthers ==
    ASSUME MoveInv, Cancel \/ (\E c \in Conns : World(c)) \/ UNCHANGED vars
    PROVE  MoveParts'
<1> USE DEF MoveInv, MoveParts, ServeInv, Types, Started, Busy, run, process, copies, vars
<1>1. ASSUME NEW c \in Conns, ChildExits(c) PROVE MoveParts'
  BY <1>1 DEF ChildExits
<1>2. ASSUME NEW c \in Conns, World(c), ~ChildExits(c) PROVE MoveParts'
  <2>1. UNCHANGED <<mainPC, serve, child, inCopy, outCopy>>
    BY <1>2 DEF World, ChildWrites, ChildForks, StrayExits, PeerConnects, PeerEnds, PeerResets,
           DeadlinePasses, Breaks, PeerMoves
  <2> QED
    BY <2>1
<1>3. CASE Cancel \/ UNCHANGED vars
  BY <1>3 DEF Cancel
<1> QED
  BY <1>1, <1>2, <1>3

LEMMA MoveStep == MoveInv /\ [Next]_vars => MoveInv'
<1> SUFFICES ASSUME MoveInv, [Next]_vars PROVE MoveInv'
  OBVIOUS
<1>1. ServeInv'
  BY ServeStep DEF MoveInv
<1>2. MoveParts'
  BY MoveMain, MoveConn, MoveOthers DEF Next, Terminated
<1> QED
  BY <1>1, <1>2 DEF MoveInv, MoveParts

LEMMA MovesOrHeldUp == MoveInv => ServedMoves
<1> SUFFICES ASSUME MoveInv, NEW c \in Conns, Open(c), mainPC # "returned",
                    child[c] # "running", ~ConnReady(c)
             PROVE  HeldUp(c)
  BY DEF ServedMoves
<1> USE DEF MoveInv, ServeInv, Types, Started
<1>1. serve[c] = "copies" /\ child[c] \in Gone
  BY DEF Open, ConnReady, Gone, Results
<1>2. outCopy[c] = "copying" => stray[c]
  BY <1>1 DEF ConnReady, HasReader
<1>3. inCopy[c] = "copying" => peer[c] = "connected" /\ ~mode.deadline
  BY <1>1 DEF ConnReady, Open, ServedParts, AcceptedOnce, Waiting
<1>4. inCopy[c] = "copying" \/ outCopy[c] = "copying"
  BY <1>1 DEF ConnReady, Results
<1> QED
  BY <1>1, <1>2, <1>3, <1>4 DEF HeldUp

(* Once its child has exited a connection can be brought to its end, or it *)
(* waits for one of the two that nobody makes go: cmd.Wait never waits for *)
(* a copy that has ended, nor a copy for a child that is gone.             *)
THEOREM ServedMovesCorrect == Spec => []ServedMoves
BY MoveInit, MoveStep, MovesOrHeldUp, PTL DEF Spec

(* A cancelled Run is never stuck on its own account, wherever the         *)
(* cancellation met it: listening, accepting, or serving a connection.     *)
THEOREM CancelledMovesCorrect == Spec => []CancelledMoves
<1>1. MoveInv => CancelledMoves
  <2> SUFFICES ASSUME MoveInv, cancelled, mainPC # "returned", ~RunReady
               PROVE  ~mode.keepOpen /\ \E c \in Conns : ConnReady(c) \/ HeldUp(c)
    BY DEF CancelledMoves
  <2> USE DEF MoveInv, ServeInv, Types
  <2>1. mainPC = "serving" /\ ~mode.keepOpen
    BY DEF RunReady, ServedParts, AcceptsTCP
  <2>2. PICK c \in Conns : serve[c] # "none"
    BY <2>1 DEF Busy
  <2>3. Open(c)
    BY <2>1, <2>2 DEF RunReady, Served, Open
  <2>4. child[c] = "running" => ConnReady(c)
    BY <2>1 DEF ConnReady, ServedParts, Collected
  <2> QED
    BY <2>1, <2>3, <2>4, MovesOrHeldUp DEF ServedMoves
<1> QED
  BY <1>1, MoveInit, MoveStep, PTL DEF Spec

=============================================================================
