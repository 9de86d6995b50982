-------------------------------- MODULE Serve --------------------------------
(***************************************************************************)
(* ListenMode.Run and ConnectMode.Run with the exec capability: the accept *)
(* loop and its watcher, serveConn, and Exec.Handle on top of os/exec,     *)
(* which runs one goroutine that copies the connection to the child's      *)
(* stdin and one that copies its output to the connection, and waits for   *)
(* the child first and for both goroutines then.                           *)
(*                                                                         *)
(* Output is counted in pieces that wait in the child's pipe; what the     *)
(* peer sends is seen only in the moment it wakes the stdin goroutine.     *)
(***************************************************************************)
EXTENDS Naturals

CONSTANTS
    Conns,      \* the connections peers may open; UDP and connect use one
    MaxOutput   \* bound: pieces of output in the pipe at a time

ASSUME ServeAssumption == MaxOutput \in Nat

(* A listening -u or a connect ignores -k; -w is a connection's deadline   *)
(* in listen mode only.                                                    *)
Modes ==
    [kind : {"listenTCP"}, keepOpen : BOOLEAN, deadline : BOOLEAN]
    \cup [kind : {"listenUDP"}, keepOpen : {FALSE}, deadline : BOOLEAN]
    \cup [kind : {"connectTCP", "connectUDP"}, keepOpen : {FALSE}, deadline : {FALSE}]

VARIABLES
    mode,
    cancelled,  \* ctx is done
    mainPC,     \* where Run is
    result,     \* what Run returned
    listening,  \* ln is open
    peer,       \* each peer: away, in the backlog, connected, has ended
                \* its stream; or the connection is broken: reset, or past
                \* its deadline
    serve,      \* where serveConn is; its last value is its result
    child,      \* the process
    stray,      \* a descendant of it holds the pipes, too
    pipe,       \* output that waits in the pipe
    inCopy,     \* the goroutine that copies to the child's stdin
    outCopy     \* the goroutine that copies its output

run     == <<mainPC, result, listening>>
process == <<child, stray, pipe>>
copies  == <<inCopy, outCopy>>
vars    == <<mode, cancelled, run, peer, serve, process, copies>>

Stream    == mode.kind \in {"listenTCP", "connectTCP"}
Gone      == {"ok", "failed"}
Results   == {"nil", "error"}
Served(c) == serve[c] \in Results
Open(c)   == serve[c] \in {"start", "child", "copies"}

Init ==
    /\ mode \in Modes /\ cancelled = FALSE
    /\ mainPC = "start" /\ result = "none" /\ listening = FALSE
    /\ peer = [c \in Conns |-> "away"]
    /\ serve = [c \in Conns |-> "none"]
    /\ child = [c \in Conns |-> "none"] /\ stray = [c \in Conns |-> FALSE]
    /\ pipe = [c \in Conns |-> 0]
    /\ inCopy = [c \in Conns |-> "off"] /\ outCopy = [c \in Conns |-> "off"]

----------------------------------------------------------------------------
(* Run                                                                     *)

(* A closed listener resets what waits in its backlog. *)
BacklogReset == [c \in Conns |-> IF peer[c] = "queued" THEN "broken" ELSE peer[c]]

(* Run returns r; the deferred ln.Close, or dialer.Close, is done. *)
Returns(r) ==
    /\ mainPC' = "returned" /\ result' = r
    /\ listening' = FALSE /\ peer' = BacklogReset
    /\ UNCHANGED <<mode, cancelled, serve, process, copies>>

Listen ==
    /\ mode.kind = "listenTCP" /\ mainPC = "start"
    /\ mainPC' = "accept" /\ listening' = TRUE
    /\ UNCHANGED <<mode, cancelled, result, peer, serve, process, copies>>

(* The address cannot be listened on, or the dial fails. *)
StartFails == mainPC = "start" /\ Returns("error")

(* The goroutine <-ctx.Done(); ln.Close(). *)
WatcherCloses ==
    /\ cancelled /\ listening
    /\ listening' = FALSE /\ peer' = BacklogReset
    /\ UNCHANGED <<mode, cancelled, mainPC, result, serve, process, copies>>

(* Mutant: the connection is served by a goroutine without -k, too, and    *)
(* nobody waits for it.                                                    *)
MutAccept(c) ==
    /\ mainPC = "accept" /\ listening /\ peer[c] = "queued"
    /\ peer' = [peer EXCEPT ![c] = "connected"]
    /\ serve' = [serve EXCEPT ![c] = "start"]
    /\ mainPC' = IF mode.keepOpen THEN "accept" ELSE "returned"
    /\ result' = IF mode.keepOpen THEN "none" ELSE "nil"
    /\ UNCHANGED <<mode, cancelled, listening, process, copies>>
(* With -k the connection gets a goroutine; otherwise Run serves it.       *)
Accept(c) ==
    /\ mainPC = "accept" /\ listening /\ peer[c] = "queued"
    /\ peer' = [peer EXCEPT ![c] = "connected"]
    /\ serve' = [serve EXCEPT ![c] = "start"]
    /\ mainPC' = IF mode.keepOpen THEN "accept" ELSE "serving"
    /\ UNCHANGED <<mode, cancelled, result, listening, process, copies>>

(* Accept fails: behind the watcher, or for want of a descriptor. *)
AcceptFails ==
    /\ mainPC = "accept" /\ ~listening
    /\ Returns(IF cancelled THEN "nil" ELSE "error")
AcceptBreaks ==
    /\ mainPC = "accept" /\ listening
    /\ Returns(IF cancelled THEN "nil" ELSE "error")

(* listenUDP serves its socket, connect what it dialled. *)
ServeOne(c) ==
    /\ mode.kind # "listenTCP" /\ mainPC = "start"
    /\ mode.kind # "listenUDP" => ~cancelled
    /\ mainPC' = "serving"
    /\ peer' = [peer EXCEPT ![c] = "connected"]
    /\ serve' = [serve EXCEPT ![c] = "start"]
    /\ UNCHANGED <<mode, cancelled, result, listening, process, copies>>

ReturnsServed(c) == mainPC = "serving" /\ Served(c) /\ Returns(serve[c])

Main ==
    \/ Listen \/ StartFails \/ WatcherCloses \/ AcceptFails \/ AcceptBreaks
    \/ \E c \in Conns : Accept(c) \/ ServeOne(c) \/ ReturnsServed(c)

----------------------------------------------------------------------------
(* serveConn and Exec.Handle for connection c.  When Run has returned with *)
(* -k, main returns and cuts its goroutines off.                           *)

Goes(c) == mainPC # "returned"

Starts(c) ==
    /\ Goes(c) /\ serve[c] = "start" /\ ~cancelled
    /\ serve' = [serve EXCEPT ![c] = "child"]
    /\ child' = [child EXCEPT ![c] = "running"]
    /\ inCopy' = [inCopy EXCEPT ![c] = "copying"]
    /\ outCopy' = [outCopy EXCEPT ![c] = "copying"]
    /\ UNCHANGED <<mode, cancelled, run, peer, stray, pipe>>

(* The deferred conn.Close, and the end of serveConn with result r. *)
Ends(c, r) ==
    /\ serve' = [serve EXCEPT ![c] = r]
    /\ UNCHANGED <<mode, cancelled, run, peer, process, copies>>

(* ctx is done already, or there is no such program. *)
StartRefused(c) == Goes(c) /\ serve[c] = "start" /\ Ends(c, "error")

(* Mutant: exec.Command, without the context. *)
MutKill(c) == FALSE /\ UNCHANGED vars
(* os/exec's goroutine kills the child, not its descendants. *)
Kill(c) ==
    /\ Goes(c) /\ cancelled /\ serve[c] = "child" /\ child[c] = "running"
    /\ child' = [child EXCEPT ![c] = "failed"]
    /\ UNCHANGED <<mode, cancelled, run, peer, serve, stray, pipe, copies>>

Reaped(c) ==
    /\ Goes(c) /\ serve[c] = "child" /\ child[c] \in Gone
    /\ serve' = [serve EXCEPT ![c] = "copies"]
    /\ UNCHANGED <<mode, cancelled, run, peer, process, copies>>

(* Mutant: only the child is waited for. *)
MutHandled(c) ==
    /\ Goes(c) /\ serve[c] = "copies"
    /\ Ends(c, IF child[c] = "ok" THEN "nil" ELSE "error")
(* cmd.Wait has both goroutines, and returns the first error. *)
Handled(c) ==
    /\ Goes(c) /\ serve[c] = "copies" /\ inCopy[c] \in Results /\ outCopy[c] \in Results
    /\ Ends(c, IF child[c] = "ok" /\ inCopy[c] = "nil" /\ outCopy[c] = "nil"
               THEN "nil" ELSE "error")

----------------------------------------------------------------------------
(* os/exec's copying goroutines: connection to stdin.                      *)

Broken(c) == peer[c] = "broken"
HasReader(c) == child[c] = "running" \/ stray[c]

InEnds(c, r) ==
    /\ Goes(c) /\ inCopy[c] = "copying" /\ inCopy' = [inCopy EXCEPT ![c] = r]
    /\ UNCHANGED <<mode, cancelled, run, peer, serve, process, outCopy>>

InEOF(c)   == peer[c] = "ended" /\ ~Broken(c) /\ InEnds(c, "nil")
InFails(c) == Broken(c) /\ InEnds(c, "error")
(* The peer sends, and the write finds no reader, which is no error. *)
InNobody(c) == peer[c] = "connected" /\ ~Broken(c) /\ ~HasReader(c) /\ InEnds(c, "nil")

(* ... and output to connection.  The socket of listenUDP has no peer it   *)
(* could write to.                                                         *)
OutEnds(c, r) ==
    /\ Goes(c) /\ outCopy[c] = "copying" /\ outCopy' = [outCopy EXCEPT ![c] = r]
    /\ UNCHANGED <<mode, cancelled, run, peer, serve, process, inCopy>>

OutWrites(c) ==
    /\ Goes(c) /\ outCopy[c] = "copying" /\ pipe[c] > 0
    /\ ~Broken(c) /\ mode.kind # "listenUDP"
    /\ pipe' = [pipe EXCEPT ![c] = @ - 1]
    /\ UNCHANGED <<mode, cancelled, run, peer, serve, child, stray, copies>>
OutEOF(c)   == pipe[c] = 0 /\ ~HasReader(c) /\ OutEnds(c, "nil")
OutFails(c) == pipe[c] > 0 /\ (Broken(c) \/ mode.kind = "listenUDP") /\ OutEnds(c, "error")

Handle(c) == Reaped(c) \/ Handled(c) \/ InEOF(c) \/ InFails(c) \/ OutWrites(c) \/ OutEOF(c)
             \/ OutFails(c)

----------------------------------------------------------------------------
(* The child, its descendants, the peers, the clock and the user.          *)

ChildWrites(c) ==
    /\ HasReader(c) /\ pipe[c] < MaxOutput /\ outCopy[c] = "copying"
    /\ pipe' = [pipe EXCEPT ![c] = @ + 1]
    /\ UNCHANGED <<mode, cancelled, run, peer, serve, child, stray, copies>>
ChildForks(c) ==
    /\ child[c] = "running" /\ ~stray[c] /\ stray' = [stray EXCEPT ![c] = TRUE]
    /\ UNCHANGED <<mode, cancelled, run, peer, serve, child, pipe, copies>>
StrayExits(c) ==
    /\ stray[c] /\ stray' = [stray EXCEPT ![c] = FALSE]
    /\ UNCHANGED <<mode, cancelled, run, peer, serve, child, pipe, copies>>
ChildExits(c) ==
    /\ child[c] = "running"
    /\ \E s \in {"ok", "failed"} : child' = [child EXCEPT ![c] = s]
    /\ UNCHANGED <<mode, cancelled, run, peer, serve, stray, pipe, copies>>

PeerMoves(c, from, to) ==
    /\ peer[c] = from /\ peer' = [peer EXCEPT ![c] = to]
    /\ UNCHANGED <<mode, cancelled, run, serve, process, copies>>
PeerConnects(c) == listening /\ PeerMoves(c, "away", "queued")
PeerEnds(c)     == Stream /\ Open(c) /\ PeerMoves(c, "connected", "ended")
Breaks(c)       == Open(c) /\ \E from \in {"connected", "ended"} : PeerMoves(c, from, "broken")
PeerResets(c)   == Breaks(c)
DeadlinePasses(c) == mode.deadline /\ Breaks(c)

Cancel ==
    /\ ~cancelled /\ cancelled' = TRUE
    /\ UNCHANGED <<mode, run, peer, serve, process, copies>>

World(c) ==
    \/ ChildWrites(c) \/ ChildForks(c) \/ StrayExits(c) \/ ChildExits(c)
    \/ PeerConnects(c) \/ PeerEnds(c) \/ PeerResets(c) \/ DeadlinePasses(c)

Terminated == mainPC = "returned" /\ UNCHANGED vars

Next ==
    \/ Main \/ Cancel \/ Terminated
    \/ \E c \in Conns : Starts(c) \/ StartRefused(c) \/ Kill(c) \/ InNobody(c)
                        \/ Handle(c) \/ World(c)

Spec == Init /\ [][Next]_vars

(* Goroutines run, the killer among them, and deadlines pass.  Nothing is  *)
(* asked of a peer or of the child: a peer may stay silent for ever, and   *)
(* the child and what it has forked may run for ever.                      *)
FairSpec ==
    /\ Spec
    /\ WF_vars(WatcherCloses) /\ WF_vars(AcceptFails)
    /\ WF_vars(Listen \/ StartFails \/ \E c \in Conns : ServeOne(c))
    /\ \A c \in Conns :
          /\ WF_vars(ReturnsServed(c)) /\ WF_vars(Starts(c) \/ StartRefused(c))
          /\ WF_vars(Kill(c)) /\ WF_vars(Handle(c)) /\ WF_vars(DeadlinePasses(c))

----------------------------------------------------------------------------
(* Run for one connection leaves nothing behind, however it ends: the      *)
(* child is gone and waited for, and the connection is closed.             *)
NothingRunning ==
    mainPC = "returned" /\ ~mode.keepOpen =>
        \A c \in Conns : child[c] # "running" /\ ~Open(c)

(* Run returns nil only if it was cancelled while listening or if the      *)
(* child succeeded and all its output is on its way to the peer: a broken  *)
(* connection or a failed child never passes for success.                  *)
NilMeansServed ==
    mainPC = "returned" /\ result = "nil" =>
        \/ cancelled /\ mode.kind = "listenTCP"
        \/ \E c \in Conns : child[c] = "ok" /\ pipe[c] = 0 /\ outCopy[c] = "nil"

(* A cancellation ends Run: at once with -k, and otherwise when the        *)
(* deadline has released the goroutines, unless a descendant of the child  *)
(* holds on to the output pipe.                                            *)
StopsOnCancel ==
    cancelled /\ (mode.keepOpen \/ mode.deadline)
        ~> mainPC = "returned" \/ (~mode.keepOpen /\ \E c \in Conns : stray[c])


=============================================================================
