------------------------------- MODULE Relay -------------------------------
(***************************************************************************)
(* util.BidirectionalCopy, the relay between a connection and stdin/stdout *)
(* (capability.Relay): one goroutine copies network to writer, one copies  *)
(* reader to network, and the caller waits for its context, closes the     *)
(* connection and collects both.  Data is counted in chunks.               *)
(***************************************************************************)
EXTENDS Naturals, Sequences

CONSTANTS
    ConnKinds,  \* the connection is "tcp", a *net.TCPConn, or a "channel" of
                \* an SSH tunnel
    Deadline,   \* serveConn has set a deadline on a TCP connection (-w)
    EndErrors,  \* what reading r and writing w can fail with: a terminal or a
                \* file is "broken", an io.Pipe of an embedding program is
                \* closed at its other end, "pipe"
    PeerKinds,  \* a "sending" peer sends when it likes; a "waiting" one
                \* answers once it has seen the end of our data
    Chunks      \* bound: chunks either side sends

ASSUME RelayAssumption ==
    /\ ConnKinds \subseteq {"tcp", "channel"} /\ Deadline \in BOOLEAN /\ Chunks \in Nat
    /\ EndErrors \subseteq {"broken", "pipe"} /\ EndErrors # {}
    /\ PeerKinds \subseteq {"sending", "waiting"}

VARIABLES
    connKind,   \* what conn is
    cancelled,  \* the caller's context is done
    stop,       \* the relay's own context is done (cancel was called)
    connOpen,   \* conn has not been closed here
    answered,   \* the SSH gateway has answered our close of the channel
    timedOut,   \* the connection's deadline has passed
    peer,       \* the peer sends, waits for our end, answers, has ended its
                \* stream, or is gone: the TCP connection was reset; the
                \* gateway closed the channel or the session was lost
    sent, got,  \* chunks the peer sent; chunks written to w
    typed,      \* chunks r has delivered
    delivered,  \* chunks written to conn
    input,      \* r has more data (or nothing, yet), is at EOF, or fails
    output,     \* w takes data (or does not, yet), or fails
    netPC, inPC, mainPC,  \* where the goroutines are
    finSent,    \* CloseWrite was called
    errCh       \* the results of the two copies, in order

outside == <<connKind, cancelled, answered, timedOut, peer, sent, input, output>>
inside  == <<stop, connOpen, got, typed, delivered, netPC, inPC, mainPC, finSent, errCh>>
vars    == <<outside, inside>>

Init ==
    /\ connKind \in ConnKinds /\ cancelled = FALSE /\ stop = FALSE
    /\ connOpen = TRUE /\ answered = FALSE /\ timedOut = FALSE
    /\ peer \in PeerKinds /\ sent = 0 /\ got = 0
    /\ typed = 0 /\ delivered = 0 /\ input = "open" /\ output = "open"
    /\ netPC = "read" /\ inPC = "read" /\ mainPC = "wait"
    /\ finSent = FALSE /\ errCh = << >>

(* Mutant: any error but a reset is harmless. *)
MutHarmless(e) == e # "reset"
(* isHarmless: io.EOF, a closed connection and a closed io.Pipe are. *)
Harmless(e) == e \in {"nil", "eof", "closed", "pipe"}

OverSSH == connKind = "channel"

(* Data that has arrived can be read.  An SSH channel hands it out even    *)
(* after our own Close.                                                    *)
CanRead  == OverSSH \/ (connOpen /\ ~timedOut)
CanWrite == connOpen /\ ~timedOut /\ peer # "gone"

(* What a blocked or new operation on a TCP connection fails with. *)
TCPErrors ==
    (IF ~connOpen THEN {"closed"} ELSE {})
    \cup (IF connOpen /\ timedOut THEN {"timeout"} ELSE {})
    \cup (IF connOpen /\ peer = "gone" THEN {"reset"} ELSE {})

(* A channel that is gone, or whose close was answered, reads as EOF, for  *)
(* which io.Copy has no error; our own Close does not wake the reader.     *)
ReadErrors ==
    IF ~OverSSH THEN TCPErrors
    ELSE IF peer = "gone" \/ answered THEN {"nil"} ELSE {}

(* Writing to a closed channel is io.EOF; while the loss of the session is *)
(* still to be noticed, it is the transport's error.                       *)
WriteErrors ==
    IF ~OverSSH THEN TCPErrors
    ELSE (IF ~connOpen \/ peer = "gone" THEN {"eof"} ELSE {})
         \cup (IF peer = "gone" THEN {"reset"} ELSE {})

----------------------------------------------------------------------------
(* network -> writer *)

NetEnds(e) ==
    /\ netPC' = "ended"
    /\ errCh' = Append(errCh, e)
    /\ stop' = TRUE
    /\ UNCHANGED <<outside, connOpen, got, typed, delivered, inPC, mainPC, finSent>>

NetRead ==
    /\ netPC = "read" /\ CanRead /\ got < sent
    /\ netPC' = "write"
    /\ UNCHANGED <<outside, stop, connOpen, got, typed, delivered, inPC, mainPC,
                   finSent, errCh>>

NetWrite ==
    /\ netPC = "write" /\ output = "open"
    /\ got' = got + 1 /\ netPC' = "read"
    /\ UNCHANGED <<outside, stop, connOpen, typed, delivered, inPC, mainPC, finSent, errCh>>

NetEOF == netPC = "read" /\ CanRead /\ peer = "ended" /\ got = sent /\ NetEnds("nil")

NetFails == netPC = "read" /\ \E e \in ReadErrors : NetEnds(e)

NetWriteFails == netPC = "write" /\ output = "broken" /\ \E e \in EndErrors : NetEnds(e)

----------------------------------------------------------------------------
(* reader -> network *)

InEnds(e, cancel) ==
    /\ inPC' = "ended"
    /\ errCh' = Append(errCh, e)
    /\ stop' = (stop \/ cancel)
    /\ finSent' = (finSent \/ (~OverSSH /\ connOpen))
    /\ UNCHANGED <<outside, connOpen, got, typed, delivered, netPC, mainPC>>

InRead ==
    /\ inPC = "read" /\ input = "open" /\ typed < Chunks
    /\ typed' = typed + 1 /\ inPC' = "write"
    /\ UNCHANGED <<outside, stop, connOpen, got, delivered, netPC, mainPC, finSent, errCh>>

InWrite ==
    /\ inPC = "write" /\ CanWrite
    /\ delivered' = delivered + 1 /\ inPC' = "read"
    /\ UNCHANGED <<outside, stop, connOpen, got, typed, netPC, mainPC, finSent, errCh>>

(* Mutant: the end of the input tears the connection down. *)
MutInEOF == inPC = "read" /\ input = "eof" /\ InEnds("nil", TRUE)
(* Mutant: the end of the input is not passed on. *)
MutInEOFSilent ==
    /\ inPC = "read" /\ input = "eof" /\ inPC' = "ended"
    /\ errCh' = Append(errCh, "nil")
    /\ UNCHANGED <<outside, stop, connOpen, got, typed, delivered, netPC, mainPC, finSent>>

(* EOF of the input half-closes and leaves the other direction running; a  *)
(* failed read or write ends the relay.                                    *)
InEOF       == inPC = "read" /\ input = "eof" /\ InEnds("nil", FALSE)
InReadFails == inPC = "read" /\ input = "broken" /\ \E e \in EndErrors : InEnds(e, TRUE)
InFails     == inPC = "write" /\ \E e \in WriteErrors : InEnds(e, TRUE)

----------------------------------------------------------------------------
(* Mutant: the caller does not close the connection. *)
MutStops ==
    /\ mainPC = "wait" /\ (stop \/ cancelled)
    /\ mainPC' = "collect"
    /\ UNCHANGED <<outside, stop, connOpen, got, typed, delivered, netPC, inPC, finSent, errCh>>

(* The caller: <-ctx.Done(), conn.Close(), wg.Wait(). *)
Stops ==
    /\ mainPC = "wait" /\ (stop \/ cancelled)
    /\ mainPC' = "collect" /\ connOpen' = FALSE
    /\ UNCHANGED <<outside, stop, got, typed, delivered, netPC, inPC, finSent, errCh>>

Returns ==
    /\ mainPC = "collect" /\ netPC = "ended" /\ inPC = "ended"
    /\ mainPC' = "returned"
    /\ UNCHANGED <<outside, stop, connOpen, got, typed, delivered, netPC, inPC, finSent, errCh>>

(* What it returns: the first error in errCh that is not harmless. *)
Result ==
    LET bad == {i \in DOMAIN errCh : ~Harmless(errCh[i])} IN
    IF bad = {} THEN "nil" ELSE errCh[CHOOSE i \in bad : \A j \in bad : i <= j]

----------------------------------------------------------------------------
(* The outside: the peer, the gateway, the user at both ends, the caller.  *)

PeerSends ==
    /\ peer \in {"sending", "answering"} /\ sent < Chunks
    /\ sent' = sent + 1
    /\ UNCHANGED <<inside, connKind, cancelled, answered, timedOut, peer, input, output>>
PeerMoves(to) ==
    /\ peer' = to
    /\ UNCHANGED <<inside, connKind, cancelled, answered, timedOut, sent, input, output>>
PeerHears   == peer = "waiting" /\ finSent /\ PeerMoves("answering")
PeerEnds    == peer = "sending" /\ PeerMoves("ended")
PeerAnswers == peer = "answering" /\ PeerMoves("ended")
PeerGoes    == connOpen /\ peer # "gone" /\ PeerMoves("gone")
(* The gateway's answer to our close, or the loss of the session. *)
GatewayAnswers ==
    /\ OverSSH /\ ~connOpen /\ ~answered /\ answered' = TRUE
    /\ UNCHANGED <<inside, connKind, cancelled, timedOut, peer, sent, input, output>>
InputTurns(to) ==
    /\ input = "open" /\ input' = to
    /\ UNCHANGED <<inside, connKind, cancelled, answered, timedOut, peer, sent, output>>
InputEnds   == InputTurns("eof")
InputBreaks == InputTurns("broken")
OutputBreaks ==
    /\ output = "open" /\ output' = "broken"
    /\ UNCHANGED <<inside, connKind, cancelled, answered, timedOut, peer, sent, input>>
Cancel ==
    /\ ~cancelled /\ cancelled' = TRUE
    /\ UNCHANGED <<inside, connKind, answered, timedOut, peer, sent, input, output>>
DeadlinePasses ==
    /\ Deadline /\ ~OverSSH /\ ~timedOut /\ timedOut' = TRUE
    /\ UNCHANGED <<inside, connKind, cancelled, answered, peer, sent, input, output>>

Terminated == mainPC = "returned" /\ UNCHANGED vars

Net  == NetRead \/ NetWrite \/ NetEOF \/ NetFails \/ NetWriteFails
In   == InRead \/ InWrite \/ InEOF \/ InReadFails \/ InFails
Main == Stops \/ Returns
Outside ==
    \/ PeerSends \/ PeerHears \/ PeerEnds \/ PeerAnswers \/ PeerGoes \/ GatewayAnswers
    \/ InputEnds \/ InputBreaks \/ OutputBreaks \/ Cancel \/ DeadlinePasses

Next == Net \/ In \/ Main \/ Outside \/ Terminated

Spec == Init /\ [][Next]_vars

(* The relay's goroutines run.  A read of r and a write to w take as long  *)
(* as the user likes, for ever included: neither is fair, nor is the end   *)
(* of the input.  The peer takes our data, and one that waits for its end  *)
(* then answers; one that merely sends owes us nothing, not even its end.  *)
(* The gateway answers a close, or TCP gives it up.                        *)
FairSpec ==
    /\ Spec /\ WF_vars(Main)
    /\ WF_vars(NetRead \/ NetEOF \/ NetFails \/ NetWriteFails)
    /\ WF_vars(InWrite) /\ WF_vars(InEOF \/ InReadFails) /\ WF_vars(InFails)
    /\ WF_vars(PeerHears) /\ WF_vars(PeerAnswers) /\ WF_vars(GatewayAnswers)

----------------------------------------------------------------------------
(* r or w was an io.Pipe closed at its other end: whoever did it knows. *)
PipeClosed == \E i \in DOMAIN errCh : errCh[i] = "pipe"

(* A relay that returns nil although nobody cancelled it has written       *)
(* everything the peer sent: closing our side first, a connection that     *)
(* broke or an output that failed never passes for a complete transfer.    *)
(* Over SSH a channel that is gone does: the library reports it as EOF.    *)
NoSilentTruncation ==
    mainPC = "returned" /\ Result = "nil" /\ ~cancelled
        => \/ peer \in {"ended", "gone"} /\ got = sent
           \/ OverSSH /\ peer = "gone"
           \/ PipeClosed

(* Input that was read but not written is lost without an error only when  *)
(* the peer had finished, the relay was cancelled or its pipe was closed.  *)
NoSilentInputLoss ==
    mainPC = "returned" /\ Result = "nil" /\ delivered < typed
        => peer \in {"ended", "gone"} \/ cancelled \/ PipeClosed

(* A write to w, which nobody can interrupt. *)
OutputHolds == netPC = "write" /\ output = "open"
(* A read of r likewise, with everything else of the relay over. *)
InputHolds ==
    /\ mainPC = "collect" /\ ~connOpen /\ netPC = "ended"
    /\ inPC = "read" /\ input = "open"

(* Once its context is cancelled or the peer is through, the relay returns *)
(* with both goroutines, or it is held up for good by its own output, or   *)
(* by its input when nothing else of it is left.  (The comments at         *)
(* io.go:14 and relay.go:14 promise the return without these exceptions.)  *)
RelayReturns ==
    cancelled \/ peer \in {"ended", "gone"}
        ~> \/ mainPC = "returned"
           \/ [](OutputHolds \/ InputHolds)

(* A request from a file or a pipe over TCP, to a peer that answers once   *)
(* it has seen the end of the request, runs to completion if the output    *)
(* lets it.  Only a *net.TCPConn is half-closed.                           *)
ExchangeCompletes ==
    ~OverSSH /\ input = "eof" /\ peer \in {"waiting", "answering"}
        ~> mainPC = "returned" \/ []OutputHolds

=============================================================================
