----------------------------- MODULE RelayProofs -----------------------------
(***************************************************************************)
(* Theorems about Relay, for any amount of data, any peer, both kinds of   *)
(* connection, and any input and output.                                   *)
(***************************************************************************)
EXTENDS Relay, TLAPS

Errors == {"nil", "eof", "closed", "pipe", "timeout", "reset", "broken"}

(* The two goroutines send one result each, so the channel of two that     *)
(* BidirectionalCopy makes never holds one of them up.                     *)
OneResultEach ==
    /\ errCh \in Seq(Errors)
    /\ Len(errCh) = (IF netPC = "ended" THEN 1 ELSE 0) + (IF inPC = "ended" THEN 1 ELSE 0)

Bad == \E i \in DOMAIN errCh : ~Harmless(errCh[i])

(* The network side has seen the peer's end and has passed on everything.  *)
Complete == netPC = "ended" /\ peer \in {"ended", "gone"} /\ got = sent

(* The SSH channel was gone before the relay closed it.                    *)
Lost == OverSSH /\ peer = "gone"

Reason == cancelled \/ Bad \/ Complete \/ Lost \/ PipeClosed

(* Why a relay ends.  The errors that isHarmless drops come from the       *)
(* relay's own Close, and that has a better reason already, from an SSH    *)
(* channel that is gone, or from an io.Pipe.                               *)
ReasonToEnd ==
    /\ stop => Reason
    /\ ~connOpen => stop \/ cancelled
    /\ answered => ~connOpen
    /\ netPC = "ended" => stop
    /\ mainPC = "returned" => netPC = "ended"

RelayInv == OneResultEach /\ ReasonToEnd

LEMMA ErrorsAre ==
    /\ ReadErrors \subseteq Errors /\ WriteErrors \subseteq Errors
    /\ EndErrors \subseteq Errors
BY RelayAssumption DEF ReadErrors, WriteErrors, TCPErrors, Errors, RelayAssumption

(* What a goroutine that ends adds to errCh.                               *)
LEMMA Appended ==
    ASSUME errCh \in Seq(Errors), NEW e \in Errors, errCh' = Append(errCh, e)
    PROVE  /\ errCh' \in Seq(Errors) /\ Len(errCh') = Len(errCh) + 1
           /\ Bad' <=> Bad \/ ~Harmless(e)
           /\ PipeClosed' <=> PipeClosed \/ e = "pipe"
<1>1. /\ errCh' \in Seq(Errors) /\ Len(errCh') = Len(errCh) + 1
      /\ \A i \in 1..Len(errCh) : errCh'[i] = errCh[i]
      /\ errCh'[Len(errCh) + 1] = e
  OBVIOUS
<1>2. DOMAIN errCh = 1..Len(errCh) /\ DOMAIN errCh' = 1..Len(errCh')
  BY <1>1
<1>3. DOMAIN errCh' = DOMAIN errCh \cup {Len(errCh) + 1}
  BY <1>1, <1>2
<1>4. Bad' <=> Bad \/ ~Harmless(e)
  BY <1>1, <1>2, <1>3 DEF Bad, Harmless
<1>5. PipeClosed' <=> PipeClosed \/ e = "pipe"
  BY <1>1, <1>2, <1>3 DEF PipeClosed
<1> QED
  BY <1>1, <1>4, <1>5

LEMMA RelayInit == Init => RelayInv
BY DEF Init, RelayInv, OneResultEach, ReasonToEnd, Errors

(* A copy that fails brings a reason to end, or finds one already.         *)
LEMMA ConnFailureHasReason ==
    ASSUME RelayInv, NEW e \in ReadErrors \cup WriteErrors
    PROVE  ~Harmless(e) \/ Reason
<1>1. CASE ~connOpen
  BY <1>1 DEF RelayInv, ReasonToEnd, Reason
<1>2. CASE connOpen /\ ~OverSSH
  BY <1>2 DEF ReadErrors, WriteErrors, TCPErrors, Harmless
<1>3. CASE connOpen /\ OverSSH
  BY <1>3 DEF RelayInv, ReasonToEnd, ReadErrors, WriteErrors, Reason, Lost
<1> QED
  BY <1>1, <1>2, <1>3

LEMMA EndFailureHasReason == \A e \in EndErrors : ~Harmless(e) \/ e = "pipe"
BY RelayAssumption DEF RelayAssumption, Harmless

LEMMA NetStep == ASSUME RelayInv, Net PROVE RelayInv'
<1> USE DEF RelayInv, outside, OverSSH
<1>1. CASE NetRead
  BY <1>1 DEF NetRead, OneResultEach, ReasonToEnd, Reason, Bad, Complete, Lost, PipeClosed
<1>2. CASE NetWrite
  BY <1>2 DEF NetWrite, OneResultEach, ReasonToEnd, Reason, Bad, Complete, Lost, PipeClosed
<1>3. ASSUME NEW e \in Errors, NetEnds(e), netPC # "ended",
             ~Harmless(e) \/ e = "pipe" \/ Reason \/ Complete'
      PROVE  RelayInv'
  <2>1. /\ netPC # "ended" /\ netPC' = "ended" /\ stop'
        /\ UNCHANGED <<connKind, cancelled, answered, peer, got, sent, connOpen, inPC, mainPC>>
        /\ errCh' = Append(errCh, e)
    BY <1>3 DEF NetEnds
  <2>2. OneResultEach'
    BY <2>1, Appended DEF OneResultEach
  <2>3. /\ Bad' <=> Bad \/ ~Harmless(e)
        /\ PipeClosed' <=> PipeClosed \/ e = "pipe"
    BY <2>1, Appended DEF OneResultEach
  <2>4. Reason'
    BY <1>3, <2>1, <2>3 DEF Reason, Complete, Lost
  <2> QED
    BY <2>1, <2>2, <2>4 DEF ReasonToEnd
<1>4. CASE NetEOF
  <2>1. NetEnds("nil") /\ netPC # "ended" /\ Complete'
    BY <1>4 DEF NetEOF, NetEnds, Complete
  <2> QED
    BY <1>3, <2>1 DEF Errors
<1>5. CASE NetFails
  BY <1>3, <1>5, ConnFailureHasReason, ErrorsAre DEF NetFails
<1>6. CASE NetWriteFails
  BY <1>3, <1>6, EndFailureHasReason, ErrorsAre DEF NetWriteFails
<1> QED
  BY <1>1, <1>2, <1>4, <1>5, <1>6 DEF Net

LEMMA InStep == ASSUME RelayInv, In PROVE RelayInv'
<1> USE DEF RelayInv, outside, OverSSH
<1>1. CASE InRead \/ InWrite
  BY <1>1 DEF InRead, InWrite, OneResultEach, ReasonToEnd, Reason, Bad, Complete, Lost,
              PipeClosed
<1>2. ASSUME NEW e \in Errors, NEW cancel \in BOOLEAN, InEnds(e, cancel), inPC # "ended",
             cancel => ~Harmless(e) \/ e = "pipe" \/ Reason
      PROVE  RelayInv'
  <2>1. /\ inPC # "ended" /\ inPC' = "ended" /\ stop' = (stop \/ cancel)
        /\ UNCHANGED <<connKind, cancelled, answered, peer, got, sent, connOpen, netPC, mainPC>>
        /\ errCh' = Append(errCh, e)
    BY <1>2 DEF InEnds
  <2>2. OneResultEach'
    BY <2>1, Appended DEF OneResultEach
  <2>3. /\ Bad' <=> Bad \/ ~Harmless(e)
        /\ PipeClosed' <=> PipeClosed \/ e = "pipe"
    BY <2>1, Appended DEF OneResultEach
  <2>4. stop' => Reason'
    BY <1>2, <2>1, <2>3 DEF ReasonToEnd, Reason, Complete, Lost
  <2> QED
    BY <2>1, <2>2, <2>4 DEF ReasonToEnd
<1>3. CASE InEOF
  BY <1>2, <1>3 DEF InEOF, Errors
<1>4. CASE InReadFails
  BY <1>2, <1>4, EndFailureHasReason, ErrorsAre DEF InReadFails
<1>5. CASE InFails
  BY <1>2, <1>5, ConnFailureHasReason, ErrorsAre DEF InFails
<1> QED
  BY <1>1, <1>3, <1>4, <1>5 DEF In

(* The caller closes the connection only when there is a reason to.        *)
LEMMA MainStep == ASSUME RelayInv, Main PROVE RelayInv'
<1> USE DEF RelayInv, outside, OneResultEach, ReasonToEnd, Reason, Bad, Complete, Lost,
            PipeClosed, OverSSH
<1>1. CASE Stops
  BY <1>1 DEF Stops
<1>2. CASE Returns
  BY <1>2 DEF Returns
<1> QED
  BY <1>1, <1>2 DEF Main

(* A peer that has ended sends no more, and one that is gone stays so.     *)
LEMMA OutsideStep == ASSUME RelayInv, Outside \/ UNCHANGED vars PROVE RelayInv'
<1>1. /\ UNCHANGED inside /\ (cancelled => cancelled') /\ (Complete => Complete')
      /\ Lost => Lost'
      /\ answered' => answered \/ ~connOpen
  BY DEF Outside, PeerSends, PeerHears, PeerEnds, PeerAnswers, PeerGoes, PeerMoves,
        GatewayAnswers, InputEnds, InputBreaks, InputTurns, OutputBreaks, Cancel,
        DeadlinePasses, vars, outside, inside, Complete, Lost, OverSSH
<1> QED
  BY <1>1 DEF RelayInv, OneResultEach, ReasonToEnd, Reason, Bad, PipeClosed, inside

LEMMA RelayStep == RelayInv /\ [Next]_vars => RelayInv'
BY NetStep, InStep, MainStep, OutsideStep DEF Next, Terminated

(* The error that comes first in errCh is never a harmless one if any is.  *)
LEMMA NilResult == ASSUME OneResultEach, Result = "nil" PROVE ~Bad
<1> DEFINE bad == {i \in DOMAIN errCh : ~Harmless(errCh[i])}
<1> SUFFICES ASSUME Bad PROVE FALSE
  OBVIOUS
<1>1. bad \subseteq {1, 2} /\ bad # {}
  BY DEF OneResultEach, Bad
<1>2. \E i \in bad : \A j \in bad : i <= j
  BY <1>1
<1>3. (CHOOSE i \in bad : \A j \in bad : i <= j) \in bad
  BY <1>2
<1> QED
  BY <1>1, <1>3 DEF Result, Harmless

(* A relay that returns nil was cancelled, has passed on all that the peer *)
(* sent, or lost it in one of the two ways the code cannot tell from an    *)
(* end: an SSH channel that is gone, a pipe that is closed.  An error of   *)
(* the relay's own making never hides any other, in whichever order the    *)
(* two copies fail.                                                        *)
THEOREM TruncationCorrect == Spec => []NoSilentTruncation
<1>1. RelayInv => NoSilentTruncation
  BY NilResult DEF RelayInv, ReasonToEnd, Reason, Complete, Lost, NoSilentTruncation
<1> QED
  BY <1>1, RelayInit, RelayStep, PTL DEF Spec

(* Input that was read and not written is lost only together with an       *)
(* error, with the peer's own end, or with a pipe that is closed.          *)
THEOREM InputLossCorrect == Spec => []NoSilentInputLoss
<1>1. RelayInv => NoSilentInputLoss
  BY NilResult DEF RelayInv, ReasonToEnd, Reason, Complete, Lost, NoSilentInputLoss
<1> QED
  BY <1>1, RelayInit, RelayStep, PTL DEF Spec

----------------------------------------------------------------------------
(* What is left of RelayReturns without fairness: once there is a reason   *)
(* to end, somebody can move until the relay has returned, unless one of   *)
(* those it waits for holds it up; and once a TCP connection is closed it  *)
(* takes only a few steps more.                                            *)

(* Some goroutine of the relay can take a step with nobody's help.         *)
Ready ==
    \/ netPC = "read" /\ ReadErrors # {}
    \/ netPC = "read" /\ CanRead /\ (got < sent \/ (peer = "ended" /\ got = sent))
    \/ netPC = "write" /\ output = "broken"
    \/ inPC = "read" /\ input \in {"eof", "broken"}
    \/ inPC = "write" /\ ReadErrors # {}  \* what ends a blocked read ends a blocked write
    \/ mainPC = "wait" /\ (stop \/ cancelled)
    \/ mainPC = "collect" /\ netPC = "ended" /\ inPC = "ended"

(* It is inside a write to w, or it has closed its connection and is       *)
(* inside a read of r, or the gateway has yet to answer that close.        *)
HeldUp ==
    \/ OutputHolds
    \/ /\ mainPC = "collect" /\ ~connOpen
       /\ \/ inPC = "read" /\ input = "open"
          \/ OverSSH /\ ~answered /\ (netPC = "read" \/ inPC = "write")

WaitsOnlyForOthers ==
    (cancelled \/ peer \in {"ended", "gone"}) /\ mainPC # "returned" => Ready \/ HeldUp

(* Where the three goroutines and the data can be.                         *)
Places ==
    /\ netPC \in {"read", "write", "ended"} /\ inPC \in {"read", "write", "ended"}
    /\ mainPC \in {"wait", "collect", "returned"}
    /\ input \in {"open", "eof", "broken"} /\ output \in {"open", "broken"}
    /\ sent \in Nat /\ got \in 0..sent
    /\ netPC = "write" => got < sent
    /\ mainPC = "wait" => connOpen
    /\ mainPC # "wait" => ~connOpen
    /\ netPC = "ended" => stop

LEMMA PlacesStep == Places /\ [Next]_vars => Places'
<1> SUFFICES ASSUME Places, [Next]_vars PROVE Places'
  OBVIOUS
<1> USE DEF Places, outside, inside
<1>1. CASE Net
  <2>1. CASE NetRead \/ NetWrite
    BY <2>1 DEF NetRead, NetWrite
  <2>2. ASSUME NEW e, NetEnds(e) PROVE Places'
    BY <2>2 DEF NetEnds
  <2> QED
    BY <1>1, <2>1, <2>2 DEF Net, NetEOF, NetFails, NetWriteFails
<1>2. CASE In
  <2>1. CASE InRead \/ InWrite
    BY <2>1 DEF InRead, InWrite
  <2>2. ASSUME NEW e, NEW cancel \in BOOLEAN, InEnds(e, cancel) PROVE Places'
    <3>1. /\ inPC' = "ended" /\ UNCHANGED <<input, output, sent, got, netPC, mainPC, connOpen>>
          /\ stop' = (stop \/ cancel)
      BY <2>2 DEF InEnds
    <3>2. stop => stop'
      BY <3>1
    <3> QED
      BY <3>1, <3>2
  <2> QED
    BY <1>2, <2>1, <2>2 DEF In, InEOF, InReadFails, InFails
<1>3. CASE Main
  <2>1. CASE Stops
    BY <2>1 DEF Stops
  <2>2. CASE Returns
    BY <2>2 DEF Returns
  <2> QED
    BY <1>3, <2>1, <2>2 DEF Main
<1>4. CASE Outside
  BY <1>4 DEF Outside, PeerSends, PeerHears, PeerEnds, PeerAnswers, PeerGoes, PeerMoves,
              GatewayAnswers, InputEnds, InputBreaks, InputTurns, OutputBreaks, Cancel,
              DeadlinePasses
<1>5. CASE UNCHANGED vars
  BY <1>5 DEF vars
<1> QED
  BY <1>1, <1>2, <1>3, <1>4, <1>5 DEF Next, Terminated

(* A relay that is cancelled or whose peer is through can always move, or  *)
(* it is held up by its output, by its input when the connection is closed *)
(* already, or by the gateway's answer to that: its own three goroutines   *)
(* never wait for each other.                                              *)
THEOREM ProgressCorrect == Spec => []WaitsOnlyForOthers
<1>1. Init => Places
  BY DEF Init, Places
<1>2. Places => WaitsOnlyForOthers
  <2> SUFFICES ASSUME Places, cancelled \/ peer \in {"ended", "gone"}, mainPC # "returned",
                      ~Ready, ~OutputHolds
               PROVE  HeldUp
    BY DEF WaitsOnlyForOthers, HeldUp
  <2>1. netPC # "write"
    BY DEF Places, Ready, OutputHolds
  <2>2. ReadErrors = {} => CanRead \/ ~connOpen
    BY DEF ReadErrors, TCPErrors, CanRead
  <2>3. connOpen /\ peer = "gone" => ReadErrors # {}
    BY DEF ReadErrors, TCPErrors
  <2>4. ~connOpen /\ ReadErrors = {} => OverSSH /\ ~answered
    BY DEF ReadErrors, TCPErrors
  <2>5. CASE netPC = "read"
    <3>1. ReadErrors = {}
      BY <2>5 DEF Ready
    <3>2. mainPC # "wait"
      <4> SUFFICES ASSUME mainPC = "wait" PROVE FALSE
        OBVIOUS
      <4>1. connOpen /\ ~cancelled
        BY DEF Places, Ready
      <4>2. peer = "ended" /\ CanRead
        BY <2>2, <2>3, <3>1, <4>1
      <4> QED
        BY <2>5, <4>2 DEF Ready, Places
    <3> QED
      BY <2>4, <2>5, <3>1, <3>2 DEF Places, HeldUp
  <2>6. CASE netPC = "ended"
    <3>1. mainPC = "collect" /\ ~connOpen
      BY <2>6 DEF Places, Ready
    <3>2. CASE inPC = "read"
      BY <3>1, <3>2 DEF Places, Ready, HeldUp
    <3>3. CASE inPC = "write"
      BY <2>4, <3>1, <3>3 DEF Ready, HeldUp
    <3> QED
      BY <2>6, <3>1, <3>2, <3>3 DEF Places, Ready
  <2> QED
    BY <2>1, <2>5, <2>6 DEF Places
<1> QED
  BY <1>1, <1>2, PlacesStep, PTL DEF Spec

(* How many steps the three goroutines have left on a closed connection.   *)
StepsLeft ==
    (IF netPC = "write" THEN 2 ELSE IF netPC = "read" THEN 1 ELSE 0)
    + (IF inPC = "read" THEN 2 ELSE IF inPC = "write" THEN 1 ELSE 0)
    + (IF mainPC = "wait" THEN 2 ELSE IF mainPC = "collect" THEN 1 ELSE 0)

(* Behind a closed TCP connection a relay's goroutines only lose steps.    *)
(* (An SSH channel hands out what has arrived even after our Close.)       *)
WindsDown == [][ ~connOpen /\ ~OverSSH =>
                     /\ StepsLeft \in 0..6 /\ ~connOpen'
                     /\ (UNCHANGED inside \/ StepsLeft' < StepsLeft) ]_vars

(* Once the relay has closed its TCP connection, each of its steps is one  *)
(* of the few it has left, however much the peer sends and the input holds. *)
THEOREM WindDownCorrect == Spec => WindsDown
<1>1. Init => Places
  BY DEF Init, Places
<1>2. Places /\ [Next]_vars =>
        [~connOpen /\ ~OverSSH =>
             /\ StepsLeft \in 0..6 /\ ~connOpen'
             /\ (UNCHANGED inside \/ StepsLeft' < StepsLeft)]_vars
  <2> SUFFICES ASSUME Places, Next, ~connOpen, ~OverSSH
               PROVE  /\ StepsLeft \in 0..6 /\ ~connOpen'
                      /\ (UNCHANGED inside \/ StepsLeft' < StepsLeft)
    OBVIOUS
  <2>1. ~CanRead /\ ~CanWrite
    BY DEF CanRead, CanWrite
  <2>2. StepsLeft \in 0..6
    BY DEF StepsLeft
  <2>3. CASE Net
    <3>1. CASE NetRead \/ NetWrite
      BY <2>1, <2>2, <3>1 DEF NetRead, NetWrite, StepsLeft, Places
    <3>2. ASSUME NEW e, NetEnds(e), netPC # "ended"
          PROVE  ~connOpen' /\ StepsLeft' < StepsLeft
      BY <3>2 DEF NetEnds, StepsLeft, Places
    <3> QED
      BY <2>2, <2>3, <3>1, <3>2 DEF Net, NetEOF, NetFails, NetWriteFails
  <2>4. CASE In
    <3>1. CASE InRead \/ InWrite
      BY <2>1, <2>2, <3>1 DEF InRead, InWrite, StepsLeft, Places
    <3>2. ASSUME NEW e, NEW cancel, InEnds(e, cancel), inPC # "ended"
          PROVE  ~connOpen' /\ StepsLeft' < StepsLeft
      BY <3>2 DEF InEnds, StepsLeft, Places
    <3> QED
      BY <2>2, <2>4, <3>1, <3>2 DEF In, InEOF, InReadFails, InFails
  <2>5. CASE Main
    BY <2>2, <2>5 DEF Main, Stops, Returns, StepsLeft, Places
  <2>6. CASE Outside \/ Terminated
    BY <2>2, <2>6 DEF Outside, PeerSends, PeerHears, PeerEnds, PeerAnswers, PeerGoes, PeerMoves,
                      GatewayAnswers, InputEnds, InputBreaks, InputTurns, OutputBreaks, Cancel,
                      DeadlinePasses, Terminated, vars, outside, inside
  <2> QED
    BY <2>3, <2>4, <2>5, <2>6 DEF Next
<1> QED
  BY <1>1, <1>2, PlacesStep, PTL DEF Spec, WindsDown

=============================================================================
