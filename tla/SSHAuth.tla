------------------------------- MODULE SSHAuth -------------------------------
(***************************************************************************)
(* How a session with an SSH gateway is logged into (tunnel/auth.go):      *)
(* SSHTunnel.Connect and dialSSH build the authentication methods and the  *)
(* host-key callback from the options Startup has collected, dial, and     *)
(* leave the handshake to golang.org/x/crypto/ssh.                         *)
(*                                                                         *)
(* The files, the agent, the terminal, the gateway and its key are chosen  *)
(* where they are looked at; one key file stands for the three names that  *)
(* are tried by default.  --known-hosts names the file and is left out.    *)
(***************************************************************************)
EXTENDS Startup

VARIABLES
    step,     \* the next step of Connect, or how it ended
    methods,  \* the authentication methods, by what they present
    trusted,  \* the gateway's host key was found in known_hosts
    offered,  \* the methods the gateway has been shown
    listed,   \* the kinds that, by its last answer, can continue the login
    tried     \* the kinds it has refused

login == <<offered, listed, tried>>
authVars == <<step, methods, trusted, login>>

AuthInit ==
    /\ Init /\ step = "off" /\ methods = << >> /\ trusted = FALSE
    /\ offered = {} /\ listed = {} /\ tried = {}

NeedsSSH ==
    /\ phase = "running"
    /\ \/ mode.kind = "reverse"
       \/ mode.kind \in {"connect", "scan"} /\ mode.dialer = "ssh"

(* buildReverseTunnel allows keyboard-interactive, buildDialer does not. *)
AllowKeyboardInteractive == mode.kind = "reverse"

AuthStep(from, to) == step = from /\ step' = to /\ UNCHANGED vars

----------------------------------------------------------------------------
(* What was asked for, in the order in which it is looked at. *)
Explicit ==
    (IF cfg.keyPath THEN <<"key">> ELSE << >>)
    \o (IF cfg.agent THEN <<"agent">> ELSE << >>)
    \o (IF cfg.password THEN <<"password">> ELSE << >>)

(* The agent if there is one, and every default key file that can be read. *)
DefaultAuthMethods == {<< >>, <<"agent">>, <<"identity">>, <<"agent", "identity">>}

(* Mutant: the defaults are added to what was asked for. *)
MutCollected == {Explicit \o d : d \in DefaultAuthMethods}
Collected == IF Explicit # << >> THEN {Explicit} ELSE DefaultAuthMethods

BuildAuthMethods ==
    /\ NeedsSSH
    /\ \E c \in Collected :
          methods' = IF AllowKeyboardInteractive THEN Append(c, "interactive") ELSE c
    /\ AuthStep("off", IF methods' = << >> THEN "failed" ELSE "hostkeys")
    /\ UNCHANGED <<trusted, login>>

(* A key that cannot be read, no agent, no terminal: there is no fallback. *)
ExplicitFails ==
    /\ NeedsSSH /\ Explicit # << >> /\ AuthStep("off", "failed")
    /\ UNCHANGED <<methods, trusted, login>>

(* hostKeyCallback: known_hosts cannot be read, or all is well so far. *)
HostKeyCallback ==
    /\ \/ AuthStep("hostkeys", "dial")
       \/ cfg.strict /\ AuthStep("hostkeys", "failed")
    /\ UNCHANGED <<methods, trusted, login>>

(* The TCP dial and the key exchange, which calls the callback. *)
KeyExchange ==
    /\ AuthStep("dial", "none")
    /\ trusted' \in IF cfg.strict THEN {TRUE} ELSE BOOLEAN
    /\ UNCHANGED <<methods, login>>
NoSession == AuthStep("dial", "failed") /\ UNCHANGED <<methods, trusted, login>>

----------------------------------------------------------------------------
(* The login, as the library does it (clientAuthenticate): "none" first,   *)
(* then always the first method of our list whose kind has not been        *)
(* refused and is among those the gateway lists in its last answer.  With  *)
(* a partial success a kind is not refused, so that it may be tried again. *)

Kind(m) == IF m \in {"key", "agent", "identity"} THEN "publickey" ELSE m
OurKinds == {Kind(methods[i]) : i \in DOMAIN methods}

(* The gateway is content, or its answer lists other kinds (those we have  *)
(* no method for make no difference).                                      *)
Answer(from) ==
    \/ AuthStep(from, "up") /\ UNCHANGED listed
    \/ AuthStep(from, "login") /\ listed' \in SUBSET OurKinds

TryNone == Answer("none") /\ UNCHANGED <<methods, trusted, offered, tried>>

Eligible == {i \in DOMAIN methods : Kind(methods[i]) \in listed \ tried}

Offer ==
    /\ \E i \in Eligible :
          /\ \A j \in Eligible : i <= j
          /\ offered' = offered \cup {methods[i]}
          /\ tried' \in {tried, tried \cup {Kind(methods[i])}}
    /\ Answer("login")
    /\ UNCHANGED <<methods, trusted>>

NoneLeft ==
    Eligible = {} /\ AuthStep("login", "refused") /\ UNCHANGED <<methods, trusted, login>>

(* The gateway disconnects, or the connection is lost. *)
LoginBreaks ==
    \E from \in {"none", "login"} :
        AuthStep(from, "failed") /\ UNCHANGED <<methods, trusted, login>>

Authenticate ==
    \/ BuildAuthMethods \/ ExplicitFails \/ HostKeyCallback
    \/ KeyExchange \/ NoSession \/ TryNone \/ Offer \/ NoneLeft \/ LoginBreaks

AuthNext == (Next /\ UNCHANGED authVars) \/ Authenticate

AuthSpec == AuthInit /\ [][AuthNext]_<<vars, authVars>>

----------------------------------------------------------------------------
(* From the command line and the environment to what the gateway gets to   *)
(* see, whatever it lists and however often it asks for more.  A flag that *)
(* asks for a credential excludes all that was not asked for; the empty    *)
(* answers of keyboard-interactive are for reverse tunnels; with           *)
(* --strict-hostkey on the command line nothing is offered to a host that  *)
(* is not known, whatever the environment sets.                            *)
CredentialsAsConfigured ==
    LET Asked(f) == f \in DOMAIN flags /\ flags[f] IN
    /\ Asked("keyPath") \/ Asked("agent") \/ Asked("password")
          => /\ "identity" \notin offered
             /\ "agent" \in offered => cfg.agent
    /\ "interactive" \in offered => cfg.reverseSpec # ""
    /\ Asked("strict") /\ offered # {} => trusted

=============================================================================
