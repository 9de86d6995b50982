------------------------------ MODULE Startup ------------------------------
(***************************************************************************)
(* From an invocation to a running mode: cmd.Execute overlays environment  *)
(* and flags, resolves the tunnel specs and the positional arguments,      *)
(* config.Validate checks the result, and core.Build picks the mode.       *)
(*                                                                         *)
(* A value is "" or 0 when it is not set, as in Config; a flag or variable *)
(* that was not given is absent from its record.  Hosts are "" | "name" |  *)
(* "ip", a tunnel spec is "" | "good" | "bad", a port argument is its      *)
(* range <<start, end>>, and MaxPort stands for 65535.                     *)
(***************************************************************************)
EXTENDS Integers, Sequences

CONSTANTS
    Envs,       \* the environments: records with some of Config's fields
    FlagSets,   \* the command lines' flags, likewise
    Arguments,  \* the positional arguments: [host, ports]
    MaxPort     \* the largest port

(* A Config's fields.  Those that flags and variables set, by type; -h is  *)
(* no field.                                                               *)
Switches ==
    {"listen", "udp", "zeroIO", "noDNS", "execute", "command", "dryRun",
     "keyPath", "password", "agent", "strict"}
Numbers == {"localPort", "remotePort", "timeout"}
Specs   == {"tunnelSpec", "reverseSpec"}
Hosts   == {"", "name", "ip"}

FieldType(f) ==
    CASE f \in Switches \cup {"tunnel", "reverse"} -> BOOLEAN
      [] f \in Numbers -> Int
      [] f \in Specs   -> {"", "good", "bad"}
      [] f = "host"    -> Hosts
      [] f = "port"    -> 0..MaxPort
      [] f = "ports"   -> SUBSET (1..MaxPort)
WellTyped(r) == \A f \in DOMAIN r \ {"help"} : r[f] \in FieldType(f)

ASSUME StartupAssumption ==
    /\ MaxPort \in Nat \ {0}
    /\ \A r \in Envs \cup FlagSets : WellTyped(r)
    /\ \A r \in Envs : DOMAIN r \subseteq Switches \cup Numbers \cup Specs \cup {"host"}
    /\ \A r \in FlagSets : DOMAIN r \subseteq Switches \cup Numbers \cup Specs \cup {"help"}
    /\ Arguments \subseteq [host : Hosts, ports : Seq(Int \X Int)]

Defaults ==
    [host |-> "", port |-> 0, ports |-> {}, localPort |-> 0, listen |-> FALSE,
     udp |-> FALSE, zeroIO |-> FALSE, noDNS |-> FALSE, timeout |-> 0,
     execute |-> FALSE, command |-> FALSE, dryRun |-> FALSE,
     tunnelSpec |-> "", tunnel |-> FALSE,
     reverseSpec |-> "", reverse |-> FALSE, remotePort |-> 0,
     keyPath |-> FALSE, password |-> FALSE, agent |-> FALSE, strict |-> FALSE]

VARIABLES
    env, flags, args,  \* the invocation
    cfg,               \* the Config
    phase,             \* the next step of Execute, or how it ended
    mode               \* what Build returned

invocation == <<env, flags, args>>
vars == <<env, flags, args, cfg, phase, mode>>

NoMode == [kind |-> "none"]

Init ==
    /\ env \in Envs /\ flags \in FlagSets /\ args \in Arguments
    /\ cfg = Defaults /\ phase = "environment" /\ mode = NoMode

Go(p) == phase' = p /\ UNCHANGED <<invocation, mode>>
Stop(p) == Go(p) /\ UNCHANGED cfg

(* r's fields over c's *)
Overlay(r, c) == [f \in DOMAIN c |-> IF f \in DOMAIN r THEN r[f] ELSE c[f]]

----------------------------------------------------------------------------
(* Environment and flags *)

(* Only set, non-zero and true variables reach the Config. *)
LoadFromEnv ==
    /\ phase = "environment"
    /\ cfg' = Overlay(env, cfg)
    /\ Go("flags")

(* --help, or nothing at all on the command line: print the usage. *)
UsageOnly ==
    "help" \in DOMAIN flags \/ (DOMAIN flags = {} /\ args.host = "" /\ args.ports = << >>)

(* Mutant: a flag does not override the environment. *)
MutParseFlags ==
    /\ phase = "flags"
    /\ cfg' = Overlay(env, Overlay(flags, cfg))
    /\ Go(IF UsageOnly THEN "usage" ELSE "reverse")
(* Flags are parsed into the same Config; -w goes through timeoutSec, and  *)
(* only a positive one is stored.                                          *)
ParseFlags ==
    /\ phase = "flags"
    /\ LET parsed == Overlay(flags, cfg) IN
       cfg' = IF parsed.timeout > 0 THEN parsed ELSE [parsed EXCEPT !.timeout = cfg.timeout]
    /\ Go(IF UsageOnly THEN "usage" ELSE "reverse")

----------------------------------------------------------------------------
(* -R implies -l, and the local port defaults to the remote one. *)

ReverseGiven ==
    /\ phase = "reverse" /\ cfg.reverseSpec = "good"
    /\ cfg' = [cfg EXCEPT !.reverse = TRUE, !.listen = TRUE,
               !.localPort = IF @ = 0 /\ cfg.remotePort > 0 THEN cfg.remotePort ELSE @]
    /\ Go("positional")
ReverseAbsent == phase = "reverse" /\ cfg.reverseSpec = "" /\ Stop("positional")
ReverseBad    == phase = "reverse" /\ cfg.reverseSpec = "bad" /\ Stop("rejected")

----------------------------------------------------------------------------
(* Positional arguments *)

InRange(p) == p \in 1..MaxPort

(* ParsePortSpec: an inclusive range within the ports. *)
ParsePortSpec(r) == r[1] >= 1 /\ r[2] <= MaxPort /\ r[1] <= r[2]
PortsParse == \A i \in DOMAIN args.ports : ParsePortSpec(args.ports[i])
AllPorts == UNION {args.ports[i][1]..args.ports[i][2] : i \in DOMAIN args.ports}

(* Listen mode takes at most a host and a port. *)
ListenPositional ==
    /\ phase = "positional" /\ cfg.listen
    /\ \/ /\ Len(args.ports) <= 1 /\ PortsParse
          /\ cfg' = [cfg EXCEPT
                       !.host = IF args.host = "" THEN @ ELSE args.host,
                       !.port = IF args.ports = << >> THEN @ ELSE args.ports[1][1]]
          /\ Go("tunnel")
       \/ (Len(args.ports) > 1 \/ ~PortsParse) /\ Stop("rejected")

(* Mutant: ports are not checked against their range. *)
MutPortsUsable == args.host # "" /\ args.ports # << >>
PortsUsable == args.host # "" /\ args.ports # << >> /\ PortsParse

(* Connect and scan need both; the first port is the destination. *)
ConnectPositional ==
    /\ phase = "positional" /\ ~cfg.listen
    /\ \/ /\ PortsUsable
          /\ cfg' = [cfg EXCEPT !.host = args.host, !.port = args.ports[1][1],
                                !.ports = AllPorts]
          /\ Go("tunnel")
       \/ ~PortsUsable /\ Stop("rejected")

TunnelGiven ==
    /\ phase = "tunnel" /\ cfg.tunnelSpec = "good"
    /\ cfg' = [cfg EXCEPT !.tunnel = TRUE]
    /\ Go("validate")
TunnelAbsent == phase = "tunnel" /\ cfg.tunnelSpec = "" /\ Stop("validate")
TunnelBad    == phase = "tunnel" /\ cfg.tunnelSpec = "bad" /\ Stop("rejected")

----------------------------------------------------------------------------
(* config.Validate: the errors in the order of the code. *)

ListenErrors(c) ==
    c.listen /\ (c.localPort = 0 \/ c.zeroIO \/ c.tunnel)
TargetErrors(c) ==
    ~c.listen /\ ~c.reverse /\ (c.host = "" \/ (c.port = 0 /\ c.ports = {}))
(* Execute's -R handling is there to keep Validate from this one. *)
ReverseWithoutListen(c) == c.reverse /\ ~c.listen
ReverseErrors(c) ==
    c.reverse /\ (~InRange(c.remotePort) \/ c.tunnel \/ c.udp)
(* Mutant: nobody looks at UDP and a tunnel. *)
MutOtherErrors(c) == c.execute /\ c.command
OtherErrors(c) == (c.execute /\ c.command) \/ (c.udp /\ c.tunnel)

Invalid(c) ==
    ListenErrors(c) \/ TargetErrors(c) \/ ReverseWithoutListen(c) \/ ReverseErrors(c)
    \/ OtherErrors(c)

ValidateFails ==
    /\ phase = "validate" /\ Invalid(cfg)
    /\ Stop(IF ReverseWithoutListen(cfg) THEN "internal error" ELSE "rejected")
Validated ==
    /\ phase = "validate" /\ ~Invalid(cfg)
    /\ Stop(IF cfg.dryRun THEN "dry run" ELSE "build")

----------------------------------------------------------------------------
(* core.Build *)

DialerOf(c) == IF c.tunnel THEN "ssh" ELSE IF c.udp THEN "udp" ELSE "tcp"
CapabilityOf(c) == IF c.execute \/ c.command THEN "exec" ELSE "relay"
(* -n demands an address. *)
NameForbidden(c) == c.noDNS /\ c.host # "ip"

BuildReverse(c) ==
    [kind |-> "reverse", remotePort |-> c.remotePort, localPort |-> c.localPort]
BuildListen(c) ==
    [kind |-> "listen", network |-> IF c.udp THEN "udp" ELSE "tcp",
     localPort |-> c.localPort, capability |-> CapabilityOf(c), timeout |-> c.timeout]
(* ScanPorts dials "tcp", whatever the dialer is. *)
BuildScan(c) ==
    [kind |-> "scan", dialer |-> DialerOf(c), network |-> "tcp", host |-> c.host,
     ports |-> IF c.ports = {} /\ c.port > 0 THEN {c.port} ELSE c.ports,
     sourcePort |-> IF c.tunnel THEN 0 ELSE c.localPort, timeout |-> c.timeout]
BuildConnect(c) ==
    [kind |-> "connect", dialer |-> DialerOf(c), network |-> IF c.udp THEN "udp" ELSE "tcp",
     host |-> c.host, port |-> c.port,
     sourcePort |-> IF c.tunnel THEN 0 ELSE c.localPort,
     capability |-> CapabilityOf(c), timeout |-> c.timeout]

Builds(m) == mode' = m /\ phase' = "running" /\ UNCHANGED <<invocation, cfg>>

(* Mutant: -l is looked at before -R. *)
MutBuild ==
    /\ phase = "build"
    /\ \/ cfg.listen /\ Builds(BuildListen(cfg))
       \/ ~cfg.listen /\ ~NameForbidden(cfg)
          /\ Builds(IF cfg.zeroIO THEN BuildScan(cfg) ELSE BuildConnect(cfg))
       \/ ~cfg.listen /\ NameForbidden(cfg) /\ Stop("build failed")
Build ==
    /\ phase = "build"
    /\ \/ cfg.reverse /\ Builds(BuildReverse(cfg))
       \/ ~cfg.reverse /\ cfg.listen /\ Builds(BuildListen(cfg))
       \/ ~cfg.reverse /\ ~cfg.listen /\ ~NameForbidden(cfg)
          /\ Builds(IF cfg.zeroIO THEN BuildScan(cfg) ELSE BuildConnect(cfg))
       \/ ~cfg.reverse /\ ~cfg.listen /\ NameForbidden(cfg) /\ Stop("build failed")

Ends == {"usage", "rejected", "internal error", "dry run", "build failed", "running"}
Ended == phase \in Ends /\ UNCHANGED vars

Next ==
    \/ LoadFromEnv \/ ParseFlags
    \/ ReverseGiven \/ ReverseAbsent \/ ReverseBad
    \/ ListenPositional \/ ConnectPositional
    \/ TunnelGiven \/ TunnelAbsent \/ TunnelBad
    \/ ValidateFails \/ Validated \/ Build
    \/ Ended

Spec == Init /\ [][Next]_vars

----------------------------------------------------------------------------
(* Type invariant of the start-up. *)
TypeOK ==
    /\ DOMAIN cfg = DOMAIN Defaults /\ WellTyped(cfg)
    /\ phase \in Ends \cup {"environment", "flags", "reverse", "positional", "tunnel",
                            "validate", "build"}
    /\ mode.kind \in {"none", "reverse", "listen", "scan", "connect"}

(* A mode is run only with what its Run relies on and nowhere checks       *)
(* again: a target with a port in range to connect to, a remote port in    *)
(* range to request, some local port, and never UDP through an SSH         *)
(* session; and the branch of Validate that calls itself an internal error *)
(* is dead ("-R implies -l automatically").  That the local port is in     *)
(* range is not among it: Validate asks of -p only that it is not zero.    *)
ModeIsComplete ==
    /\ phase # "internal error"
    /\ mode.kind = "connect" =>
          /\ mode.host # "" /\ InRange(mode.port)
          /\ mode.dialer = "ssh" => mode.network = "tcp"
    /\ mode.kind = "scan" => mode.host # "" /\ mode.ports # {}
    /\ mode.kind = "reverse" => InRange(mode.remotePort) /\ mode.localPort # 0
    /\ mode.kind = "listen" => mode.localPort # 0

(* -T, -R, -l and -z decide the mode that runs, alone and together: one    *)
(* that cannot be honoured with the others is refused, never dropped.      *)
(* (Other options are dropped by modes that do not know them: -u by a      *)
(* scan, -e and -c by a scan and by a reverse tunnel.)                     *)
ModeIsRequested ==
    phase = "running" =>
        /\ cfg.reverseSpec # "" <=> mode.kind = "reverse"
        /\ cfg.listen /\ cfg.reverseSpec = "" <=> mode.kind = "listen"
        /\ cfg.tunnelSpec # "" <=> mode.kind \in {"connect", "scan"} /\ mode.dialer = "ssh"
        /\ cfg.zeroIO <=> mode.kind = "scan"

(* A flag that was given beats the environment, through every later step.  *)
FlagsPrevail ==
    phase = "running" =>
        /\ "tunnelSpec" \in DOMAIN flags /\ flags.tunnelSpec = "" => ~cfg.tunnel
        /\ "udp" \in DOMAIN flags /\ mode.kind \in {"connect", "listen"}
              => (mode.network = "udp" <=> flags.udp)
        /\ "remotePort" \in DOMAIN flags /\ mode.kind = "reverse"
              => mode.remotePort = flags.remotePort
        /\ "localPort" \in DOMAIN flags /\ flags.localPort # 0
           /\ mode.kind \in {"reverse", "listen"}
              => mode.localPort = flags.localPort
        /\ "localPort" \in DOMAIN flags /\ flags.localPort # 0
           /\ mode.kind \in {"connect", "scan"} /\ mode.dialer # "ssh"
              => mode.sourcePort = flags.localPort
        /\ "timeout" \in DOMAIN flags /\ flags.timeout > 0 /\ mode.kind # "reverse"
              => mode.timeout = flags.timeout

=============================================================================
