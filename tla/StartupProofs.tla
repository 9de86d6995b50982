--------------------------- MODULE StartupProofs ---------------------------
(***************************************************************************)
(* Theorems about Startup and SSHAuth, for every command line in every     *)
(* environment: the run takes the flags and variables one group at a time. *)
(***************************************************************************)
EXTENDS SSHAuth, TLAPS

ConfigType(c) == DOMAIN c = DOMAIN Defaults /\ WellTyped(c)

(* How far Execute has got, as far as it goes on. *)
Parsing    == {"environment", "flags"}
Unresolved == Parsing \cup {"reverse"}
Resolved   == {"validate", "build", "running"}
Underway   == Unresolved \cup {"positional", "tunnel"} \cup Resolved

(* A flag that was given is in the Config from the parsing on: a port or a *)
(* timeout only if it says something, -l unless -R implies it.             *)
Kept == (Switches \ {"listen"}) \cup Specs \cup {"remotePort"}
Says(f) == f \in DOMAIN flags => cfg[f] = flags[f]
FlagsKept ==
    phase \notin Parsing =>
        /\ \A f \in Kept : Says(f)
        /\ Says("localPort") \/ flags["localPort"] = 0
        /\ Says("timeout") \/ ~(flags["timeout"] > 0)

(* A tunnel is enabled exactly when its spec has been resolved. *)
ReverseResolved ==
    /\ phase \in Unresolved => ~cfg.reverse
    /\ phase \in Underway \ Unresolved =>
          /\ cfg.reverseSpec \in {"", "good"}
          /\ cfg.reverse <=> cfg.reverseSpec # ""
          /\ cfg.reverse => cfg.listen
TunnelResolved ==
    /\ phase \in Underway \ Resolved => ~cfg.tunnel
    /\ phase \in Resolved =>
          /\ cfg.tunnelSpec \in {"", "good"}
          /\ cfg.tunnel <=> cfg.tunnelSpec # ""

(* Who does not listen has a target. *)
TargetKnown ==
    phase \in Resolved \cup {"tunnel"} /\ ~cfg.listen =>
        cfg.host # "" /\ InRange(cfg.port) /\ cfg.ports # {}

(* Only a valid Config is built, and the mode is what Build makes of it.   *)
Checked == phase \in {"build", "running"} => ~Invalid(cfg)
Built ==
    /\ phase # "running" => mode = NoMode
    /\ phase = "running" =>
          \/ cfg.reverse /\ mode = BuildReverse(cfg)
          \/ ~cfg.reverse /\ cfg.listen /\ mode = BuildListen(cfg)
          \/ ~cfg.reverse /\ ~cfg.listen /\ cfg.zeroIO /\ mode = BuildScan(cfg)
          \/ ~cfg.reverse /\ ~cfg.listen /\ ~cfg.zeroIO /\ mode = BuildConnect(cfg)

Invocations == env \in Envs /\ flags \in FlagSets /\ args \in Arguments

StartupInv ==
    /\ Invocations /\ ConfigType(cfg)
    /\ phase \in Underway \cup (Ends \ {"internal error"})
    /\ FlagsKept /\ ReverseResolved /\ TunnelResolved /\ TargetKnown /\ Checked /\ Built

----------------------------------------------------------------------------
LEMMA Fields ==
    DOMAIN Defaults = Switches \cup Numbers \cup Specs \cup {"host", "port", "ports", "tunnel", "reverse"}
BY DEF Defaults, Switches, Numbers, Specs

LEMMA FieldTypes ==
    /\ \A f \in Switches \cup {"tunnel", "reverse"} : FieldType(f) = BOOLEAN
    /\ \A f \in Numbers : FieldType(f) = Int
    /\ \A f \in Specs : FieldType(f) = {"", "good", "bad"}
    /\ FieldType("host") = Hosts
    /\ FieldType("port") = 0..MaxPort
    /\ FieldType("ports") = SUBSET (1..MaxPort)
<1>1. \A f \in Switches \cup {"tunnel", "reverse"} : FieldType(f) = BOOLEAN
  BY DEF FieldType, Switches, Numbers, Specs
<1>2. \A f \in Numbers : FieldType(f) = Int
  BY DEF FieldType, Switches, Numbers, Specs
<1>3. \A f \in Specs : FieldType(f) = {"", "good", "bad"}
  BY DEF FieldType, Switches, Numbers, Specs
<1>4. FieldType("host") = Hosts
  BY DEF FieldType, Switches, Numbers, Specs
<1>5. FieldType("port") = 0..MaxPort
  BY DEF FieldType, Switches, Numbers, Specs
<1>6. FieldType("ports") = SUBSET (1..MaxPort)
  BY DEF FieldType, Switches, Numbers, Specs
<1> QED
  BY <1>1, <1>2, <1>3, <1>4, <1>5, <1>6, Zenon

(* What an overlay is made of, and what an update leaves as it was.        *)
LEMMA OverlayIs ==
    ASSUME NEW r, NEW c, ConfigType(c), WellTyped(r)
    PROVE  /\ ConfigType(Overlay(r, c))
           /\ \A f \in DOMAIN Defaults : Overlay(r, c)[f] = IF f \in DOMAIN r THEN r[f] ELSE c[f]
<1>1. "help" \notin DOMAIN Defaults
  BY Fields DEF Switches, Numbers, Specs
<1> QED
  BY <1>1 DEF Overlay, ConfigType, WellTyped

LEMMA Update1 ==
    ASSUME NEW c, NEW f \in DOMAIN c, NEW u, NEW d, d = [c EXCEPT ![f] = u]
    PROVE  /\ DOMAIN d = DOMAIN c /\ d[f] = u
           /\ \A k \in DOMAIN c : k # f => d[k] = c[k]
OBVIOUS

LEMMA Update2 ==
    ASSUME NEW c, NEW f \in DOMAIN c, NEW g \in DOMAIN c, f # g, NEW u, NEW v,
           NEW d, d = [c EXCEPT ![f] = u, ![g] = v]
    PROVE  /\ DOMAIN d = DOMAIN c /\ d[f] = u /\ d[g] = v
           /\ \A k \in DOMAIN c : k \notin {f, g} => d[k] = c[k]
OBVIOUS

LEMMA Update3 ==
    ASSUME NEW c, NEW f \in DOMAIN c, NEW g \in DOMAIN c, NEW h \in DOMAIN c,
           f # g, g # h, f # h, NEW u, NEW v, NEW w,
           NEW d, d = [c EXCEPT ![f] = u, ![g] = v, ![h] = w]
    PROVE  /\ DOMAIN d = DOMAIN c /\ d[f] = u /\ d[g] = v /\ d[h] = w
           /\ \A k \in DOMAIN c : k \notin {f, g, h} => d[k] = c[k]
OBVIOUS

LEMMA UpdateTyped ==
    ASSUME NEW c, ConfigType(c), NEW d, DOMAIN d = DOMAIN c,
           \A k \in DOMAIN c : d[k] = c[k] \/ d[k] \in FieldType(k)
    PROVE  ConfigType(d)
BY DEF ConfigType, WellTyped

LEMMA DefaultsTyped == ConfigType(Defaults) /\ ~Defaults.tunnel /\ ~Defaults.reverse
<1>1. \A f \in Switches \cup {"tunnel", "reverse"} : Defaults[f] \in BOOLEAN
  <2>1. /\ Defaults.listen = FALSE /\ Defaults.udp = FALSE /\ Defaults.zeroIO = FALSE
        /\ Defaults.noDNS = FALSE /\ Defaults.execute = FALSE /\ Defaults.command = FALSE
        /\ Defaults.dryRun = FALSE /\ Defaults.keyPath = FALSE /\ Defaults.password = FALSE
        /\ Defaults.agent = FALSE /\ Defaults.strict = FALSE
        /\ Defaults.tunnel = FALSE /\ Defaults.reverse = FALSE
    BY Zenon DEF Defaults
  <2> QED
    BY <2>1 DEF Switches
<1>2. \A f \in Numbers : Defaults[f] \in Int
  <2>1. Defaults.localPort = 0 /\ Defaults.remotePort = 0 /\ Defaults.timeout = 0
    BY Zenon DEF Defaults
  <2> QED
    BY <2>1 DEF Numbers
<1>3. \A f \in Specs : Defaults[f] \in {"", "good", "bad"}
  <2>1. Defaults.tunnelSpec = "" /\ Defaults.reverseSpec = ""
    BY Zenon DEF Defaults
  <2> QED
    BY <2>1 DEF Specs
<1>4. Defaults.host \in Hosts
  BY DEF Defaults, Hosts
<1>5. Defaults.port \in 0..MaxPort
  <2>1. Defaults.port = 0
    BY DEF Defaults
  <2> QED
    BY <2>1, StartupAssumption DEF StartupAssumption
<1>6. Defaults.ports \in SUBSET (1..MaxPort)
  <2>1. Defaults.ports = {}
    BY DEF Defaults
  <2> QED
    BY <2>1
<1>7. \A f \in DOMAIN Defaults : Defaults[f] \in FieldType(f)
  <2>1. \A f \in Switches \cup {"tunnel", "reverse"} : Defaults[f] \in FieldType(f)
    BY <1>1, FieldTypes, Zenon
  <2>2. \A f \in Numbers : Defaults[f] \in FieldType(f)
    BY <1>2, FieldTypes, Zenon
  <2>3. \A f \in Specs : Defaults[f] \in FieldType(f)
    BY <1>3, FieldTypes, Zenon
  <2>4. /\ Defaults.host \in FieldType("host")
        /\ Defaults.port \in FieldType("port")
        /\ Defaults.ports \in FieldType("ports")
    BY <1>4, <1>5, <1>6, FieldTypes, Zenon
  <2> QED
    BY <2>1, <2>2, <2>3, <2>4, Fields, Zenon
<1>8. ~Defaults.tunnel /\ ~Defaults.reverse
  BY DEF Defaults
<1> QED
  BY <1>7, <1>8 DEF ConfigType, WellTyped

LEMMA StartupInit == Init => StartupInv
<1> SUFFICES ASSUME Init PROVE StartupInv
  OBVIOUS
<1>1. /\ Invocations /\ ConfigType(cfg) /\ phase = "environment"
      /\ ~cfg.tunnel /\ ~cfg.reverse /\ mode = NoMode
  BY DefaultsTyped, Zenon DEF Init, Invocations
<1> QED
  BY <1>1 DEF StartupInv, Parsing, Unresolved, Resolved, Underway, FlagsKept, ReverseResolved,
        TunnelResolved, TargetKnown, Checked, Built

----------------------------------------------------------------------------
(* Environment and flags.                                                  *)
LEMMA EnvironmentStep == ASSUME StartupInv, LoadFromEnv PROVE StartupInv'
<1>1. /\ phase = "environment" /\ phase' = "flags" /\ cfg' = Overlay(env, cfg)
      /\ mode' = mode /\ UNCHANGED <<env, flags, args>>
  BY DEF LoadFromEnv, Go, invocation
<1>2. Invocations /\ ConfigType(cfg) /\ ~cfg.tunnel /\ ~cfg.reverse /\ mode = NoMode
  BY <1>1 DEF StartupInv, ReverseResolved, TunnelResolved, Built, Parsing, Unresolved, Resolved, Underway
<1>3. WellTyped(env) /\ "tunnel" \notin DOMAIN env /\ "reverse" \notin DOMAIN env
  BY <1>2, StartupAssumption DEF StartupAssumption, Invocations, Switches, Numbers, Specs
<1>4. ConfigType(cfg') /\ ~cfg'.tunnel /\ ~cfg'.reverse
  <2>1. "tunnel" \in DOMAIN Defaults /\ "reverse" \in DOMAIN Defaults
    BY Fields
  <2> QED
    BY <1>1, <1>2, <1>3, <2>1, OverlayIs, Zenon
<1>5. Invocations' /\ mode' = NoMode
  BY <1>1, <1>2 DEF Invocations
<1> QED
  BY <1>1, <1>4, <1>5 DEF StartupInv, FlagsKept, ReverseResolved, TunnelResolved, TargetKnown,
        Checked, Built, Parsing, Unresolved, Resolved, Underway

LEMMA FlagsStep == ASSUME StartupInv, ParseFlags PROVE StartupInv'
<1> DEFINE parsed == Overlay(flags, cfg)
<1>1. /\ phase = "flags" /\ phase' \in {"usage", "reverse"}
      /\ cfg' = IF parsed.timeout > 0 THEN parsed ELSE [parsed EXCEPT !.timeout = cfg.timeout]
      /\ mode' = mode /\ UNCHANGED <<env, flags, args>>
  BY Zenon DEF ParseFlags, Go, invocation
<1>2. Invocations /\ ConfigType(cfg) /\ ~cfg.tunnel /\ ~cfg.reverse /\ mode = NoMode
  BY <1>1 DEF StartupInv, ReverseResolved, TunnelResolved, Built, Parsing, Unresolved, Resolved, Underway
<1>3. WellTyped(flags) /\ "tunnel" \notin DOMAIN flags /\ "reverse" \notin DOMAIN flags
  BY <1>2, StartupAssumption DEF StartupAssumption, Invocations, Switches, Numbers, Specs
<1>4. /\ ConfigType(parsed)
      /\ \A f \in DOMAIN Defaults : parsed[f] = IF f \in DOMAIN flags THEN flags[f] ELSE cfg[f]
  <2>1. ConfigType(cfg) /\ WellTyped(flags)
    BY <1>2, <1>3
  <2> QED
    BY <2>1, OverlayIs
<1> HIDE DEF parsed
<1>5. /\ "timeout" \in DOMAIN Defaults /\ "tunnel" \in DOMAIN Defaults /\ "reverse" \in DOMAIN Defaults
      /\ "localPort" \in DOMAIN Defaults /\ Kept \subseteq DOMAIN Defaults /\ "timeout" \notin Kept
  BY Fields DEF Kept, Switches, Numbers, Specs
<1>6. /\ DOMAIN cfg' = DOMAIN Defaults
      /\ cfg'.timeout = IF parsed.timeout > 0 THEN parsed.timeout ELSE cfg.timeout
      /\ \A f \in DOMAIN Defaults : f # "timeout" => cfg'[f] = parsed[f]
  BY <1>1, <1>4, <1>5, Update1 DEF ConfigType
<1>7. ConfigType(cfg')
  <2>1. "timeout" # "help" /\ DOMAIN cfg = DOMAIN Defaults
    BY <1>2 DEF ConfigType
  <2>2. cfg.timeout \in FieldType("timeout")
    BY <2>1, <1>2, <1>5, Zenon DEF ConfigType, WellTyped
  <2>3. \A f \in DOMAIN parsed : cfg'[f] = parsed[f] \/ cfg'[f] \in FieldType(f)
    BY <1>4, <1>6, <2>2, Zenon DEF ConfigType
  <2> QED
    BY <1>4, <1>6, <2>3, UpdateTyped DEF ConfigType
<1>8. ~cfg'.tunnel /\ ~cfg'.reverse
  BY <1>2, <1>3, <1>4, <1>5, <1>6
<1>9. FlagsKept'
  <2>1. \A f \in Kept : f \in DOMAIN flags => cfg'[f] = flags[f]
    BY <1>4, <1>5, <1>6, Zenon
  <2>2. "localPort" \in DOMAIN flags => cfg'.localPort = flags["localPort"]
    BY <1>4, <1>5, <1>6
  <2>3. "timeout" \in DOMAIN flags /\ flags["timeout"] > 0 => cfg'.timeout = flags["timeout"]
    BY <1>4, <1>5, <1>6
  <2> QED
    BY <1>1, <2>1, <2>2, <2>3 DEF FlagsKept, Says
<1>10. Invocations' /\ mode' = NoMode
  BY <1>1, <1>2 DEF Invocations
<1> QED
  BY <1>1, <1>7, <1>8, <1>9, <1>10 DEF StartupInv, ReverseResolved, TunnelResolved, TargetKnown,
        Checked, Built, Parsing, Unresolved, Resolved, Underway, Ends

(* From the parsing on a step changes few fields: what was given stays.    *)
LEMMA FlagsStay ==
    ASSUME FlagsKept, phase \notin Parsing, UNCHANGED flags,
           \A f \in Kept \cup {"timeout"} : cfg'[f] = cfg[f],
           cfg'["localPort"] = cfg["localPort"] \/ cfg["localPort"] = 0
    PROVE  FlagsKept'
BY DEF FlagsKept, Says

LEMMA EndStep ==
    ASSUME StartupInv, phase \notin Parsing \cup {"running"}, phase' \in Ends \ {"internal error", "running"},
           UNCHANGED <<env, flags, args, cfg, mode>>
    PROVE  StartupInv'
BY DEF StartupInv, Invocations, ConfigType, FlagsKept, Says, ReverseResolved, TunnelResolved,
       TargetKnown, Checked, Built, Parsing, Unresolved, Resolved, Underway, Ends

----------------------------------------------------------------------------
(* -R.                                                                     *)
LEMMA ReverseStep == ASSUME StartupInv, ReverseGiven PROVE StartupInv'
<1>1. /\ phase = "reverse" /\ cfg.reverseSpec = "good" /\ phase' = "positional"
      /\ mode' = mode /\ UNCHANGED <<env, flags, args>>
  BY Zenon DEF ReverseGiven, Go, invocation
<1>2. /\ Invocations /\ ConfigType(cfg) /\ FlagsKept /\ mode = NoMode /\ ~cfg.tunnel
  BY <1>1 DEF StartupInv, TunnelResolved, Built, Parsing, Unresolved, Resolved, Underway
<1>3. /\ {"reverse", "listen", "localPort", "remotePort", "reverseSpec", "tunnel"} \subseteq DOMAIN Defaults
      /\ DOMAIN cfg = DOMAIN Defaults /\ Kept \cup {"timeout"} \subseteq DOMAIN Defaults
      /\ Kept \cap {"reverse", "listen", "localPort"} = {}
  BY <1>2, Fields DEF ConfigType, Kept, Switches, Numbers, Specs
<1>4. /\ DOMAIN cfg' = DOMAIN cfg /\ cfg'.reverse = TRUE /\ cfg'.listen = TRUE
      /\ \A k \in DOMAIN cfg : k \notin {"reverse", "listen", "localPort"} => cfg'[k] = cfg[k]
  BY <1>3, Update3, Zenon DEF ReverseGiven
<1>5. cfg'.localPort = IF cfg.localPort = 0 /\ cfg.remotePort > 0 THEN cfg.remotePort ELSE cfg.localPort
  BY <1>3, Update3, Zenon DEF ReverseGiven
<1>6. ConfigType(cfg')
  <2>1. cfg'.reverse \in FieldType("reverse") /\ cfg'.listen \in FieldType("listen")
    BY <1>4, FieldTypes DEF Switches
  <2>2. cfg'.localPort \in FieldType("localPort")
    <3>1. FieldType("localPort") = Int /\ FieldType("remotePort") = Int
      BY FieldTypes DEF Numbers
    <3>2. cfg.localPort \in Int /\ cfg.remotePort \in Int
      BY <1>2, <1>3, <3>1 DEF ConfigType, WellTyped
    <3> QED
      BY <1>5, <3>1, <3>2
  <2>3. \A k \in DOMAIN cfg : cfg'[k] = cfg[k] \/ cfg'[k] \in FieldType(k)
    BY <1>4, <2>1, <2>2, Zenon
  <2> QED
    BY <1>2, <1>4, <2>3, UpdateTyped
<1>7. FlagsKept'
  <2>1. \A f \in Kept \cup {"timeout"} : cfg'[f] = cfg[f]
    BY <1>3, <1>4
  <2>2. cfg'["localPort"] = cfg["localPort"] \/ cfg["localPort"] = 0
    BY <1>5
  <2>3. phase \notin Parsing
    BY <1>1 DEF Parsing
  <2> QED
    BY <1>1, <1>2, <2>1, <2>2, <2>3, FlagsStay
<1>8. cfg'.reverseSpec = "good" /\ ~cfg'.tunnel
  BY <1>1, <1>2, <1>3, <1>4
<1>9. Invocations' /\ mode' = NoMode
  BY <1>1, <1>2 DEF Invocations
<1> QED
  BY <1>1, <1>4, <1>6, <1>7, <1>8, <1>9 DEF StartupInv, ReverseResolved, TunnelResolved, TargetKnown,
        Checked, Built, Parsing, Unresolved, Resolved, Underway

LEMMA NoReverseStep == ASSUME StartupInv, ReverseAbsent \/ ReverseBad PROVE StartupInv'
<1>1. CASE ReverseBad
  <2>1. phase = "reverse" /\ phase' = "rejected" /\ UNCHANGED <<env, flags, args, cfg, mode>>
    BY <1>1 DEF ReverseBad, Stop, Go, invocation
  <2> QED
    BY <2>1, EndStep DEF Parsing, Ends
<1>2. CASE ReverseAbsent
  <2>1. /\ phase = "reverse" /\ cfg.reverseSpec = "" /\ phase' = "positional"
        /\ UNCHANGED <<env, flags, args, cfg, mode>>
    BY <1>2 DEF ReverseAbsent, Stop, Go, invocation
  <2> QED
    BY <2>1 DEF StartupInv, Invocations, ConfigType, FlagsKept, Says, ReverseResolved, TunnelResolved,
          TargetKnown, Checked, Built, Parsing, Unresolved, Resolved, Underway
<1> QED
  BY <1>1, <1>2

----------------------------------------------------------------------------
(* Positional arguments.                                                   *)
LEMMA PortsTyped ==
    ASSUME Invocations, PortsParse, args.ports # << >>
    PROVE  /\ args.ports[1][1] \in 1..MaxPort
           /\ AllPorts \subseteq 1..MaxPort /\ AllPorts # {}
<1>1. args.ports \in Seq(Int \X Int) /\ MaxPort \in Nat
  BY StartupAssumption DEF StartupAssumption, Invocations
<1>2. 1 \in DOMAIN args.ports
  BY <1>1
<1>3. \A i \in DOMAIN args.ports :
         /\ args.ports[i][1] \in Int /\ args.ports[i][2] \in Int
         /\ args.ports[i][1] >= 1 /\ args.ports[i][2] <= MaxPort /\ args.ports[i][1] <= args.ports[i][2]
  BY <1>1 DEF PortsParse, ParsePortSpec
<1>4. AllPorts \subseteq 1..MaxPort
  BY <1>1, <1>3 DEF AllPorts
<1>5. args.ports[1][1] \in args.ports[1][1]..args.ports[1][2]
  BY <1>2, <1>3
<1>6. args.ports[1][1] \in AllPorts
  BY <1>2, <1>5 DEF AllPorts
<1> QED
  BY <1>1, <1>2, <1>3, <1>4, <1>6

LEMMA ListenStep == ASSUME StartupInv, ListenPositional PROVE StartupInv'
<1>1. CASE Stop("rejected")
  BY <1>1, EndStep DEF ListenPositional, Stop, Go, invocation, Parsing, Ends
<1>2. CASE ~Stop("rejected")
  <2> DEFINE host == IF args.host = "" THEN cfg.host ELSE args.host
             port == IF args.ports = << >> THEN cfg.port ELSE args.ports[1][1]
  <2>1. /\ phase = "positional" /\ phase' = "tunnel" /\ cfg.listen /\ PortsParse
        /\ cfg' = [cfg EXCEPT !.host = host, !.port = port]
        /\ mode' = mode /\ UNCHANGED <<env, flags, args>>
    BY <1>2, Zenon DEF ListenPositional, Go, invocation
  <2>2. Invocations /\ ConfigType(cfg) /\ FlagsKept /\ ReverseResolved /\ mode = NoMode /\ ~cfg.tunnel
    BY <2>1 DEF StartupInv, TunnelResolved, Built, Parsing, Unresolved, Resolved, Underway
  <2>3. /\ DOMAIN cfg = DOMAIN Defaults /\ {"host", "port"} \subseteq DOMAIN Defaults
        /\ Kept \cup {"timeout", "localPort", "listen", "reverse", "reverseSpec", "tunnel"}
              \subseteq DOMAIN Defaults \ {"host", "port"}
    BY <2>2, Fields DEF ConfigType, Kept, Switches, Numbers, Specs
  <2>4. host \in FieldType("host")
    <3>1. args.host \in Hosts
      BY <2>2, StartupAssumption DEF StartupAssumption, Invocations
    <3>2. cfg.host \in FieldType("host")
      BY <2>2, <2>3, Zenon DEF ConfigType, WellTyped
    <3> QED
      BY <3>1, <3>2, FieldTypes, Zenon
  <2>5. port \in FieldType("port")
    <3>1. args.ports # << >> => args.ports[1][1] \in 0..MaxPort
      BY <2>1, <2>2, PortsTyped
    <3>2. cfg.port \in FieldType("port")
      BY <2>2, <2>3, Zenon DEF ConfigType, WellTyped
    <3> QED
      BY <3>1, <3>2, FieldTypes, Zenon
  <2> HIDE DEF host, port
  <2>6. /\ DOMAIN cfg' = DOMAIN cfg /\ cfg'.host = host /\ cfg'.port = port
        /\ \A k \in DOMAIN cfg : k \notin {"host", "port"} => cfg'[k] = cfg[k]
    BY <2>1, <2>3, Update2, Zenon
  <2>7. ConfigType(cfg')
    <3>1. \A k \in DOMAIN cfg : cfg'[k] = cfg[k] \/ cfg'[k] \in FieldType(k)
      BY <2>4, <2>5, <2>6, Zenon
    <3> QED
      BY <2>2, <2>6, <3>1, UpdateTyped
  <2>8. /\ \A k \in Kept \cup {"timeout", "localPort"} : cfg'[k] = cfg[k]
        /\ cfg'["listen"] = cfg["listen"] /\ cfg'["reverse"] = cfg["reverse"]
        /\ cfg'["reverseSpec"] = cfg["reverseSpec"] /\ cfg'["tunnel"] = cfg["tunnel"]
    BY <2>3, <2>6
  <2>9. FlagsKept'
    BY <2>1, <2>2, <2>8, FlagsStay DEF Parsing
  <2>10. Invocations' /\ mode' = NoMode
    BY <2>1, <2>2 DEF Invocations
  <2> QED
    BY <2>1, <2>2, <2>7, <2>8, <2>9, <2>10 DEF StartupInv, ReverseResolved, TunnelResolved, TargetKnown,
          Checked, Built, Parsing, Unresolved, Resolved, Underway
<1> QED
  BY <1>1, <1>2

LEMMA ConnectStep == ASSUME StartupInv, ConnectPositional PROVE StartupInv'
<1>1. CASE Stop("rejected")
  BY <1>1, EndStep DEF ConnectPositional, Stop, Go, invocation, Parsing, Ends
<1>2. CASE ~Stop("rejected")
  <2>1. /\ phase = "positional" /\ phase' = "tunnel" /\ ~cfg.listen /\ PortsUsable
        /\ cfg' = [cfg EXCEPT !.host = args.host, !.port = args.ports[1][1], !.ports = AllPorts]
        /\ mode' = mode /\ UNCHANGED <<env, flags, args>>
    BY <1>2, Zenon DEF ConnectPositional, Go, invocation
  <2>2. Invocations /\ ConfigType(cfg) /\ FlagsKept /\ ReverseResolved /\ mode = NoMode /\ ~cfg.tunnel
    BY <2>1 DEF StartupInv, TunnelResolved, Built, Parsing, Unresolved, Resolved, Underway
  <2>3. /\ DOMAIN cfg = DOMAIN Defaults /\ {"host", "port", "ports"} \subseteq DOMAIN Defaults
        /\ Kept \cup {"timeout", "localPort", "listen", "reverse", "reverseSpec", "tunnel"}
              \subseteq DOMAIN Defaults \ {"host", "port", "ports"}
    BY <2>2, Fields DEF ConfigType, Kept, Switches, Numbers, Specs
  <2>4. /\ DOMAIN cfg' = DOMAIN cfg
        /\ cfg'.host = args.host /\ cfg'.port = args.ports[1][1] /\ cfg'.ports = AllPorts
        /\ \A k \in DOMAIN cfg : k \notin {"host", "port", "ports"} => cfg'[k] = cfg[k]
    BY <2>1, <2>3, Update3, Zenon
  <2>5. args.host # "" /\ args.host \in Hosts
    BY <2>1, <2>2, StartupAssumption DEF StartupAssumption, Invocations, PortsUsable
  <2>6. InRange(args.ports[1][1]) /\ AllPorts \subseteq 1..MaxPort /\ AllPorts # {}
    BY <2>1, <2>2, PortsTyped DEF PortsUsable, InRange
  <2>7. ConfigType(cfg')
    <3>1. args.ports[1][1] \in 0..MaxPort
      BY <2>6, StartupAssumption DEF InRange, StartupAssumption
    <3>2. cfg'.host \in FieldType("host") /\ cfg'.port \in FieldType("port") /\ cfg'.ports \in FieldType("ports")
      BY <2>4, <2>5, <2>6, <3>1, FieldTypes, Zenon
    <3>3. \A k \in DOMAIN cfg : cfg'[k] = cfg[k] \/ cfg'[k] \in FieldType(k)
      BY <2>4, <3>2, Zenon
    <3> QED
      BY <2>2, <2>4, <3>3, UpdateTyped
  <2>8. /\ \A k \in Kept \cup {"timeout", "localPort"} : cfg'[k] = cfg[k]
        /\ cfg'["listen"] = cfg["listen"] /\ cfg'["reverse"] = cfg["reverse"]
        /\ cfg'["reverseSpec"] = cfg["reverseSpec"] /\ cfg'["tunnel"] = cfg["tunnel"]
    BY <2>3, <2>4, Zenon
  <2>9. FlagsKept'
    BY <2>1, <2>2, <2>8, FlagsStay DEF Parsing
  <2>10. Invocations' /\ mode' = NoMode
    BY <2>1, <2>2 DEF Invocations
  <2>11. cfg'.host # "" /\ InRange(cfg'.port) /\ cfg'.ports # {}
    BY <2>4, <2>5, <2>6, Zenon
  <2>12. TargetKnown'
    BY <2>11 DEF TargetKnown, InRange
  <2> QED
    BY <2>1, <2>2, <2>7, <2>8, <2>9, <2>10, <2>12 DEF StartupInv, ReverseResolved, TunnelResolved,
          Checked, Built, Parsing, Unresolved, Resolved, Underway
<1> QED
  BY <1>1, <1>2

----------------------------------------------------------------------------
(* -T.                                                                     *)
LEMMA TunnelStep == ASSUME StartupInv, TunnelGiven PROVE StartupInv'
<1>1. /\ phase = "tunnel" /\ phase' = "validate" /\ cfg.tunnelSpec = "good"
      /\ cfg' = [cfg EXCEPT !.tunnel = TRUE] /\ mode' = mode /\ UNCHANGED <<env, flags, args>>
  BY Zenon DEF TunnelGiven, Go, invocation
<1>2. Invocations /\ ConfigType(cfg) /\ FlagsKept /\ ReverseResolved /\ TargetKnown /\ mode = NoMode
  BY <1>1 DEF StartupInv, Built
<1>3. /\ DOMAIN cfg = DOMAIN Defaults /\ "tunnel" \in DOMAIN Defaults
      /\ Kept \cup {"timeout", "localPort", "listen", "reverse", "reverseSpec", "tunnelSpec",
                    "host", "port", "ports"} \subseteq DOMAIN Defaults \ {"tunnel"}
  BY <1>2, Fields DEF ConfigType, Kept, Switches, Numbers, Specs
<1>4. /\ DOMAIN cfg' = DOMAIN cfg /\ cfg'.tunnel = TRUE
      /\ \A k \in DOMAIN cfg : k # "tunnel" => cfg'[k] = cfg[k]
  BY <1>1, <1>3, Update1, Zenon
<1>5. ConfigType(cfg')
  <2>1. cfg'.tunnel \in FieldType("tunnel")
    BY <1>4, FieldTypes
  <2>2. \A k \in DOMAIN cfg : cfg'[k] = cfg[k] \/ cfg'[k] \in FieldType(k)
    BY <1>4, <2>1, Zenon
  <2> QED
    BY <1>2, <1>4, <2>2, UpdateTyped
<1>6. /\ \A k \in Kept \cup {"timeout", "localPort"} : cfg'[k] = cfg[k]
      /\ cfg'["listen"] = cfg["listen"] /\ cfg'["reverse"] = cfg["reverse"]
      /\ cfg'["reverseSpec"] = cfg["reverseSpec"] /\ cfg'["tunnelSpec"] = cfg["tunnelSpec"]
      /\ cfg'["host"] = cfg["host"] /\ cfg'["port"] = cfg["port"] /\ cfg'["ports"] = cfg["ports"]
  BY <1>3, <1>4, Zenon
<1>7. FlagsKept'
  BY <1>1, <1>2, <1>6, FlagsStay DEF Parsing
<1>8. Invocations' /\ mode' = NoMode
  BY <1>1, <1>2 DEF Invocations
<1>9. TargetKnown'
  BY <1>1, <1>2, <1>6 DEF TargetKnown, Resolved, InRange
<1>10. TunnelResolved'
  BY <1>1, <1>4, <1>6 DEF TunnelResolved, Resolved, Underway
<1> QED
  BY <1>1, <1>2, <1>5, <1>6, <1>7, <1>8, <1>9, <1>10 DEF StartupInv, ReverseResolved,
        Checked, Built, Parsing, Unresolved, Resolved, Underway

LEMMA NoTunnelStep == ASSUME StartupInv, TunnelAbsent \/ TunnelBad PROVE StartupInv'
<1>1. CASE TunnelBad
  BY <1>1, EndStep DEF TunnelBad, Stop, Go, invocation, Parsing, Ends
<1>2. CASE TunnelAbsent
  <2>1. /\ phase = "tunnel" /\ cfg.tunnelSpec = "" /\ phase' = "validate"
        /\ UNCHANGED <<env, flags, args, cfg, mode>>
    BY <1>2 DEF TunnelAbsent, Stop, Go, invocation
  <2> QED
    BY <2>1 DEF StartupInv, Invocations, ConfigType, FlagsKept, Says, ReverseResolved, TunnelResolved,
          TargetKnown, Checked, Built, Parsing, Unresolved, Resolved, Underway
<1> QED
  BY <1>1, <1>2

----------------------------------------------------------------------------
(* Validate and Build.                                                     *)
LEMMA ValidateStep == ASSUME StartupInv, ValidateFails \/ Validated PROVE StartupInv'
<1>1. CASE ValidateFails
  <2>1. phase = "validate" /\ ~ReverseWithoutListen(cfg)
    BY <1>1 DEF ValidateFails, StartupInv, ReverseResolved, ReverseWithoutListen, Resolved, Underway, Unresolved, Parsing
  <2>2. phase' = "rejected" /\ UNCHANGED <<env, flags, args, cfg, mode>>
    BY <1>1, <2>1 DEF ValidateFails, Stop, Go, invocation
  <2> QED
    BY <2>1, <2>2, EndStep DEF Parsing, Ends
<1>2. CASE Validated
  <2>1. /\ phase = "validate" /\ phase' \in {"dry run", "build"} /\ ~Invalid(cfg)
        /\ UNCHANGED <<env, flags, args, cfg, mode>>
    BY <1>2 DEF Validated, Stop, Go, invocation
  <2>2. CASE phase' = "dry run"
    BY <2>1, <2>2, EndStep DEF Parsing, Ends
  <2>3. CASE phase' = "build"
    <3>1. Checked'
      BY <2>1, Zenon DEF Checked
    <3> QED
      BY <2>1, <2>3, <3>1 DEF StartupInv, Invocations, ConfigType, FlagsKept, Says, ReverseResolved,
            TunnelResolved, TargetKnown, Built, Parsing, Unresolved, Resolved, Underway
  <2> QED
    BY <2>1, <2>2, <2>3
<1> QED
  BY <1>1, <1>2

LEMMA BuildStep == ASSUME StartupInv, Build PROVE StartupInv'
<1>1. CASE Stop("build failed")
  BY <1>1, EndStep DEF Build, Stop, Go, invocation, Parsing, Ends
<1>2. CASE ~Stop("build failed")
  <2>1. phase = "build" /\ phase' = "running" /\ UNCHANGED <<env, flags, args, cfg>>
    BY <1>2, Zenon DEF Build, Builds, invocation
  <2>2. \/ cfg.reverse /\ mode' = BuildReverse(cfg)
        \/ ~cfg.reverse /\ cfg.listen /\ mode' = BuildListen(cfg)
        \/ ~cfg.reverse /\ ~cfg.listen /\ cfg.zeroIO /\ mode' = BuildScan(cfg)
        \/ ~cfg.reverse /\ ~cfg.listen /\ ~cfg.zeroIO /\ mode' = BuildConnect(cfg)
    BY <1>2, Zenon DEF Build, Builds
  <2>3. cfg' = cfg
    BY <2>1
  <2>4. Built'
    BY <2>1, <2>2, <2>3, Zenon DEF Built
  <2>5. ~Invalid(cfg')
    BY <2>1, Zenon DEF StartupInv, Checked
  <2>6. Checked'
    BY <2>5, Zenon DEF Checked
  <2> QED
    BY <2>1, <2>4, <2>6 DEF StartupInv, Invocations, ConfigType, FlagsKept, Says, ReverseResolved,
          TunnelResolved, TargetKnown, Parsing, Unresolved, Resolved, Underway
<1> QED
  BY <1>1, <1>2

LEMMA StartupStutter == StartupInv /\ UNCHANGED vars => StartupInv'
<1> SUFFICES ASSUME StartupInv, UNCHANGED <<env, flags, args, cfg, phase, mode>> PROVE StartupInv'
  BY DEF vars
<1>1. Invocations' /\ ConfigType(cfg')
  BY DEF StartupInv, Invocations, ConfigType
<1>2. (phase \in Underway \cup (Ends \ {"internal error"}))'
  BY DEF StartupInv
<1>3. FlagsKept'
  BY DEF StartupInv, FlagsKept, Says
<1>4. ReverseResolved' /\ TunnelResolved'
  BY DEF StartupInv, ReverseResolved, TunnelResolved
<1>5. TargetKnown'
  BY DEF StartupInv, TargetKnown
<1>6. Checked' /\ Built'
  BY DEF StartupInv, Checked, Built
<1> QED
  BY <1>1, <1>2, <1>3, <1>4, <1>5, <1>6 DEF StartupInv

LEMMA StartupStep == StartupInv /\ [Next]_vars => StartupInv'
BY EnvironmentStep, FlagsStep, ReverseStep, NoReverseStep, ListenStep, ConnectStep, TunnelStep,
   NoTunnelStep, ValidateStep, BuildStep, StartupStutter DEF Next, Ended

LEMMA StartupCorrect == Spec => []StartupInv
BY StartupInit, StartupStep, PTL DEF Spec

----------------------------------------------------------------------------
(* What Build puts into a mode.                                            *)
LEMMA ModeFields ==
    ASSUME NEW c
    PROVE  /\ BuildReverse(c).kind = "reverse"
           /\ BuildReverse(c).remotePort = c.remotePort /\ BuildReverse(c).localPort = c.localPort
           /\ BuildListen(c).kind = "listen" /\ BuildListen(c).localPort = c.localPort
           /\ BuildListen(c).network = (IF c.udp THEN "udp" ELSE "tcp")
           /\ BuildListen(c).timeout = c.timeout
           /\ BuildScan(c).kind = "scan" /\ BuildScan(c).dialer = DialerOf(c)
           /\ BuildScan(c).host = c.host /\ BuildScan(c).timeout = c.timeout
           /\ BuildScan(c).ports = (IF c.ports = {} /\ c.port > 0 THEN {c.port} ELSE c.ports)
           /\ BuildScan(c).sourcePort = (IF c.tunnel THEN 0 ELSE c.localPort)
           /\ BuildConnect(c).kind = "connect" /\ BuildConnect(c).dialer = DialerOf(c)
           /\ BuildConnect(c).host = c.host /\ BuildConnect(c).port = c.port
           /\ BuildConnect(c).network = (IF c.udp THEN "udp" ELSE "tcp")
           /\ BuildConnect(c).sourcePort = (IF c.tunnel THEN 0 ELSE c.localPort)
           /\ BuildConnect(c).timeout = c.timeout
           /\ NoMode.kind = "none"
<1>1. /\ BuildReverse(c).kind = "reverse"
      /\ BuildReverse(c).remotePort = c.remotePort /\ BuildReverse(c).localPort = c.localPort
  BY Zenon DEF BuildReverse
<1>2. /\ BuildListen(c).kind = "listen" /\ BuildListen(c).localPort = c.localPort
      /\ BuildListen(c).network = (IF c.udp THEN "udp" ELSE "tcp")
      /\ BuildListen(c).timeout = c.timeout
  BY Zenon DEF BuildListen
<1>3. /\ BuildScan(c).kind = "scan" /\ BuildScan(c).dialer = DialerOf(c)
      /\ BuildScan(c).host = c.host /\ BuildScan(c).timeout = c.timeout
      /\ BuildScan(c).ports = (IF c.ports = {} /\ c.port > 0 THEN {c.port} ELSE c.ports)
      /\ BuildScan(c).sourcePort = (IF c.tunnel THEN 0 ELSE c.localPort)
  BY Zenon DEF BuildScan
<1>4. /\ BuildConnect(c).kind = "connect" /\ BuildConnect(c).dialer = DialerOf(c)
      /\ BuildConnect(c).host = c.host /\ BuildConnect(c).port = c.port
      /\ BuildConnect(c).network = (IF c.udp THEN "udp" ELSE "tcp")
      /\ BuildConnect(c).sourcePort = (IF c.tunnel THEN 0 ELSE c.localPort)
      /\ BuildConnect(c).timeout = c.timeout
  BY Zenon DEF BuildConnect
<1>5. NoMode.kind = "none"
  BY DEF NoMode
<1> QED
  BY <1>1, <1>2, <1>3, <1>4, <1>5, Zenon

(* A running mode is of one of four kinds; each says what it was made of.  *)
LEMMA Kinds ==
    ASSUME StartupInv
    PROVE  /\ mode.kind \in {"none", "reverse", "listen", "scan", "connect"}
           /\ phase # "running" => mode.kind = "none"
           /\ phase = "running" =>
                 /\ mode.kind = "reverse" => cfg.reverse /\ mode = BuildReverse(cfg)
                 /\ mode.kind = "listen" => ~cfg.reverse /\ cfg.listen /\ mode = BuildListen(cfg)
                 /\ mode.kind = "scan" => ~cfg.reverse /\ ~cfg.listen /\ cfg.zeroIO /\ mode = BuildScan(cfg)
                 /\ mode.kind = "connect" =>
                       ~cfg.reverse /\ ~cfg.listen /\ ~cfg.zeroIO /\ mode = BuildConnect(cfg)
                 /\ mode.kind # "none"
<1>1. CASE phase # "running"
  <2>1. mode.kind = "none"
    BY <1>1, ModeFields, Zenon DEF StartupInv, Built
  <2> QED
    BY <1>1, <2>1
<1>2. CASE phase = "running"
  <2>1. \/ cfg.reverse /\ mode = BuildReverse(cfg) /\ mode.kind = "reverse"
        \/ ~cfg.reverse /\ cfg.listen /\ mode = BuildListen(cfg) /\ mode.kind = "listen"
        \/ ~cfg.reverse /\ ~cfg.listen /\ cfg.zeroIO /\ mode = BuildScan(cfg) /\ mode.kind = "scan"
        \/ ~cfg.reverse /\ ~cfg.listen /\ ~cfg.zeroIO /\ mode = BuildConnect(cfg) /\ mode.kind = "connect"
    BY <1>2, ModeFields, Zenon DEF StartupInv, Built
  <2> HIDE DEF StartupInv
  <2> QED
    BY <1>2, <2>1
<1> QED
  BY <1>1, <1>2

(* The Config keeps its fields' types through every step, and a port that  *)
(* reaches it from the arguments is one.                                   *)
THEOREM TypeCorrect == Spec => []TypeOK
<1>1. StartupInv => TypeOK
  <2> SUFFICES ASSUME StartupInv PROVE TypeOK
    OBVIOUS
  <2>1. DOMAIN cfg = DOMAIN Defaults /\ WellTyped(cfg)
    BY DEF StartupInv, ConfigType
  <2>2. phase \in Ends \cup {"environment", "flags", "reverse", "positional", "tunnel", "validate", "build"}
    BY DEF StartupInv, Underway, Unresolved, Parsing, Resolved, Ends
  <2> QED
    BY <2>1, <2>2, Kinds DEF TypeOK
<1> QED
  BY <1>1, StartupCorrect, PTL

(* What a running mode can count on.                                       *)
LEMMA Running ==
    ASSUME StartupInv, phase = "running"
    PROVE  /\ cfg.reverse <=> cfg.reverseSpec # ""
           /\ cfg.tunnel <=> cfg.tunnelSpec # ""
           /\ cfg.reverse => cfg.listen /\ InRange(cfg.remotePort)
           /\ cfg.listen => cfg.localPort # 0 /\ ~cfg.zeroIO /\ ~cfg.tunnel
           /\ ~cfg.listen => cfg.host # "" /\ InRange(cfg.port) /\ cfg.ports # {}
           /\ ~(cfg.udp /\ cfg.tunnel)
<1>1. ~Invalid(cfg)
  BY DEF StartupInv, Checked
<1>2. /\ cfg.reverse <=> cfg.reverseSpec # ""
      /\ cfg.reverse => cfg.listen
  BY DEF StartupInv, ReverseResolved, Underway, Unresolved, Parsing, Resolved
<1>3. cfg.tunnel <=> cfg.tunnelSpec # ""
  BY DEF StartupInv, TunnelResolved, Resolved
<1>4. ~cfg.listen => cfg.host # "" /\ InRange(cfg.port) /\ cfg.ports # {}
  <2>1. phase \in Resolved
    BY DEF Resolved
  <2> QED
    BY <2>1, Zenon DEF StartupInv, TargetKnown
<1>5. /\ cfg.reverse => InRange(cfg.remotePort)
      /\ cfg.listen => cfg.localPort # 0 /\ ~cfg.zeroIO /\ ~cfg.tunnel
      /\ ~(cfg.udp /\ cfg.tunnel)
  BY <1>1, Zenon DEF Invalid, ListenErrors, ReverseErrors, OtherErrors
<1> QED
  BY <1>2, <1>3, <1>4, <1>5, Zenon

LEMMA SSHDialer == ASSUME NEW c PROVE DialerOf(c) = "ssh" <=> c.tunnel
BY DEF DialerOf

(* Whatever Execute runs has a target with a port in range, or a local     *)
(* port, in range or not, and a remote port in range where it needs one,   *)
(* for every command line in every environment: -n, -u, -T, -R, -l, -p, -z *)
(* and the variables in any combination.                                   *)
THEOREM CompleteCorrect == Spec => []ModeIsComplete
<1>1. StartupInv => ModeIsComplete
  <2> SUFFICES ASSUME StartupInv PROVE ModeIsComplete
    OBVIOUS
  <2>1. phase # "internal error"
    BY DEF StartupInv, Underway, Unresolved, Parsing, Resolved, Ends
  <2>2. CASE phase # "running"
    <3>1. mode.kind = "none"
      BY <2>2, Kinds
    <3> QED
      BY <2>1, <3>1 DEF ModeIsComplete
  <2>3. CASE phase = "running"
    <3>1. ASSUME mode.kind = "connect"
          PROVE  /\ mode.host # "" /\ InRange(mode.port)
                 /\ mode.dialer = "ssh" => mode.network = "tcp"
      <4>1. ~cfg.listen /\ mode = BuildConnect(cfg)
        BY <2>3, <3>1, Kinds
      <4>2. mode.host = cfg.host /\ mode.port = cfg.port
        BY <4>1, ModeFields, Zenon
      <4>3. mode.dialer = DialerOf(cfg) /\ mode.network = (IF cfg.udp THEN "udp" ELSE "tcp")
        BY <4>1, ModeFields, Zenon
      <4>4. cfg.host # "" /\ InRange(cfg.port)
        BY <2>3, <4>1, Running, Zenon
      <4>5. mode.dialer = "ssh" => mode.network = "tcp"
        BY <2>3, <4>3, Running, SSHDialer, Zenon
      <4> QED
        BY <4>2, <4>4, <4>5, Zenon
    <3>2. ASSUME mode.kind = "scan" PROVE mode.host # "" /\ mode.ports # {}
      <4>1. ~cfg.listen /\ mode = BuildScan(cfg)
        BY <2>3, <3>2, Kinds
      <4>2. mode.host = cfg.host /\ (cfg.ports # {} => mode.ports = cfg.ports)
        BY <4>1, ModeFields, Zenon
      <4> QED
        BY <2>3, <4>1, <4>2, Running, Zenon
    <3>3. ASSUME mode.kind = "reverse" PROVE InRange(mode.remotePort) /\ mode.localPort # 0
      <4>1. cfg.reverse /\ mode = BuildReverse(cfg)
        BY <2>3, <3>3, Kinds
      <4> QED
        BY <2>3, <4>1, ModeFields, Running, Zenon
    <3>4. ASSUME mode.kind = "listen" PROVE mode.localPort # 0
      <4>1. cfg.listen /\ mode = BuildListen(cfg)
        BY <2>3, <3>4, Kinds
      <4> QED
        BY <2>3, <4>1, ModeFields, Running, Zenon
    <3> QED
      BY <2>1, <3>1, <3>2, <3>3, <3>4, Zenon DEF ModeIsComplete
  <2> QED
    BY <2>2, <2>3
<1> QED
  BY <1>1, StartupCorrect, PTL

(* The mode that runs is the one that was asked for: each of -T, -R, -l    *)
(* and -z, where it is set, has made the mode what it is, and none of them *)
(* is dropped for another.                                                 *)
THEOREM RequestedCorrect == Spec => []ModeIsRequested
<1>1. StartupInv => ModeIsRequested
  <2> SUFFICES ASSUME StartupInv, phase = "running"
               PROVE  /\ cfg.reverseSpec # "" <=> mode.kind = "reverse"
                      /\ cfg.listen /\ cfg.reverseSpec = "" <=> mode.kind = "listen"
                      /\ cfg.tunnelSpec # "" <=> mode.kind \in {"connect", "scan"} /\ mode.dialer = "ssh"
                      /\ cfg.zeroIO <=> mode.kind = "scan"
    BY DEF ModeIsRequested
  <2>1. /\ mode.kind \in {"connect", "scan"} => mode.dialer = DialerOf(cfg)
    <3>1. mode.kind = "connect" => mode.dialer = DialerOf(cfg)
      BY Kinds, ModeFields, Zenon
    <3>2. mode.kind = "scan" => mode.dialer = DialerOf(cfg)
      BY Kinds, ModeFields, Zenon
    <3> QED
      BY <3>1, <3>2
  <2>2. /\ cfg.reverse <=> cfg.reverseSpec # ""
        /\ cfg.tunnel <=> cfg.tunnelSpec # ""
        /\ cfg.reverse => cfg.listen
        /\ cfg.listen => ~cfg.tunnel /\ ~cfg.zeroIO
    BY Running, Zenon
  <2>3. /\ mode.kind = "reverse" <=> cfg.reverse
        /\ mode.kind = "listen" <=> cfg.listen /\ ~cfg.reverse
        /\ mode.kind \in {"connect", "scan"} <=> ~cfg.listen
        /\ mode.kind = "scan" <=> ~cfg.listen /\ cfg.zeroIO
    <3>1. mode.kind \in {"reverse", "listen", "scan", "connect"}
      BY Kinds
    <3> HIDE DEF StartupInv
    <3> QED
      BY <2>2, <3>1, Kinds
  <2> QED
    BY <2>1, <2>2, <2>3, SSHDialer, Zenon
<1> QED
  BY <1>1, StartupCorrect, PTL

(* What a running mode of each kind has from the Config.                   *)
LEMMA ModeIs ==
    ASSUME StartupInv, phase = "running"
    PROVE  /\ mode.kind \in {"reverse", "listen", "scan", "connect"}
           /\ mode.kind = "reverse" =>
                 mode.remotePort = cfg.remotePort /\ mode.localPort = cfg.localPort
           /\ mode.kind = "listen" =>
                 /\ mode.localPort = cfg.localPort /\ mode.timeout = cfg.timeout
                 /\ mode.network = "udp" <=> cfg.udp
           /\ mode.kind = "scan" =>
                 /\ mode.timeout = cfg.timeout
                 /\ mode.dialer # "ssh" => mode.sourcePort = cfg.localPort
           /\ mode.kind = "connect" =>
                 /\ mode.timeout = cfg.timeout
                 /\ mode.dialer # "ssh" => mode.sourcePort = cfg.localPort
                 /\ mode.network = "udp" <=> cfg.udp
<1>1. ASSUME mode.kind = "reverse"
      PROVE  mode.remotePort = cfg.remotePort /\ mode.localPort = cfg.localPort
  <2>1. mode = BuildReverse(cfg)
    BY <1>1, Kinds
  <2> QED
    BY <2>1, ModeFields, Zenon
<1>2. ASSUME mode.kind = "listen"
      PROVE  /\ mode.localPort = cfg.localPort /\ mode.timeout = cfg.timeout
             /\ mode.network = "udp" <=> cfg.udp
  <2>1. mode = BuildListen(cfg)
    BY <1>2, Kinds
  <2>2. mode.network = (IF cfg.udp THEN "udp" ELSE "tcp")
    BY <2>1, ModeFields, Zenon
  <2>3. mode.localPort = cfg.localPort /\ mode.timeout = cfg.timeout
    BY <2>1, ModeFields, Zenon
  <2>4. mode.network = "udp" <=> cfg.udp
    BY <2>2
  <2> QED
    BY <2>3, <2>4, Zenon
<1>3. ASSUME mode.kind = "scan"
      PROVE  /\ mode.timeout = cfg.timeout
             /\ mode.dialer # "ssh" => mode.sourcePort = cfg.localPort
  <2>1. mode = BuildScan(cfg)
    BY <1>3, Kinds
  <2>2. /\ mode.timeout = cfg.timeout /\ mode.dialer = DialerOf(cfg)
        /\ mode.sourcePort = (IF cfg.tunnel THEN 0 ELSE cfg.localPort)
    BY <2>1, ModeFields, Zenon
  <2> QED
    BY <2>2, SSHDialer, Zenon
<1>4. ASSUME mode.kind = "connect"
      PROVE  /\ mode.timeout = cfg.timeout
             /\ mode.dialer # "ssh" => mode.sourcePort = cfg.localPort
             /\ mode.network = "udp" <=> cfg.udp
  <2>1. mode = BuildConnect(cfg)
    BY <1>4, Kinds
  <2>2. /\ mode.timeout = cfg.timeout /\ mode.dialer = DialerOf(cfg)
        /\ mode.sourcePort = (IF cfg.tunnel THEN 0 ELSE cfg.localPort)
    BY <2>1, ModeFields, Zenon
  <2>3. mode.network = (IF cfg.udp THEN "udp" ELSE "tcp")
    BY <2>1, ModeFields, Zenon
  <2>4. mode.network = "udp" <=> cfg.udp
    BY <2>3
  <2> QED
    BY <2>2, <2>4, SSHDialer, Zenon
<1>5. mode.kind \in {"reverse", "listen", "scan", "connect"}
  BY Kinds
<1> QED
  BY <1>1, <1>2, <1>3, <1>4, <1>5, Zenon

(* A flag that was given decides, whatever the environment says: it        *)
(* reaches the mode that runs through every later step of Execute.         *)
THEOREM FlagsCorrect == Spec => []FlagsPrevail
<1>1. StartupInv => FlagsPrevail
  <2> SUFFICES ASSUME StartupInv, phase = "running" PROVE FlagsPrevail
    BY DEF FlagsPrevail
  <2>1. /\ Says("tunnelSpec") /\ Says("udp") /\ Says("remotePort")
        /\ Says("localPort") \/ flags["localPort"] = 0
        /\ Says("timeout") \/ ~(flags["timeout"] > 0)
    BY DEF StartupInv, FlagsKept, Parsing, Kept, Switches, Specs
  <2>2. "tunnelSpec" \in DOMAIN flags /\ flags.tunnelSpec = "" => ~cfg.tunnel
    BY <2>1, Running, Zenon DEF Says
  <2>3. "udp" \in DOMAIN flags /\ mode.kind \in {"connect", "listen"}
            => (mode.network = "udp" <=> flags.udp)
    <3>1. mode.kind \in {"connect", "listen"} => (mode.network = "udp" <=> cfg.udp)
      BY ModeIs, Zenon
    <3> QED
      BY <2>1, <3>1, Zenon DEF Says
  <2>4. "remotePort" \in DOMAIN flags /\ mode.kind = "reverse" => mode.remotePort = flags.remotePort
    BY <2>1, ModeIs, Zenon DEF Says
  <2>5. /\ mode.kind \in {"reverse", "listen"} => mode.localPort = cfg.localPort
        /\ mode.kind \in {"connect", "scan"} /\ mode.dialer # "ssh" => mode.sourcePort = cfg.localPort
        /\ mode.kind # "reverse" => mode.timeout = cfg.timeout
    BY ModeIs, Zenon
  <2>6. "localPort" \in DOMAIN flags /\ flags.localPort # 0 => cfg.localPort = flags.localPort
    BY <2>1, Zenon DEF Says
  <2>7. "timeout" \in DOMAIN flags /\ flags.timeout > 0 => cfg.timeout = flags.timeout
    BY <2>1, Zenon DEF Says
  <2> QED
    BY <2>2, <2>3, <2>4, <2>5, <2>6, <2>7, Zenon DEF FlagsPrevail
<1> QED
  BY <1>1, StartupCorrect, PTL

----------------------------------------------------------------------------
(* The login.  What is offered comes from what BuildAuthMethods collected, *)
(* in whatever order the gateway's lists bring it up, and nothing before   *)
(* the host is known if it has to be.                                      *)
Presented == {"key", "agent", "password", "identity", "interactive"}
Steps     == {"off", "failed", "hostkeys", "dial", "none", "login", "refused", "up"}
LoggingIn == {"none", "login", "refused", "up"}

Progress ==
    /\ step \in Steps
    /\ step # "off" => phase = "running"
    /\ step = "off" => methods = << >>
    /\ step \notin LoggingIn \cup {"failed"} => offered = {}
Collecting ==
    /\ methods \in Seq(Presented)
    /\ \A i \in DOMAIN methods :
          /\ methods[i] = "identity" => Explicit = << >>
          /\ methods[i] = "agent" => cfg.agent \/ Explicit = << >>
          /\ methods[i] = "interactive" => mode.kind = "reverse"
HostFirst ==
    cfg.strict /\ (step \in LoggingIn \/ offered # {}) => trusted
Offering == \A m \in offered : \E i \in DOMAIN methods : m = methods[i]

AuthInv == StartupInv /\ Progress /\ Collecting /\ HostFirst /\ Offering

LEMMA LoginInit == AuthInit => AuthInv
<1> SUFFICES ASSUME AuthInit PROVE AuthInv
  OBVIOUS
<1>1. StartupInv
  BY StartupInit DEF AuthInit
<1>2. step = "off" /\ methods = << >> /\ offered = {}
  BY DEF AuthInit
<1> QED
  BY <1>1, <1>2 DEF AuthInv, Progress, Collecting, HostFirst, Offering, Steps, LoggingIn

LEMMA ShortSeqs == ASSUME NEW S, NEW m \in S, NEW n \in S
                   PROVE  << >> \in Seq(S) /\ <<m>> \in Seq(S) /\ <<m, n>> \in Seq(S)
OBVIOUS

LEMMA ExplicitIs == Explicit \in Seq({m \in {"key", "agent", "password"} : m = "agent" => cfg.agent})
<1> DEFINE S == {m \in {"key", "agent", "password"} : m = "agent" => cfg.agent}
           key == IF cfg.keyPath THEN <<"key">> ELSE << >>
           agent == IF cfg.agent THEN <<"agent">> ELSE << >>
           password == IF cfg.password THEN <<"password">> ELSE << >>
<1>1. "key" \in S /\ "password" \in S /\ (cfg.agent => "agent" \in S)
  OBVIOUS
<1>2. Explicit = key \o agent \o password
  BY Zenon DEF Explicit
<1> HIDE DEF S
<1>3. key \in Seq(S) /\ agent \in Seq(S) /\ password \in Seq(S)
  BY <1>1, ShortSeqs, Zenon
<1> HIDE DEF key, agent, password
<1> QED
  BY <1>2, <1>3 DEF S

LEMMA CollectedIs ==
    ASSUME NEW c \in Collected
    PROVE  /\ c \in Seq(Presented \ {"interactive"})
           /\ \A i \in DOMAIN c : /\ c[i] = "identity" => Explicit = << >>
                                  /\ c[i] = "agent" => cfg.agent \/ Explicit = << >>
<1>1. CASE Explicit # << >>
  <2> DEFINE S == {m \in {"key", "agent", "password"} : m = "agent" => cfg.agent}
  <2>1. c \in Seq(S)
    BY <1>1, ExplicitIs, Zenon DEF Collected
  <2>2. S \subseteq Presented \ {"interactive"} /\ \A m \in S : m # "identity" /\ (m = "agent" => cfg.agent)
    BY DEF Presented
  <2> HIDE DEF S
  <2> QED
    BY <2>1, <2>2
<1>2. CASE Explicit = << >>
  <2> DEFINE D == {"agent", "identity"}
  <2>1. c \in DefaultAuthMethods
    BY <1>2, Zenon DEF Collected
  <2>2. "agent" \in D /\ "identity" \in D /\ D \subseteq Presented \ {"interactive"}
    BY DEF Presented
  <2> HIDE DEF D
  <2>3. c \in Seq(D)
    BY <2>1, <2>2, ShortSeqs, Zenon DEF DefaultAuthMethods
  <2> QED
    BY <1>2, <2>2, <2>3
<1> QED
  BY <1>1, <1>2

LEMMA CollectStep == ASSUME AuthInv, BuildAuthMethods PROVE AuthInv'
<1>1. PICK c \in Collected : methods' = IF AllowKeyboardInteractive THEN Append(c, "interactive") ELSE c
  BY DEF BuildAuthMethods
<1>2. /\ step = "off" /\ step' \in {"failed", "hostkeys"} /\ phase = "running"
      /\ UNCHANGED <<vars, trusted, offered>>
  BY DEF BuildAuthMethods, AuthStep, NeedsSSH, login
<1>3. offered = {}
  BY <1>2 DEF AuthInv, Progress, LoggingIn
<1>4. StartupInv'
  BY <1>2, StartupStutter DEF AuthInv
<1>5. Progress'
  BY <1>2, <1>3 DEF Progress, Steps, vars
<1>6. HostFirst' /\ Offering'
  BY <1>2, <1>3 DEF HostFirst, Offering, LoggingIn
<1>7. Collecting'
  <2>1. UNCHANGED <<Explicit, mode, cfg>>
    BY <1>2 DEF vars, Explicit
  <2>2. methods' \in Seq(Presented)
    BY <1>1, CollectedIs DEF Presented
  <2>3. ASSUME NEW i \in DOMAIN methods'
        PROVE  /\ methods'[i] = "identity" => Explicit = << >>
               /\ methods'[i] = "agent" => cfg.agent \/ Explicit = << >>
               /\ methods'[i] = "interactive" => mode.kind = "reverse"
    <3>1. CASE i \in DOMAIN c /\ methods'[i] = c[i]
      <4>1. c[i] # "interactive"
        BY <3>1, CollectedIs
      <4> QED
        BY <3>1, <4>1, CollectedIs
    <3>2. CASE AllowKeyboardInteractive /\ i = Len(methods') /\ methods'[i] = "interactive"
      BY <3>2 DEF AllowKeyboardInteractive
    <3> QED
      BY <1>1, <3>1, <3>2, CollectedIs
  <2> QED
    BY <2>1, <2>2, <2>3 DEF Collecting
<1> QED
  BY <1>4, <1>5, <1>6, <1>7 DEF AuthInv

LEMMA HandshakeStep ==
    ASSUME AuthInv,
           \/ ExplicitFails \/ HostKeyCallback \/ KeyExchange \/ NoSession
           \/ TryNone \/ NoneLeft \/ LoginBreaks
    PROVE  AuthInv'
<1>1. /\ UNCHANGED <<vars, methods, offered>>
      /\ step' \in {"failed", "dial", "none", "login", "refused", "up"} /\ step # "failed"
      /\ step # "off" \/ (phase = "running" /\ step' = "failed")
      /\ step' = "none" => (cfg.strict => trusted')
      /\ step' \in {"login", "refused", "up"} => step \in {"none", "login"}
      /\ (trusted' = trusted) \/ (step = "dial" /\ step' \in {"none", "failed"})
      /\ step \in LoggingIn => step' \in LoggingIn \cup {"failed"}
  BY DEF ExplicitFails, HostKeyCallback, KeyExchange, NoSession, TryNone, Answer, NoneLeft,
         LoginBreaks, AuthStep, NeedsSSH, LoggingIn, login
<1>2. StartupInv'
  BY <1>1, StartupStutter DEF AuthInv
<1>3. UNCHANGED <<Explicit, cfg, mode, phase>>
  BY <1>1 DEF Explicit, vars
<1>4. Progress'
  BY <1>1, <1>3 DEF AuthInv, Progress, Steps, LoggingIn
<1>5. Collecting' /\ Offering'
  BY <1>1, <1>3 DEF AuthInv, Collecting, Offering
<1>6. HostFirst'
  <2>1. CASE step = "dial" /\ step' \in {"none", "failed"}
    <3>1. offered = {}
      BY <2>1 DEF AuthInv, Progress, LoggingIn
    <3> QED
      BY <1>1, <1>3, <2>1, <3>1 DEF HostFirst, LoggingIn
  <2>2. CASE trusted' = trusted
    BY <1>1, <1>3, <2>2 DEF AuthInv, HostFirst, LoggingIn
  <2> QED
    BY <1>1, <2>1, <2>2
<1> QED
  BY <1>2, <1>4, <1>5, <1>6 DEF AuthInv

(* Whatever the gateway lists, what it is shown is one of our methods.     *)
LEMMA OfferStep == ASSUME AuthInv, Offer PROVE AuthInv'
<1>1. PICK i \in Eligible : offered' = offered \cup {methods[i]}
  BY DEF Offer
<1>2. step = "login" /\ step' \in {"login", "up"} /\ UNCHANGED <<vars, methods, trusted>>
  BY DEF Offer, Answer, AuthStep
<1>3. Progress /\ Collecting /\ HostFirst /\ Offering
  BY DEF AuthInv
<1>4. StartupInv'
  BY <1>2, StartupStutter DEF AuthInv
<1>5. UNCHANGED <<Explicit, cfg, mode, phase>>
  BY <1>2 DEF Explicit, vars
<1>6. Progress' /\ Collecting' /\ HostFirst'
  BY <1>2, <1>3, <1>5 DEF Progress, Collecting, HostFirst, Steps, LoggingIn
<1>7. Offering'
  BY <1>1, <1>2, <1>3 DEF Offering, Eligible
<1> QED
  BY <1>4, <1>6, <1>7 DEF AuthInv

LEMMA ExecuteStep == ASSUME AuthInv, [Next]_vars, UNCHANGED authVars PROVE AuthInv'
<1>1. StartupInv'
  BY StartupStep DEF AuthInv
<1>2. UNCHANGED <<step, methods, trusted, offered>>
  BY DEF authVars, login
<1>3. CASE step = "off"
  <2>1. methods = << >> /\ offered = {}
    BY <1>3 DEF AuthInv, Progress, LoggingIn
  <2> QED
    BY <1>1, <1>2, <1>3, <2>1 DEF AuthInv, Progress, Collecting, HostFirst, Offering, Steps,
                                  LoggingIn
<1>4. CASE step # "off"
  <2>1. phase = "running"
    BY <1>4 DEF AuthInv, Progress
  <2>2. UNCHANGED vars
    BY <2>1 DEF Next, LoadFromEnv, ParseFlags, ReverseGiven, ReverseAbsent, ReverseBad,
          ListenPositional, ConnectPositional, TunnelGiven, TunnelAbsent, TunnelBad,
          ValidateFails, Validated, Build, Ended
  <2>3. UNCHANGED <<Explicit, cfg, mode, phase>>
    BY <1>2, <2>2 DEF Explicit, vars
  <2>4. Progress' /\ Collecting' /\ HostFirst' /\ Offering'
    BY <1>2, <2>3 DEF AuthInv, Progress, Collecting, HostFirst, Offering
  <2> QED
    BY <1>1, <2>4 DEF AuthInv
<1> QED
  BY <1>3, <1>4

LEMMA LoginStep == AuthInv /\ [AuthNext]_<<vars, authVars>> => AuthInv'
BY CollectStep, HandshakeStep, OfferStep, ExecuteStep DEF AuthNext, Authenticate

(* What a gateway gets to see is what was asked for, whichever methods it  *)
(* lists, refuses or partly accepts: a flag for one credential excludes    *)
(* the defaults, the empty answers of keyboard-interactive are for reverse *)
(* tunnels only, and with --strict-hostkey nothing is offered to an        *)
(* unknown host.                                                           *)
THEOREM CredentialsCorrect == AuthSpec => []CredentialsAsConfigured
<1>1. AuthInv => CredentialsAsConfigured
  <2> DEFINE Asked(f) == f \in DOMAIN flags /\ flags[f]
  <2> SUFFICES ASSUME AuthInv PROVE CredentialsAsConfigured
    OBVIOUS
  <2>1. StartupInv /\ Progress /\ Collecting /\ HostFirst /\ Offering
    BY DEF AuthInv
  <2>2. CASE offered = {}
    BY <2>2 DEF CredentialsAsConfigured
  <2>3. CASE offered # {}
    <3>1. phase = "running"
      BY <2>1, <2>3 DEF Progress, LoggingIn
    <3>2. Says("keyPath") /\ Says("agent") /\ Says("password") /\ Says("strict")
      BY <2>1, <3>1 DEF StartupInv, FlagsKept, Parsing, Kept, Switches
    <3>3. ASSUME Asked("keyPath") \/ Asked("agent") \/ Asked("password") PROVE Explicit # << >>
      <4>1. cfg.keyPath \/ cfg.agent \/ cfg.password
        BY <3>2, <3>3, Zenon DEF Says
      <4> QED
        BY <4>1 DEF Explicit
    <3>4. /\ "identity" \in offered => Explicit = << >>
          /\ "agent" \in offered => cfg.agent \/ Explicit = << >>
          /\ "interactive" \in offered => mode.kind = "reverse"
      BY <2>1 DEF Offering, Collecting
    <3>5. mode.kind = "reverse" => cfg.reverseSpec # ""
      <4>1. mode.kind = "reverse" => cfg.reverse
        BY <2>1, <3>1, Kinds
      <4> QED
        BY <2>1, <3>1, <4>1, Running, Zenon
    <3>6. Asked("strict") => trusted
      BY <2>1, <2>3, <3>2, Zenon DEF HostFirst, Says
    <3> QED
      BY <3>3, <3>4, <3>5, <3>6 DEF CredentialsAsConfigured
  <2> QED
    BY <2>2, <2>3
<1> QED
  BY <1>1, LoginInit, LoginStep, PTL DEF AuthSpec

=============================================================================
