----------------------------- MODULE MCStartup -----------------------------
(***************************************************************************)
(* The invocations TLC checks: any combination of the flags that decide    *)
(* between the listening modes, any combination of those that matter to    *)
(* connect and scan, any combination of those that matter to the login,    *)
(* each in environments that set one thing.                                *)
(***************************************************************************)
EXTENDS SSHAuth, TLC

Unset == [f \in {} |-> 0]
Option(f, values) == {Unset} \cup {f :> v : v \in values}
And(A, B) == {a @@ b : a \in A, b \in B}

Environments ==
    {Unset} \cup
    {"timeout" :> 5, "udp" :> TRUE, "localPort" :> 3, "tunnelSpec" :> "good",
     "listen" :> TRUE @@ "localPort" :> 3, "host" :> "name", "noDNS" :> TRUE,
     "reverseSpec" :> "good" @@ "remotePort" :> 2, "agent" :> TRUE}

ListenFlags ==
    And(Option("listen", BOOLEAN),
    And(Option("localPort", {-1, 0, 1, 4}),
    And(Option("tunnelSpec", {"good", "bad"}),
    And(Option("reverseSpec", {"", "good", "bad"}),
    And(Option("remotePort", {1, 4}), Option("udp", {TRUE}))))))

ConnectFlags ==
    And(Option("zeroIO", {TRUE}),
    And(Option("udp", BOOLEAN),
    And(Option("timeout", {0, 4}),
    And(Option("tunnelSpec", {"", "good"}),
    And(Option("noDNS", {TRUE}),
    And(Option("dryRun", {TRUE}),
    And(Option("localPort", {1}),
    {Unset, "execute" :> TRUE, "execute" :> TRUE @@ "command" :> TRUE})))))))

LoginFlags ==
    And(Option("keyPath", {TRUE}),
    And(Option("agent", {TRUE}),
    And(Option("password", {TRUE}),
    And(Option("strict", {TRUE}),
    {"tunnelSpec" :> "good", "reverseSpec" :> "good" @@ "remotePort" :> 1}))))

CommandLines == ListenFlags \cup ConnectFlags \cup LoginFlags \cup {"help" :> TRUE}

Positionals ==
    {[host |-> "", ports |-> << >>],
     [host |-> "name", ports |-> << >>],
     [host |-> "name", ports |-> << <<1, 1>> >>],
     [host |-> "ip", ports |-> << <<2, 3>>, <<1, 1>> >>],
     [host |-> "ip", ports |-> << <<3, 4>> >>],
     [host |-> "ip", ports |-> << <<2, 1>> >>]}
=============================================================================
