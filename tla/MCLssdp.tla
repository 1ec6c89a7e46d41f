------------------------------- MODULE MCLssdp -------------------------------
(* Two hosts and two networks. *)
EXTENDS Lssdp, TLC

MCAddresses == {"127.0.0.1", "10.0.0.1", "10.0.0.2", "10.1.0.1", "10.0.0.3"}
MCNet == [a \in MCAddresses |-> CASE a = "127.0.0.1" -> "lo"
                                  [] a = "10.1.0.1" -> "wlan"
                                  [] OTHER -> "eth"]

\* The first host may have two interfaces in one network, or more interfaces
\* than fit; the second may take over an address of the first.
MCConfigs == "laptop" :> {<<"127.0.0.1", "10.0.0.1", "10.0.0.2">>, <<"10.0.0.1", "10.0.0.2">>,
                          <<"127.0.0.1", "10.1.0.1">>}
          @@ "pi" :> {<<"10.0.0.3">>, <<"10.0.0.1">>, <<>>}

=============================================================================
