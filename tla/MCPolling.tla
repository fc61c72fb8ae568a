----------------------------- MODULE MCPolling -----------------------------
(* Instances of Polling for TLC. *)
EXTENDS Polling

Everywhere == [d \in Devices |-> TRUE]

\* Each source, and settings that name a Zabbix host without using it or miss one.
FourForms ==
    { [source |-> "zabbix_api", profile |-> None, host |-> TRUE],
      [source |-> "zabbix_api", profile |-> None, host |-> FALSE],
      [source |-> "disabled", profile |-> None, host |-> FALSE] }
    \cup [source : {"direct_snmp"}, profile : Profiles, host : {TRUE}]
=============================================================================
