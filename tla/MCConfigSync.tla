---------------------------- MODULE MCConfigSync ----------------------------
(* One server, two control ports, and edits chosen so that two of them race: *)
(* another interval, another port list, another control port or mode.        *)
EXTENDS ConfigSync

MCPortLists == {{}, {22}, {80}}
MCFilePorts == {22}
\* Enough to send the agent to another control port, and back to passive.
MCEdits ==
    {[interval |-> 0, ports |-> {}, mode |-> "active", port |-> 2],
     [interval |-> 1, ports |-> {80}, mode |-> "other", port |-> 0]}
MCNoPorts == {}
=============================================================================
