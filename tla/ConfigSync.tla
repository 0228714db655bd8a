----------------------------- MODULE ConfigSync -----------------------------
(* How the configuration of one server travels from the center to its agent. *)
(* The center answers every report with the server's configuration           *)
(* (handleIngest); when an administrator edits an active server it also      *)
(* starts a goroutine that posts the configuration to the agent's control    *)
(* port (maybePushControlConfig), provided the last probe of that port       *)
(* succeeded.  Probes, pushes and reports all work on a copy they took under *)
(* the lock, and finish later, in any order.  The agent applies what it gets *)
(* in its report loop and in its control handlers.                           *)
EXTENDS Naturals, FiniteSets

CONSTANTS Intervals,    \* collection intervals
          PortLists,    \* port lists to probe, as sets; {} is an empty list
          CtlPorts,     \* valid control ports
          DefaultPort,  \* defaultControlPort, 38088 on both sides
          IPs,          \* addresses the agent may report from
          Hidden,       \* those the center cannot connect to: NAT, a firewall
          FilePorts,    \* ports in the agent's own configuration file
          Edits,        \* the edits the administrator chooses from
          MaxEdits, MaxMoves, MaxRestarts, MaxLosses,  \* bounds on each,
          MaxEvents                                    \* and on all together

\* Modes an administrator may ask for; any other string is "other".
AskedModes == {"active", "passive", "other"}

ASSUME SyncAssumption ==
    /\ Intervals \subseteq Nat \ {0} /\ Intervals # {} /\ CtlPorts \subseteq Nat \ {0}
    /\ DefaultPort \in CtlPorts /\ {{}, FilePorts} \subseteq PortLists
    /\ \A c \in Edits : c \in [interval : Intervals \cup {0}, ports : PortLists,
                                mode : AskedModes, port : Nat]
    /\ "none" \notin IPs /\ Hidden \subseteq IPs
    /\ {MaxEdits, MaxMoves, MaxRestarts, MaxLosses, MaxEvents} \subseteq Nat

VARIABLES
    \* the center
    cfg,        \* ss.cfg: interval (0: not set), ports, control mode and port
    default,    \* settings.DefaultCollectIntervalSeconds
    files,      \* servers.json and settings.json: what a restart finds of them
    lastIP,     \* ss.lastIP
    controlOK,  \* ss.controlOK
    probes,     \* probes of the control port under way
    pushJobs,   \* goroutines of maybePushControlConfig not yet running
    \* the network
    exchange,   \* the report the agent waits for
    late,       \* source addresses of reports the agent gave up on
    pushes,     \* pushes on their way, or in a handler of the agent
    \* the agent
    agentIP,
    rc,         \* runtimeConfig
    ctl,        \* controlManager: listening on port when mode is "active"
    \* what happened so far, against the bounds
    spent

center == <<cfg, default, files, lastIP, controlOK, probes, pushJobs>>
agent  == <<agentIP, rc, ctl>>
vars   == <<center, exchange, late, pushes, agent, spent>>

Spend(what, bound) ==
    /\ spent[what] < bound
    /\ spent.edits + spent.moves + spent.restarts + spent.losses < MaxEvents
    /\ spent' = [spent EXCEPT ![what] = @ + 1]

\* Mutant of ServerDefaults: leaving the active mode leaves the port behind.
ServerDefaultsKept(c) ==
    IF c.mode = "active"
    THEN [c EXCEPT !.port = IF @ \in CtlPorts THEN @ ELSE DefaultPort]
    ELSE [c EXCEPT !.mode = "passive"]

\* applyServerDefaults: an unknown mode is passive, and only active has a port.
ServerDefaults(c) ==
    IF c.mode = "active"
    THEN [c EXCEPT !.port = IF @ \in CtlPorts THEN @ ELSE DefaultPort]
    ELSE [c EXCEPT !.mode = "passive", !.port = 0]

EffectiveInterval == IF cfg.interval > 0 THEN cfg.interval ELSE default

NoExchange == [at |-> "none"]
Passive == [mode |-> "passive", port |-> 0]

\* The agent runs with its file until the center tells it otherwise.
FileConfig == [interval |-> CHOOSE i \in Intervals : TRUE, ports |-> FilePorts]

\* A server as enrollment or automatic registration creates it.
NewServer == [interval |-> 0, ports |-> {}, mode |-> "passive", port |-> 0]

\* The center has just loaded its files.
Init ==
    /\ \E c \in Edits \cup {NewServer} : cfg = ServerDefaults(c)
    /\ default \in Intervals
    /\ files = [cfg |-> cfg, default |-> default]
    /\ lastIP = "none" /\ controlOK = FALSE
    /\ probes = {} /\ pushJobs = 0
    /\ exchange = NoExchange /\ late = {} /\ pushes = {}
    /\ agentIP \in IPs
    /\ rc = FileConfig /\ ctl = Passive
    /\ spent = [edits |-> 0, moves |-> 0, restarts |-> 0, losses |-> 0]

-----------------------------------------------------------------------------
\* The administrator.

\* An edit is saved, or not: persistServersLocked and persistSettingsLocked drop
\* the error of a save, which leaves the former file.
Saved(file, content) == files' = [files EXCEPT ![file] = content]

Edit(file, content) ==
    \/ Spend("edits", MaxEdits) /\ Saved(file, content)
    \/ /\ spent.edits < MaxEdits /\ spent.losses < MaxLosses
       /\ spent.edits + spent.moves + spent.restarts + spent.losses + 1 < MaxEvents
       /\ spent' = [spent EXCEPT !.edits = @ + 1, !.losses = @ + 1]
       /\ UNCHANGED files

\* handleAdminServerUpsert replaces the configuration and starts a push; the
\* result of earlier probes stays.
Upsert(c) ==
    /\ cfg' = ServerDefaults(c)
    /\ Edit("cfg", cfg')
    /\ pushJobs' = pushJobs + 1
    /\ UNCHANGED <<default, lastIP, controlOK, probes, exchange, late, pushes, agent>>

\* handleAdminServerPatch changes the control mode, the port or both, forgets the
\* last probe and starts one of its own.
Patch(mode, port) ==
    /\ cfg' = ServerDefaults([cfg EXCEPT !.mode = mode, !.port = port])
    /\ Edit("cfg", cfg')
    /\ controlOK' = FALSE
    /\ probes' = IF cfg'.mode = "active" /\ lastIP # "none"
                 THEN probes \cup {[id |-> spent'.edits, ip |-> lastIP, port |-> cfg'.port,
                                    result |-> "pending"]}
                 ELSE probes
    /\ UNCHANGED <<default, lastIP, pushJobs, exchange, late, pushes, agent>>

\* handleAdminSettings: nothing is pushed.
SetDefault(i) ==
    /\ default' = i
    /\ Edit("default", i)
    /\ UNCHANGED <<cfg, lastIP, controlOK, probes, pushJobs, exchange, late, pushes, agent>>

\* An edit of another server saves this one's configuration too, and an edit of
\* another setting the interval.
SaveAgain ==
    /\ Saved("cfg", cfg) \/ Saved("default", default)
    /\ UNCHANGED <<cfg, default, lastIP, controlOK, probes, pushJobs, exchange, late, pushes, agent, spent>>

-----------------------------------------------------------------------------
\* Reports and their answers.

Report ==
    /\ exchange = NoExchange
    /\ exchange' = [at |-> "sent", ip |-> agentIP]
    /\ UNCHANGED <<center, late, pushes, agent, spent>>

\* The part of handleIngest about the control port: a report from another
\* address makes the last probe void.
SeenFrom(ip) ==
    /\ lastIP' = ip
    /\ controlOK' = (controlOK /\ ip = lastIP)

\* Mutant of Response: the global default wins over the server's interval.
ResponseDefault ==
    [interval |-> default, ports |-> cfg.ports, mode |-> cfg.mode, port |-> cfg.port]

Response ==
    [interval |-> EffectiveInterval, ports |-> cfg.ports, mode |-> cfg.mode, port |-> cfg.port]

Ingest ==
    /\ exchange.at = "sent"
    /\ SeenFrom(exchange.ip)
    /\ exchange' = [at |-> "answered", conf |-> Response]
    /\ UNCHANGED <<cfg, default, files, probes, pushJobs, late, pushes, agent, spent>>

\* The agent's client gives up after 8 s; the center may still be reading.
GiveUp ==
    /\ exchange # NoExchange
    /\ Spend("losses", MaxLosses)
    /\ exchange' = NoExchange
    /\ late' = IF exchange.at = "sent" THEN late \cup {exchange.ip} ELSE late
    /\ UNCHANGED <<center, pushes, agent>>

\* Nobody reads the answer to a report that was given up.
IngestLate(ip) ==
    /\ ip \in late
    /\ SeenFrom(ip)
    /\ late' = late \ {ip}
    /\ UNCHANGED <<cfg, default, files, probes, pushJobs, exchange, pushes, agent, spent>>

\* An empty list is encoded as null, which the agent takes for "not given".
Applied(c) ==
    rc' = [interval |-> c.interval, ports |-> IF c.ports = {} THEN rc.ports ELSE c.ports]

\* Mutant of Desired: a new listener is opened before the old one is closed, so
\* a port that is kept is refused.
DesiredReopened(mode, port) ==
    \/ mode # "active" /\ ctl' = Passive
    \/ /\ mode = "active"
       /\ ctl' = IF ctl.port = port THEN Passive ELSE [mode |-> mode, port |-> port]

\* controlManager.SetDesired: stop, keep, or restart on another port.
Desired(mode, port) ==
    \/ mode # "active" /\ ctl' = Passive
    \/ mode = "active" /\ ctl' = [mode |-> mode, port |-> port]

ApplyResponse ==
    /\ exchange.at = "answered"
    /\ Applied(exchange.conf)
    /\ Desired(exchange.conf.mode, exchange.conf.port)
    /\ exchange' = NoExchange
    /\ UNCHANGED <<center, late, pushes, agentIP, spent>>

\* As ApplyResponse, but the port is taken: SetDesired has closed the old
\* listener and leaves the manager passive, to try again at the next answer.
ApplyResponseNoPort ==
    /\ exchange.at = "answered"
    /\ exchange.conf.mode = "active" /\ ctl # [mode |-> "active", port |-> exchange.conf.port]
    /\ Spend("losses", MaxLosses)
    /\ Applied(exchange.conf)
    /\ ctl' = Passive
    /\ exchange' = NoExchange
    /\ UNCHANGED <<center, late, pushes, agentIP>>

-----------------------------------------------------------------------------
\* Probes of the control port, and pushes through it.

Reachable(ip, port) ==
    ip = agentIP /\ ip \notin Hidden /\ ctl = [mode |-> "active", port |-> port]

\* Mutant of ProbeRound: the default port is probed, not the server's.
ProbeRoundDefault ==
    /\ cfg.mode = "active" /\ lastIP # "none"
    /\ \A p \in probes : p.id # 0
    /\ probes' = probes \cup {[id |-> 0, ip |-> lastIP, port |-> DefaultPort, result |-> "pending"]}
    /\ UNCHANGED <<cfg, default, files, lastIP, controlOK, pushJobs, exchange, late, pushes, agent, spent>>

\* probeControlOnce, once every 12 s, takes its targets under the read lock; the
\* next round starts when this one is over.
ProbeRound ==
    /\ cfg.mode = "active" /\ lastIP # "none"
    /\ \A p \in probes : p.id # 0
    /\ probes' = probes \cup {[id |-> 0, ip |-> lastIP, port |-> cfg.port, result |-> "pending"]}
    /\ UNCHANGED <<cfg, default, files, lastIP, controlOK, pushJobs, exchange, late, pushes, agent, spent>>

\* The ping is answered, or not within 900 ms.
ProbeDone(p, result) ==
    /\ p \in probes /\ p.result = "pending"
    /\ probes' = (probes \ {p}) \cup {[p EXCEPT !.result = result]}
    /\ UNCHANGED <<cfg, default, files, lastIP, controlOK, pushJobs, exchange, late, pushes, agent>>
ProbeOK(p) == Reachable(p.ip, p.port) /\ ProbeDone(p, "ok") /\ UNCHANGED spent
ProbeFails(p) ==
    /\ ProbeDone(p, "failed")
    /\ IF Reachable(p.ip, p.port) THEN Spend("losses", MaxLosses) ELSE UNCHANGED spent

\* Mutant of ProbeWrite: a failed probe leaves the last result alone.
ProbeWriteOK(p) ==
    /\ p \in probes /\ p.result # "pending"
    /\ controlOK' = (controlOK \/ p.result = "ok")
    /\ probes' = probes \ {p}
    /\ UNCHANGED <<cfg, default, files, lastIP, pushJobs, exchange, late, pushes, agent, spent>>

\* The result is written whatever became of the address and the port meanwhile.
ProbeWrite(p) ==
    /\ p \in probes /\ p.result # "pending"
    /\ controlOK' = (p.result = "ok")
    /\ probes' = probes \ {p}
    /\ UNCHANGED <<cfg, default, files, lastIP, pushJobs, exchange, late, pushes, agent, spent>>

\* maybePushControlConfig looks at the server when its goroutine runs.
PushStart ==
    /\ pushJobs > 0
    /\ pushJobs' = pushJobs - 1
    /\ pushes' = IF cfg.mode = "active" /\ controlOK /\ lastIP # "none"
                 THEN pushes \cup {[id |-> <<spent.edits, pushJobs>>, at |-> "network", ip |-> lastIP,
                                    port |-> cfg.port, conf |-> Response]}
                 ELSE pushes
    /\ UNCHANGED <<cfg, default, files, lastIP, controlOK, probes, exchange, late, agent, spent>>

\* The agent's server hands the request to a handler; closing the listener
\* later does not stop it.
PushAccept(p) ==
    /\ p \in pushes /\ p.at = "network" /\ Reachable(p.ip, p.port)
    /\ pushes' = (pushes \ {p}) \cup {[p EXCEPT !.at = "handler"]}
    /\ UNCHANGED <<center, exchange, late, agent, spent>>

PushLost(p) ==
    /\ p \in pushes /\ p.at = "network"
    /\ pushes' = pushes \ {p}
    /\ UNCHANGED <<center, exchange, late, agent, spent>>

HandleConfig(p) ==
    /\ p \in pushes /\ p.at = "handler"
    /\ Applied(p.conf)
    /\ pushes' = pushes \ {p}
    /\ UNCHANGED <<center, exchange, late, agentIP, ctl, spent>>

-----------------------------------------------------------------------------
\* Restarts, and a new address.

\* Everything but what was saved of the configuration and the settings is lost.
CenterRestart ==
    /\ Spend("restarts", MaxRestarts)
    /\ cfg' = files.cfg /\ default' = files.default
    /\ lastIP' = "none" /\ controlOK' = FALSE /\ probes' = {} /\ pushJobs' = 0
    /\ exchange' = IF exchange.at = "sent" THEN NoExchange ELSE exchange
    /\ late' = {}
    /\ UNCHANGED <<files, pushes, agent>>

AgentRestart ==
    /\ Spend("restarts", MaxRestarts)
    /\ rc' = FileConfig /\ ctl' = Passive
    /\ exchange' = NoExchange
    /\ late' = IF exchange.at = "sent" THEN late \cup {exchange.ip} ELSE late
    /\ pushes' = {p \in pushes : p.at = "network"}
    /\ UNCHANGED <<center, agentIP>>

Move(ip) ==
    /\ ip # agentIP
    /\ Spend("moves", MaxMoves)
    /\ agentIP' = ip
    /\ UNCHANGED <<center, exchange, late, pushes, rc, ctl>>

Next ==
    \/ \E c \in Edits : Upsert(c)
    \/ \E mode \in {c.mode : c \in Edits} \cup {cfg.mode},
          port \in {c.port : c \in Edits} \cup {cfg.port} : Patch(mode, port)
    \/ \E i \in Intervals : SetDefault(i)
    \/ SaveAgain
    \/ Report \/ Ingest \/ GiveUp \/ ApplyResponse \/ ApplyResponseNoPort
    \/ \E ip \in late : IngestLate(ip)
    \/ ProbeRound \/ PushStart
    \/ \E p \in probes : ProbeOK(p) \/ ProbeFails(p) \/ ProbeWrite(p)
    \/ \E p \in pushes : PushAccept(p) \/ PushLost(p) \/ HandleConfig(p)
    \/ CenterRestart \/ AgentRestart
    \/ \E ip \in IPs : Move(ip)

\* The loops run on tickers, every request ends in an answer or a timeout, and
\* goroutines are scheduled.  Losses are bounded by MaxLosses, so a step that
\* is not lost for ever is taken.
Fairness ==
    /\ WF_vars(Report) /\ WF_vars(Ingest) /\ WF_vars(ApplyResponse)
    /\ WF_vars(\E ip \in late : IngestLate(ip))
    /\ WF_vars(ProbeRound) /\ WF_vars(PushStart)
    /\ WF_vars(\E p \in probes : p.id = 0 /\ (ProbeOK(p) \/ ProbeFails(p) \/ ProbeWrite(p)))
    /\ WF_vars(\E p \in probes : p.id # 0 /\ (ProbeOK(p) \/ ProbeFails(p) \/ ProbeWrite(p)))
    /\ WF_vars(\E p \in pushes : PushAccept(p) \/ PushLost(p) \/ HandleConfig(p))

Spec == Init /\ [][Next]_vars
FairSpec == Spec /\ Fairness

-----------------------------------------------------------------------------
Modes == {"active", "passive"}
Conf == [interval : Intervals, ports : PortLists, mode : Modes, port : CtlPorts \cup {0}]

ServerConfig ==
    {c \in [interval : Intervals \cup {0}, ports : PortLists, mode : Modes, port : CtlPorts \cup {0}] :
        c.mode = "passive" => c.port = 0}

\* Every variable stays in its type, and a passive server has no control port.
TypeOK ==
    /\ cfg \in ServerConfig /\ default \in Intervals
    /\ files \in [cfg : ServerConfig, default : Intervals]
    /\ lastIP \in IPs \cup {"none"} /\ controlOK \in BOOLEAN
    /\ probes \subseteq [id : Nat, ip : IPs, port : CtlPorts \cup {0},
                         result : {"pending", "ok", "failed"}]
    /\ pushJobs \in Nat
    /\ exchange \in {NoExchange} \cup [at : {"sent"}, ip : IPs]
                                 \cup [at : {"answered"}, conf : Conf]
    /\ late \subseteq IPs
    /\ pushes \subseteq [id : Nat \X Nat, at : {"network", "handler"}, ip : IPs,
                         port : CtlPorts \cup {0}, conf : Conf]
    /\ agentIP \in IPs
    /\ rc \in [interval : Intervals, ports : PortLists]
    /\ ctl \in [mode : Modes, port : CtlPorts \cup {0}]
    /\ spent \in [{"edits", "moves", "restarts", "losses"} -> Nat]

\* The agent runs with the center's configuration, up to an empty port list,
\* and listens for control requests exactly where the center looks.
InSync ==
    /\ rc.interval = EffectiveInterval
    /\ cfg.ports # {} => rc.ports = cfg.ports
    /\ ctl = [mode |-> cfg.mode, port |-> cfg.port]

\* In sync, and every copy of the configuration still under way is current.
Settled ==
    /\ InSync
    /\ \A p \in pushes : p.conf = Response
    /\ exchange.at = "answered" => exchange.conf = Response

\* From then on nothing the two sides do by themselves disturbs the agent: no
\* probe, push or report, in any order, only an edit, a loss or a restart.
SettledStays ==
    [][Settled /\ UNCHANGED <<cfg, default, spent>> => Settled']_vars

\* Whatever was overtaken, lost or restarted on the way: once the administrator
\* is done, the agent ends up with the last configuration and keeps it.
ConfigConverges == <>[]InSync

\* The control port of an active server that can be reached is found in the end,
\* after any change of port or address and any stale probe or late report.
ControlComesUp ==
    <>[](cfg.mode = "active" /\ agentIP \notin Hidden) => <>[]controlOK

\* A probe result that is not, or no longer, true of an active server is
\* corrected, also when the result of a probe of the former address is written
\* late: the dashboard does not show a dead control port as alive for ever.
StaleOK == cfg.mode = "active" /\ controlOK /\ ~Reachable(lastIP, cfg.port)
StaleOKHeals == StaleOK ~> ~StaleOK

\* The administrator's port list reaches the agent, an empty one included:
\* "return current config so agent can still self-heal" (ingest_handler.go:126).
PortsReachAgent == <>[](rc.ports = cfg.ports)
=============================================================================
