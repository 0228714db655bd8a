--------------------------- MODULE ConfigSyncProofs ---------------------------
(* Proofs about ConfigSync for any edits, addresses, ports and bounds.       *)
EXTENDS ConfigSync, TLAPS

SpentType == [{"edits", "moves", "restarts", "losses"} -> Nat]

\* Whatever an administrator sends becomes a well-formed configuration.
LEMMA DefaultsType ==
    ASSUME NEW c \in [interval : Intervals \cup {0}, ports : PortLists,
                      mode : AskedModes, port : Nat]
    PROVE  ServerDefaults(c) \in ServerConfig
BY SyncAssumption DEF ServerDefaults, ServerConfig, Modes

\* A stored configuration with another mode or port is like one sent.
LEMMA PatchedType ==
    ASSUME NEW c \in ServerConfig, NEW mode \in AskedModes, NEW port \in Nat
    PROVE  [c EXCEPT !.mode = mode, !.port = port]
             \in [interval : Intervals \cup {0}, ports : PortLists, mode : AskedModes, port : Nat]
BY DEF ServerConfig

\* The answer to a report is a complete configuration.
LEMMA ResponseType == ASSUME TypeOK PROVE Response \in Conf
BY DEF TypeOK, ServerConfig, Response, Conf, EffectiveInterval

\* A bounded event keeps the counters typed and changes them.
LEMMA SpendType ==
    ASSUME spent \in SpentType, NEW what \in {"edits", "moves", "restarts", "losses"},
           NEW bound, Spend(what, bound)
    PROVE  spent' \in SpentType /\ spent' # spent
<1>1. spent'[what] = spent[what] + 1 /\ spent[what] \in Nat /\ spent' \in SpentType
  BY DEF Spend, SpentType
<1> QED BY <1>1

\* So does an edit, whether or not it is saved.
LEMMA EditSpends ==
    ASSUME spent \in SpentType, NEW file, NEW content, Edit(file, content)
    PROVE  spent' \in SpentType /\ spent' # spent
<1>1. CASE Spend("edits", MaxEdits)
  BY <1>1, SpendType
<1>2. CASE spent' = [spent EXCEPT !.edits = @ + 1, !.losses = @ + 1]
  <2>1. /\ DOMAIN spent = {"edits", "moves", "restarts", "losses"}
        /\ spent.edits \in Nat /\ spent.losses \in Nat /\ spent.moves \in Nat
        /\ spent.restarts \in Nat
    BY DEF SpentType
  <2>2. /\ spent' = [what \in {"edits", "moves", "restarts", "losses"} |-> spent'[what]]
        /\ spent'["edits"] = spent.edits + 1 /\ spent'["losses"] = spent.losses + 1
        /\ spent'["moves"] = spent.moves /\ spent'["restarts"] = spent.restarts
    BY <1>2, <2>1
  <2>3. spent' \in SpentType
    BY <2>1, <2>2 DEF SpentType
  <2> QED
    BY <2>1, <2>2, <2>3
<1> QED
  BY <1>1, <1>2 DEF Edit

\* The files stay well-formed under edits.
LEMMA EditType ==
    ASSUME TypeOK, NEW file \in {"cfg", "default"}, NEW content, Edit(file, content),
           content \in IF file = "cfg" THEN ServerConfig ELSE Intervals
    PROVE  files' \in [cfg : ServerConfig, default : Intervals] /\ spent' \in SpentType
BY EditSpends DEF Edit, Saved, TypeOK, SpentType

\* Applying a configuration keeps the agent's own one typed.
LEMMA AppliedType ==
    ASSUME TypeOK, NEW c \in Conf, Applied(c)
    PROVE  rc' \in [interval : Intervals, ports : PortLists]
BY DEF TypeOK, Applied, Conf

\* The probe that is done stays a probe.
LEMMA ProbeDoneType ==
    ASSUME TypeOK, NEW p \in probes, NEW result \in {"ok", "failed"},
           ProbeDone(p, result), spent' \in SpentType
    PROVE  TypeOK'
BY DEF TypeOK, ProbeDone, SpentType, agent

\* Every reachable state is typed.
THEOREM TypeCorrect == Spec => []TypeOK
<1>1. Init => TypeOK
  <2> SUFFICES ASSUME Init PROVE TypeOK
    OBVIOUS
  <2>1. cfg \in ServerConfig
    <3>1. NewServer \in [interval : Intervals \cup {0}, ports : PortLists,
                         mode : AskedModes, port : Nat]
      <4>1. /\ {} \in PortLists /\ 0 \in Intervals \cup {0} /\ 0 \in Nat
            /\ "passive" \in AskedModes
        BY SyncAssumption DEF AskedModes
      <4> QED BY <4>1 DEF NewServer
    <3>2. PICK c \in Edits \cup {NewServer} : cfg = ServerDefaults(c)
      BY DEF Init
    <3> QED BY <3>1, <3>2, DefaultsType, SyncAssumption
  <2>2. rc \in [interval : Intervals, ports : PortLists]
    BY SyncAssumption DEF Init, FileConfig
  <2>3. ctl \in [mode : Modes, port : CtlPorts \cup {0}]
    BY DEF Init, Passive, Modes
  <2>4. spent \in SpentType
    BY DEF Init, SpentType
  <2>5. /\ probes = {} /\ pushes = {} /\ late = {} /\ pushJobs = 0 /\ exchange = NoExchange
        /\ lastIP = "none" /\ controlOK = FALSE /\ agentIP \in IPs /\ default \in Intervals
        /\ files = [cfg |-> cfg, default |-> default]
    BY DEF Init
  <2> QED BY <2>1, <2>2, <2>3, <2>4, <2>5 DEF TypeOK, SpentType
<1>2. TypeOK /\ [Next]_vars => TypeOK'
  <2> SUFFICES ASSUME TypeOK, [Next]_vars PROVE TypeOK'
    OBVIOUS
  <2> USE DEF agent, center
  <2>s. spent \in SpentType /\ cfg \in ServerConfig
    BY DEF TypeOK, SpentType
  <2>1. ASSUME NEW c \in Edits, Upsert(c) PROVE TypeOK'
    <3>1. cfg' \in ServerConfig
      BY <2>1, DefaultsType, SyncAssumption DEF Upsert
    <3>2. files' \in [cfg : ServerConfig, default : Intervals] /\ spent' \in SpentType
      BY <2>1, <3>1, EditType DEF Upsert
    <3> QED BY <2>1, <3>1, <3>2 DEF Upsert, TypeOK, SpentType
  <2>2. ASSUME NEW mode \in {c.mode : c \in Edits} \cup {cfg.mode},
               NEW port \in {c.port : c \in Edits} \cup {cfg.port}, Patch(mode, port)
        PROVE  TypeOK'
    <3>0. \A c \in Edits : c.mode \in AskedModes /\ c.port \in Nat
      BY SyncAssumption
    <3>1. mode \in AskedModes /\ port \in Nat
      <4>1. cfg.mode \in AskedModes /\ cfg.port \in Nat
        <5>1. cfg.mode \in Modes /\ cfg.port \in CtlPorts \cup {0}
          BY DEF TypeOK, ServerConfig
        <5>2. Modes \subseteq AskedModes
          BY DEF Modes, AskedModes
        <5>3. CtlPorts \cup {0} \subseteq Nat
          BY SyncAssumption
        <5> QED BY <5>1, <5>2, <5>3
      <4>2. mode = cfg.mode \/ \E c \in Edits : mode = c.mode
        OBVIOUS
      <4>3. port = cfg.port \/ \E c \in Edits : port = c.port
        OBVIOUS
      <4> QED BY <3>0, <4>1, <4>2, <4>3
    <3>2. cfg' \in ServerConfig
      BY <2>2, <2>s, <3>1, DefaultsType, PatchedType DEF Patch
    <3>3. files' \in [cfg : ServerConfig, default : Intervals] /\ spent' \in SpentType
      BY <2>2, <3>2, EditType DEF Patch
    <3>4. spent'.edits \in Nat
      BY <2>2, <3>3 DEF SpentType
    <3>5. cfg'.port \in CtlPorts \cup {0}
      BY <3>2 DEF ServerConfig
    <3>6. probes' \subseteq [id : Nat, ip : IPs, port : CtlPorts \cup {0},
                             result : {"pending", "ok", "failed"}]
      <4>1. lastIP # "none" => lastIP \in IPs
        BY DEF TypeOK
      <4> QED BY <2>2, <3>4, <3>5, <4>1 DEF Patch, TypeOK
    <3>7. controlOK' = FALSE
      BY <2>2 DEF Patch
    <3> QED BY <2>2, <3>2, <3>3, <3>6, <3>7 DEF Patch, TypeOK, SpentType
  <2>3. ASSUME NEW i \in Intervals, SetDefault(i) PROVE TypeOK'
    <3>1. files' \in [cfg : ServerConfig, default : Intervals] /\ spent' \in SpentType
      BY <2>3, EditType DEF SetDefault
    <3> QED BY <2>3, <3>1 DEF SetDefault, TypeOK, SpentType
  <2>4. CASE Report
    BY <2>4 DEF Report, TypeOK
  <2>5. CASE Ingest
    <3>1. exchange.ip \in IPs
      BY <2>5 DEF Ingest, TypeOK, NoExchange
    <3> QED BY <2>5, <3>1, ResponseType DEF Ingest, SeenFrom, TypeOK
  <2>6. CASE GiveUp
    <3>1. spent' \in SpentType
      BY <2>6, <2>s, SpendType DEF GiveUp
    <3>2. exchange.at = "sent" => exchange.ip \in IPs
      BY DEF TypeOK, NoExchange
    <3> QED BY <2>6, <3>1, <3>2 DEF GiveUp, TypeOK, SpentType
  <2>7. CASE ApplyResponse
    <3>1. exchange.conf \in Conf
      BY <2>7 DEF ApplyResponse, TypeOK, NoExchange
    <3>2. ctl' \in [mode : Modes, port : CtlPorts \cup {0}]
      BY <2>7, <3>1 DEF ApplyResponse, Desired, Passive, Conf, Modes
    <3> QED BY <2>7, <3>1, <3>2, AppliedType DEF ApplyResponse, TypeOK
  <2>8. CASE ApplyResponseNoPort
    <3>1. exchange.conf \in Conf
      BY <2>8 DEF ApplyResponseNoPort, TypeOK, NoExchange
    <3>2. ctl' \in [mode : Modes, port : CtlPorts \cup {0}]
      BY <2>8 DEF ApplyResponseNoPort, Passive, Modes
    <3>3. spent' \in SpentType
      BY <2>8, <2>s, SpendType DEF ApplyResponseNoPort
    <3> QED BY <2>8, <3>1, <3>2, <3>3, AppliedType
            DEF ApplyResponseNoPort, TypeOK, SpentType
  <2>9. ASSUME NEW ip \in late, IngestLate(ip) PROVE TypeOK'
    BY <2>9 DEF IngestLate, SeenFrom, TypeOK
  <2>10. CASE ProbeRound
    BY <2>10 DEF ProbeRound, TypeOK, ServerConfig
  <2>11. CASE PushStart
    <3>1. <<spent.edits, pushJobs>> \in Nat \X Nat
      BY DEF TypeOK
    <3> QED BY <2>11, <3>1, ResponseType DEF PushStart, TypeOK, ServerConfig
  <2>12. ASSUME NEW p \in probes, ProbeOK(p) PROVE TypeOK'
    BY <2>12, <2>s, ProbeDoneType DEF ProbeOK
  <2>13. ASSUME NEW p \in probes, ProbeFails(p) PROVE TypeOK'
    <3>1. spent' \in SpentType
      BY <2>13, <2>s, SpendType DEF ProbeFails
    <3> QED BY <2>13, <3>1, ProbeDoneType DEF ProbeFails
  <2>14. ASSUME NEW p \in probes, ProbeWrite(p) PROVE TypeOK'
    BY <2>14 DEF ProbeWrite, TypeOK
  <2>15. ASSUME NEW p \in pushes, PushAccept(p) PROVE TypeOK'
    BY <2>15 DEF PushAccept, TypeOK
  <2>16. ASSUME NEW p \in pushes, PushLost(p) PROVE TypeOK'
    BY <2>16 DEF PushLost, TypeOK
  <2>17. ASSUME NEW p \in pushes, HandleConfig(p) PROVE TypeOK'
    <3>1. p.conf \in Conf
      BY DEF TypeOK
    <3> QED BY <2>17, <3>1, AppliedType DEF HandleConfig, TypeOK
  <2>18. CASE CenterRestart
    <3>1. spent' \in SpentType
      BY <2>18, <2>s, SpendType DEF CenterRestart
    <3> QED BY <2>18, <3>1 DEF CenterRestart, TypeOK, SpentType
  <2>19. CASE AgentRestart
    <3>1. spent' \in SpentType
      BY <2>19, <2>s, SpendType DEF AgentRestart
    <3>2. exchange.at = "sent" => exchange.ip \in IPs
      BY DEF TypeOK, NoExchange
    <3> QED BY <2>19, <3>1, <3>2, SyncAssumption
            DEF AgentRestart, TypeOK, SpentType, FileConfig, Passive, Modes
  <2>20. ASSUME NEW ip \in IPs, Move(ip) PROVE TypeOK'
    <3>1. spent' \in SpentType
      BY <2>20, <2>s, SpendType DEF Move
    <3> QED BY <2>20, <3>1 DEF Move, TypeOK, SpentType
  <2>21. CASE SaveAgain
    BY <2>21 DEF SaveAgain, Saved, TypeOK
  <2>22. CASE UNCHANGED vars
    BY <2>22 DEF vars, TypeOK
  <2> QED
    BY <2>1, <2>2, <2>3, <2>4, <2>5, <2>6, <2>7, <2>8, <2>9, <2>10, <2>11, <2>12,
       <2>13, <2>14, <2>15, <2>16, <2>17, <2>18, <2>19, <2>20, <2>21, <2>22 DEF Next
<1> QED BY <1>1, <1>2, PTL DEF Spec

-----------------------------------------------------------------------------
\* A step that leaves the agent alone, and puts no other copy of the
\* configuration under way, keeps it settled.
LEMMA SettledKept ==
    ASSUME Settled, UNCHANGED <<cfg, default, rc, ctl>>,
           \A p \in pushes' : p.conf = Response \/ \E q \in pushes : q.conf = p.conf,
           \/ exchange' = exchange
           \/ exchange'.at # "answered"
           \/ exchange'.conf = Response
    PROVE  Settled'
BY DEF Settled, InSync, Response, EffectiveInterval

\* An answer that is still current when it is applied brings the agent in sync.
LEMMA ApplyInSync ==
    ASSUME TypeOK, ApplyResponse, exchange.conf = Response
    PROVE  InSync'
<1> USE DEF center
<1>1. /\ Response.interval = EffectiveInterval /\ Response.ports = cfg.ports
      /\ Response.mode = cfg.mode /\ Response.port = cfg.port
  BY DEF Response
<1>2. /\ rc'.interval = EffectiveInterval
      /\ cfg.ports # {} => rc'.ports = cfg.ports
  BY <1>1 DEF ApplyResponse, Applied
<1>3. ctl' = [mode |-> cfg.mode, port |-> cfg.port]
  BY <1>1 DEF ApplyResponse, Desired, Passive, TypeOK, ServerConfig, Modes
<1> QED BY <1>2, <1>3 DEF ApplyResponse, InSync, EffectiveInterval

\* Once the agent has the center's configuration and no older copy is under
\* way, no interleaving of reports, probes and pushes takes it out of sync.
THEOREM SettledAgentStays == Spec => SettledStays
<1>1. TypeOK /\ [Next]_vars => [Settled /\ UNCHANGED <<cfg, default, spent>> => Settled']_vars
  <2> SUFFICES ASSUME TypeOK, [Next]_vars, Settled, UNCHANGED <<cfg, default, spent>>
               PROVE  Settled'
    OBVIOUS
  <2> USE DEF agent, center
  <2>s. \A what \in {"edits", "moves", "restarts", "losses"} : \A bound : ~Spend(what, bound)
    BY SpendType DEF TypeOK, SpentType
  <2>e. \A file, content : ~Edit(file, content)
    BY EditSpends DEF TypeOK, SpentType
  <2>1. CASE Ingest
    <3>1. exchange'.conf = Response /\ UNCHANGED <<cfg, default, rc, ctl, pushes>>
      BY <2>1 DEF Ingest
    <3> QED BY <3>1, SettledKept
  <2>2. CASE ApplyResponse
    <3>1. exchange.conf = Response
      BY <2>2 DEF ApplyResponse, Settled
    <3>2. InSync'
      BY <2>2, <3>1, ApplyInSync
    <3>3. Response' = Response /\ exchange' = NoExchange /\ pushes' = pushes
      BY <2>2 DEF ApplyResponse, Response, EffectiveInterval
    <3> QED BY <3>2, <3>3 DEF Settled, NoExchange
  <2>3. ASSUME NEW p \in pushes, HandleConfig(p) PROVE Settled'
    <3>1. p.conf = Response
      BY DEF Settled
    <3>2. InSync'
      BY <2>3, <3>1 DEF HandleConfig, Applied, InSync, Settled, Response, EffectiveInterval
    <3>3. Response' = Response /\ exchange' = exchange /\ pushes' \subseteq pushes
      BY <2>3 DEF HandleConfig, Response, EffectiveInterval
    <3> QED BY <3>2, <3>3 DEF Settled
  <2>4. CASE PushStart
    <3>1. \A p \in pushes' : p.conf = Response \/ p \in pushes
      BY <2>4 DEF PushStart
    <3> QED BY <2>4, <3>1, SettledKept DEF PushStart
  <2>5. ASSUME NEW p \in pushes, PushAccept(p) \/ PushLost(p) PROVE Settled'
    <3>1. [p EXCEPT !.at = "handler"].conf = p.conf
      BY DEF TypeOK
    <3>2. \A q \in pushes' : q \in pushes \/ q.conf = p.conf
      BY <2>5, <3>1 DEF PushAccept, PushLost
    <3> QED BY <2>5, <3>2, SettledKept DEF PushAccept, PushLost
  <2>6. CASE Report
    BY <2>6, SettledKept DEF Report
  <2>7. CASE /\ UNCHANGED <<exchange, pushes, rc, ctl>>
    BY <2>7, SettledKept
  <2>8. ASSUME NEW p \in probes, ProbeOK(p) \/ ProbeFails(p) \/ ProbeWrite(p)
        PROVE  UNCHANGED <<exchange, pushes, rc, ctl>>
    BY <2>8 DEF ProbeOK, ProbeFails, ProbeDone, ProbeWrite
  <2>9. ASSUME \/ \E ip \in late : IngestLate(ip)
               \/ ProbeRound \/ SaveAgain \/ UNCHANGED vars
        PROVE  UNCHANGED <<exchange, pushes, rc, ctl>>
    BY <2>9 DEF IngestLate, ProbeRound, SaveAgain, vars
  <2>10. /\ \A c : ~Upsert(c) /\ \A mode, port : ~Patch(mode, port)
         /\ \A i : ~SetDefault(i) /\ \A ip : ~Move(ip)
         /\ ~GiveUp /\ ~ApplyResponseNoPort /\ ~CenterRestart /\ ~AgentRestart
    BY <2>s, <2>e DEF Upsert, Patch, SetDefault, Move, GiveUp, ApplyResponseNoPort,
                CenterRestart, AgentRestart
  <2> QED
    BY <2>1, <2>2, <2>3, <2>4, <2>5, <2>6, <2>7, <2>8, <2>9, <2>10 DEF Next
<1> QED BY <1>1, TypeCorrect, PTL DEF Spec, SettledStays

-----------------------------------------------------------------------------
\* The outdated configurations on their way to the agent, or in one of its handlers.
UnderWay == {p.conf : p \in pushes}
              \cup {c \in {exchange.conf} : exchange.at = "answered"}
Outdated == UnderWay \ {Response}

\* A step that adds no copy but one of the present configuration outdates none.
LEMMA OutdatedShrinks ==
    ASSUME UNCHANGED <<cfg, default>>,
           \A p \in pushes' : p.conf = Response \/ \E q \in pushes : q.conf = p.conf,
           \/ exchange' = exchange
           \/ exchange'.at # "answered"
           \/ exchange'.conf = Response
    PROVE  Outdated' \subseteq Outdated
<1>1. Response' = Response
  BY DEF Response, EffectiveInterval
<1> SUFFICES ASSUME NEW c \in UnderWay', c # Response PROVE c \in UnderWay
  BY <1>1 DEF Outdated
<1> QED BY DEF UnderWay

\* Outdated copies only run out while nobody edits: no probe, push, report, loss,
\* restart or move brings a former configuration back under way.
THEOREM OutdatedRunOut ==
    Spec => [][UNCHANGED <<cfg, default>> => Outdated' \subseteq Outdated]_vars
<1>1. TypeOK /\ [Next]_vars
        => [UNCHANGED <<cfg, default>> => Outdated' \subseteq Outdated]_vars
  <2> SUFFICES ASSUME TypeOK, [Next]_vars, UNCHANGED <<cfg, default>>
               PROVE  Outdated' \subseteq Outdated
    OBVIOUS
  <2> USE DEF agent, center
  <2>1. CASE Ingest
    BY <2>1, OutdatedShrinks DEF Ingest
  <2>2. CASE Report \/ GiveUp \/ ApplyResponse \/ ApplyResponseNoPort
    <3>1. exchange'.at # "answered" /\ pushes' = pushes
      BY <2>2 DEF Report, GiveUp, ApplyResponse, ApplyResponseNoPort, NoExchange
    <3> QED BY <3>1, OutdatedShrinks
  <2>3. CASE CenterRestart \/ AgentRestart
    <3>1. /\ exchange' = exchange \/ exchange'.at # "answered"
          /\ pushes' \subseteq pushes
      BY <2>3 DEF CenterRestart, AgentRestart, NoExchange
    <3> QED BY <3>1, OutdatedShrinks
  <2>4. CASE PushStart
    <3>1. \A p \in pushes' : p.conf = Response \/ p \in pushes
      BY <2>4 DEF PushStart
    <3> QED BY <2>4, <3>1, OutdatedShrinks DEF PushStart
  <2>5. ASSUME NEW p \in pushes, PushAccept(p) \/ PushLost(p) \/ HandleConfig(p)
        PROVE  Outdated' \subseteq Outdated
    <3>1. [p EXCEPT !.at = "handler"].conf = p.conf
      BY DEF TypeOK
    <3>2. \A q \in pushes' : q \in pushes \/ q.conf = p.conf
      BY <2>5, <3>1 DEF PushAccept, PushLost, HandleConfig
    <3> QED BY <2>5, <3>2, OutdatedShrinks DEF PushAccept, PushLost, HandleConfig
  <2>6. CASE UNCHANGED <<exchange, pushes>>
    BY <2>6, OutdatedShrinks
  <2>7. ASSUME NEW p \in probes, ProbeOK(p) \/ ProbeFails(p) \/ ProbeWrite(p)
        PROVE  UNCHANGED <<exchange, pushes>>
    BY <2>7 DEF ProbeOK, ProbeFails, ProbeDone, ProbeWrite
  <2>8. ASSUME \/ \E c : Upsert(c)
               \/ \E mode, port : Patch(mode, port)
               \/ \E i : SetDefault(i)
               \/ \E ip : IngestLate(ip) \/ Move(ip)
               \/ ProbeRound \/ SaveAgain \/ UNCHANGED vars
        PROVE  UNCHANGED <<exchange, pushes>>
    BY <2>8 DEF Upsert, Patch, SetDefault, IngestLate, Move, ProbeRound, SaveAgain, vars
  <2> QED
    BY <2>1, <2>2, <2>3, <2>4, <2>5, <2>6, <2>7, <2>8 DEF Next
<1> QED BY <1>1, TypeCorrect, PTL DEF Spec

\* With no outdated copy under way, the answer the agent applies settles it,
\* whatever it ran with before.
THEOREM AnswerSettles ==
    Spec => [][ApplyResponse /\ Outdated = {} => Settled']_vars
<1>1. TypeOK /\ [Next]_vars => [ApplyResponse /\ Outdated = {} => Settled']_vars
  <2> SUFFICES ASSUME TypeOK, ApplyResponse, Outdated = {} PROVE Settled'
    OBVIOUS
  <2>1. exchange.conf = Response /\ \A p \in pushes : p.conf = Response
    BY DEF ApplyResponse, Outdated, UnderWay
  <2>2. InSync'
    BY <2>1, ApplyInSync
  <2>3. Response' = Response /\ exchange' = NoExchange /\ pushes' = pushes
    BY DEF ApplyResponse, Response, EffectiveInterval, center
  <2> QED BY <2>1, <2>2, <2>3 DEF Settled, NoExchange
<1> QED BY <1>1, TypeCorrect, PTL DEF Spec
=============================================================================
