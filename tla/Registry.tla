------------------------------ MODULE Registry ------------------------------
(* Who may report: the tokens and servers the center keeps in memory and in  *)
(* secrets.json and servers.json, and the token each agent keeps in its      *)
(* configuration file.  Enrollment and the issuing of a token by hand take   *)
(* several steps under the center's lock, each with a save whose failure is  *)
(* ignored; a crash may fall between any two of them.  Files are replaced by *)
(* a rename: a crash leaves the old or the new one.  The same tokens sign    *)
(* what the center sends to the control port of an agent in active mode,     *)
(* here its probes.                                                          *)
EXTENDS Naturals

CONSTANTS Agents,
          MaxTokens, MaxCrashes, MaxFailures, MaxLosses     \* bounds

ASSUME RegistryAssumption ==
    /\ {MaxTokens, MaxCrashes, MaxFailures, MaxLosses} \subseteq Nat

NoToken == 0
IngestToken == 1    \* cfg.IngestToken, which every server may use
FirstToken == 2     \* randomTokenHex: each token made is a new number

VARIABLES
    \* the center
    autoRegister,   \* cfg.AllowAutoRegister
    enrolling,      \* agents installed with an enroll token; the others have
                    \* the center's own ingest token
    secrets,        \* the token of each agent
    servers,        \* the servers it knows, with their control mode
    secretsFile, serversFile,
    job,            \* the handler that holds s.mu, or Idle
    reached,        \* of these, the ones that reported: their address is known
    controlOK,      \* servers whose last probe was answered
    probes,         \* probes under way, with the token that signed them
    made,           \* tokens made so far
    \* the agents
    fileToken,      \* ingest_token in the agent's file
    canEnroll,      \* agents whose file still has the enroll token
    at,             \* "down", "asking", "answered", "running" or "listening"
    token,          \* the token a running or answered agent holds
    filled,         \* a token the administrator has been given for an agent
    \* what happened so far
    issued,         \* tokens the center has answered with
    lost,           \* agents whose answered token or server a restart lost
    unsaved,        \* agents for whose token or server a save has failed
    spent

memory == <<secrets, servers>>
disk   == <<secretsFile, serversFile>>
agent  == <<fileToken, canEnroll, at, token, filled>>
control == <<reached, controlOK, probes>>
config == <<autoRegister, enrolling>>
past   == <<issued, lost, unsaved>>
vars   == <<config, memory, disk, job, made, agent, control, past, spent>>

Idle == [who |-> "nobody"]
Modes == {"passive", "active"}
Known == {a \in Agents : servers[a] \in Modes}
Serving(a) == job # Idle /\ job.agent = a /\ job.who = "agent"
\* The request of an agent that is gone is still served.
Abandoned(a) == job' = IF Serving(a) THEN [job EXCEPT !.who = "gone"] ELSE job
Spend(what, bound) == spent[what] < bound /\ spent' = [spent EXCEPT ![what] = @ + 1]

Init ==
    /\ autoRegister \in BOOLEAN
    /\ enrolling \in SUBSET Agents
    /\ secrets = [a \in Agents |-> NoToken] /\ servers = [a \in Agents |-> "unknown"]
    /\ secretsFile = secrets /\ serversFile = servers
    /\ job = Idle /\ made = 0
    /\ reached = {} /\ controlOK = {} /\ probes = {}
    /\ fileToken = [a \in Agents |-> IF a \in enrolling THEN NoToken ELSE IngestToken]
    /\ canEnroll = enrolling
    /\ at = [a \in Agents |-> "down"] /\ token = [a \in Agents |-> NoToken]
    /\ filled = [a \in Agents |-> NoToken]
    /\ issued = {} /\ lost = {} /\ unsaved = {}
    /\ spent = [crashes |-> 0, failures |-> 0, losses |-> 0]

-----------------------------------------------------------------------------
\* The center.

\* What is changed for a is saved with the whole file, or is not, and nobody looks.
Saved(a, file, content) ==
    \/ file' = content /\ UNCHANGED <<spent, unsaved>>
    \/ UNCHANGED file /\ Spend("failures", MaxFailures) /\ unsaved' = unsaved \cup {a}

\* Mutant of EnsureToken: a token is made whatever the agent has.
EnsureTokenAnew(a, who) ==
    /\ job = Idle /\ made < MaxTokens
    /\ made' = made + 1
    /\ secrets' = [secrets EXCEPT ![a] = FirstToken + made]
    /\ Saved(a, secretsFile, secrets')
    /\ job' = [who |-> who, agent |-> a, step |-> "server"]
    /\ UNCHANGED <<config, servers, serversFile, agent, issued, lost, control>>

\* Mutant of EnsureToken: the token goes to the file and not to the map.
EnsureTokenUnstored(a, who) ==
    /\ job = Idle
    /\ IF secrets[a] # NoToken
       THEN UNCHANGED <<secretsFile, made, spent, unsaved>>
       ELSE /\ made < MaxTokens
            /\ made' = made + 1
            /\ Saved(a, secretsFile, [secrets EXCEPT ![a] = FirstToken + made])
    /\ job' = [who |-> who, agent |-> a, step |-> "server"]
    /\ UNCHANGED <<config, secrets, servers, serversFile, agent, issued, lost, control>>

\* handleEnroll and handleAdminIssueAgentToken: ensureAgentTokenLocked.
EnsureToken(a, who) ==
    /\ job = Idle
    /\ IF secrets[a] # NoToken
       THEN UNCHANGED <<secrets, secretsFile, made, spent, unsaved>>
       ELSE /\ made < MaxTokens
            /\ made' = made + 1
            /\ secrets' = [secrets EXCEPT ![a] = FirstToken + made]
            /\ Saved(a, secretsFile, secrets')
    /\ job' = [who |-> who, agent |-> a, step |-> "server"]
    /\ UNCHANGED <<config, servers, serversFile, agent, issued, lost, control>>

\* Mutant of Registered: the server is not saved.
RegisteredUnsaved(a) ==
    /\ servers' = IF a \in Known THEN servers ELSE [servers EXCEPT ![a] = "passive"]
    /\ UNCHANGED <<serversFile, spent, unsaved>>

\* A server nobody added is passive.
Registered(a) ==
    IF a \in Known THEN UNCHANGED <<servers, serversFile, spent, unsaved>>
    ELSE /\ servers' = [servers EXCEPT ![a] = "passive"]
         /\ Saved(a, serversFile, servers')

\* Then the server is created unless it is known.
EnsureServer ==
    /\ job # Idle /\ job.step = "server"
    /\ Registered(job.agent)
    /\ job' = [job EXCEPT !.step = "answer"]
    /\ UNCHANGED <<config, secrets, secretsFile, made, agent, issued, lost, control>>

\* The lock is released and the token sent.
Answer ==
    /\ job # Idle /\ job.step = "answer"
    /\ LET a == job.agent IN
       /\ issued' = issued \cup {[agent |-> a, token |-> secrets[a]]}
       /\ filled' = IF job.who = "admin" THEN [filled EXCEPT ![a] = secrets[a]] ELSE filled
       /\ IF Serving(a)
          THEN /\ at' = [at EXCEPT ![a] = "answered"]
               /\ token' = [token EXCEPT ![a] = secrets[a]]
          ELSE UNCHANGED <<at, token>>
    /\ job' = Idle
    /\ UNCHANGED <<config, memory, disk, made, fileToken, canEnroll, lost, unsaved, spent, control>>

\* The administrator asks for a token for an agent.
Issue(a) == EnsureToken(a, "admin")

\* handleAdminServerUpsert: the administrator adds a server or changes its mode.
Upsert(a, mode) ==
    /\ job = Idle
    /\ servers' = [servers EXCEPT ![a] = mode]
    /\ Saved(a, serversFile, servers')
    /\ UNCHANGED <<config, secrets, secretsFile, job, made, agent, issued, lost, control>>

\* The center dies at any point and starts again with its files.
CenterRestart ==
    /\ Spend("crashes", MaxCrashes)
    /\ secrets' = secretsFile /\ servers' = serversFile
    /\ lost' = lost \cup {a \in Agents :
                            /\ [agent |-> a, token |-> secrets[a]] \in issued
                            /\ \/ secrets[a] # secretsFile[a]
                               \/ a \in Known /\ serversFile[a] = "unknown"}
    /\ at' = [a \in Agents |-> IF Serving(a) THEN "down" ELSE at[a]]
    /\ job' = Idle
    /\ reached' = {} /\ controlOK' = {} /\ probes' = {}
    /\ UNCHANGED <<config, disk, made, fileToken, canEnroll, token, filled, issued, unsaved>>

-----------------------------------------------------------------------------
\* The agents.

\* main: an agent with a token runs, one without asks for it.
AgentStart(a) ==
    /\ at[a] = "down"
    /\ IF fileToken[a] # NoToken
       THEN /\ at' = [at EXCEPT ![a] = "running"]
            /\ token' = [token EXCEPT ![a] = fileToken[a]]
       ELSE /\ a \in canEnroll
            /\ at' = [at EXCEPT ![a] = "asking"]
            /\ UNCHANGED token
    /\ UNCHANGED <<config, memory, disk, job, made, fileToken, canEnroll, filled,
                   past, spent, control>>

\* The request of an agent that waits reaches the center.
Enroll(a) == at[a] = "asking" /\ job = Idle /\ EnsureToken(a, "agent")

\* No answer within 10 s, or none at all: the process ends and systemd starts
\* it again.  The center may still be at work on the request.
AskingFails(a) ==
    /\ at[a] = "asking"
    /\ Spend("losses", MaxLosses)
    /\ at' = [at EXCEPT ![a] = "down"]
    /\ Abandoned(a)
    /\ UNCHANGED <<config, memory, disk, made, fileToken, canEnroll, token, filled,
                   past, control>>

\* Mutant of WriteConfig: the enroll token is dropped before the token is there.
WriteConfigDropped(a) ==
    /\ at[a] = "answered"
    /\ canEnroll' = canEnroll \ {a}
    /\ at' = [at EXCEPT ![a] = "running"]
    /\ UNCHANGED <<config, memory, disk, job, made, fileToken, token, filled, past,
                   spent, control>>

\* writeConfigIngestToken: the enroll token is dropped with the same rename.
WriteConfig(a) ==
    /\ at[a] = "answered"
    /\ fileToken' = [fileToken EXCEPT ![a] = token[a]]
    /\ canEnroll' = canEnroll \ {a}
    /\ at' = [at EXCEPT ![a] = "running"]
    /\ UNCHANGED <<config, memory, disk, job, made, token, filled, past, spent, control>>

\* The agent dies, before or after it wrote its file.
AgentCrash(a) ==
    /\ at[a] # "down"
    /\ Spend("crashes", MaxCrashes)
    /\ at' = [at EXCEPT ![a] = "down"] /\ token' = [token EXCEPT ![a] = NoToken]
    /\ Abandoned(a)
    /\ UNCHANGED <<config, memory, disk, made, fileToken, canEnroll, filled, past, control>>

\* The administrator copies the token into the agent's file and restarts it.
Fill(a) ==
    /\ filled[a] # NoToken
    /\ fileToken' = [fileToken EXCEPT ![a] = filled[a]]
    /\ filled' = [filled EXCEPT ![a] = NoToken]
    /\ at' = [at EXCEPT ![a] = "down"] /\ token' = [token EXCEPT ![a] = NoToken]
    /\ Abandoned(a)
    /\ UNCHANGED <<config, memory, disk, made, canEnroll, past, spent, control>>

\* The center takes an agent's own token, or the shared one.
Authorized(a, t) == t = IngestToken \/ (secrets[a] # NoToken /\ t = secrets[a])

Runs(a) == at[a] \in {"running", "listening"}

\* handleIngest: a server nobody added is registered only if that is allowed.
\* The answer tells the agent its mode: it listens on its control port or not.
Report(a) ==
    /\ job = Idle /\ Runs(a)
    /\ Authorized(a, token[a])
    /\ a \in Known \/ autoRegister
    /\ Registered(a)
    /\ reached' = reached \cup {a}
    /\ at' = [at EXCEPT ![a] = IF servers'[a] = "active" THEN "listening" ELSE "running"]
    /\ UNCHANGED <<config, secrets, secretsFile, job, made, fileToken, canEnroll, token,
                   filled, controlOK, probes, issued, lost>>

-----------------------------------------------------------------------------
\* The control channel.

\* Mutant of Signed: the shared token for everybody.
SignedShared(a) == IngestToken

\* What the center sends to an agent's control port is signed with the agent's
\* token if it has one and with the shared one otherwise.
Signed(a) == IF secrets[a] # NoToken THEN secrets[a] ELSE IngestToken

\* A round of probes copies addresses and tokens of the active servers online.
ProbeStart(a) ==
    /\ job = Idle /\ a \in reached /\ servers[a] = "active"
    /\ Runs(a) /\ Authorized(a, token[a])      \* it reports: it is online
    /\ ~\E p \in probes : p.agent = a
    /\ probes' = probes \cup {[agent |-> a, token |-> Signed(a)]}
    /\ UNCHANGED <<config, memory, disk, job, made, agent, reached, controlOK, past,
                   spent>>

\* controlManager.authorize: only the token the agent started with will do.
Accepts(a, t) == at[a] = "listening" /\ t = token[a]

\* The answer, or the lack of one, becomes the control state of the server.
ProbeEnd(p) ==
    /\ job = Idle /\ p \in probes
    /\ probes' = probes \ {p}
    /\ \/ /\ controlOK' = IF Accepts(p.agent, p.token) THEN controlOK \cup {p.agent}
                           ELSE controlOK \ {p.agent}
          /\ UNCHANGED spent
       \/ controlOK' = controlOK \ {p.agent} /\ Spend("losses", MaxLosses)
    /\ UNCHANGED <<config, memory, disk, job, made, agent, reached, past>>

Next ==
    \/ EnsureServer \/ Answer \/ CenterRestart
    \/ \E a \in Agents :
          \/ Issue(a) \/ (\E mode \in Modes : Upsert(a, mode)) \/ AgentStart(a) \/ Enroll(a) \/ AskingFails(a)
          \/ WriteConfig(a) \/ AgentCrash(a) \/ Fill(a) \/ Report(a) \/ ProbeStart(a)
    \/ \E p \in probes : ProbeEnd(p)

\* systemd restarts the agent, its ticker makes reports and the center's probes,
\* requests reach the center, handlers run.
Fairness ==
    /\ WF_vars(EnsureServer) /\ WF_vars(Answer)
    /\ \A a \in Agents : /\ WF_vars(AgentStart(a)) /\ SF_vars(Enroll(a))
                         /\ WF_vars(WriteConfig(a)) /\ SF_vars(Report(a))
                         /\ SF_vars(ProbeStart(a))
                         /\ SF_vars(\E p \in probes : p.agent = a /\ ProbeEnd(p))

Spec == Init /\ [][Next]_vars
FairSpec == Spec /\ Fairness

-----------------------------------------------------------------------------
Tokens == Nat

Jobs == [who : {"agent", "gone", "admin"}, agent : Agents, step : {"server", "answer"}]
JobOK ==
    /\ job \in {Idle} \cup Jobs
    /\ job # Idle => job \in Jobs /\ secrets[job.agent] # NoToken
    /\ \A a \in Agents : Serving(a) => at[a] = "asking"
AgentsOK ==
    /\ fileToken \in [Agents -> Tokens] /\ canEnroll \subseteq Agents
    /\ at \in [Agents -> {"down", "asking", "answered", "running", "listening"}]
    /\ token \in [Agents -> Tokens] /\ filled \in [Agents -> Tokens]

\* Every variable stays in its type; a request is served while its agent waits,
\* or for one that is gone, and its token is there.
TypeOK ==
    /\ autoRegister \in BOOLEAN /\ enrolling \subseteq Agents
    /\ {secrets, secretsFile} \subseteq [Agents -> Tokens]
    /\ {servers, serversFile} \subseteq [Agents -> Modes \cup {"unknown"}]
    /\ JobOK /\ AgentsOK
    /\ made \in Nat
    /\ reached \subseteq Known /\ controlOK \subseteq reached
    /\ probes \subseteq [agent : reached, token : Tokens]
    /\ issued \subseteq [agent : Agents, token : Tokens]
    /\ lost \subseteq Agents /\ unsaved \subseteq Agents
    /\ spent \in [{"crashes", "failures", "losses"} -> Nat]

\* An agent has one token: whatever answers are lost, agents ask again, saves
\* fail or either side dies between two steps, every token ever answered is the
\* one the center still has, unless a restart lost it (ensureAgentTokenLocked).
TokensStand ==
    \A i \in issued : i.agent \notin lost => secrets[i.agent] = i.token

\* An agent that starts with an enroll token ends up running again and again
\* with a token of its own, as a server the center knows, unless a restart of
\* the center lost what had been answered.
EnrollmentSucceeds ==
    \A a \in Agents : a \in enrolling =>
        /\ []<>Runs(a)
        /\ <>[](a \in lost \/ (a \in Known /\ fileToken[a] = secrets[a]))

\* Only a failed save loses anything: an agent whose saves all worked keeps the
\* token it was answered and its server, wherever between the steps of its own
\* or another request the center dies, and whoever asked (secrets.go:65,
\* enroll_handler.go:95-121, admin_issue_token.go:35-61).
LossNeedsFailure == lost \subseteq unsaved

\* The control channel follows the tokens: an active agent that stays up with the token
\* the center has for it, or with the shared one while it has none, ends up with
\* its control port answering; one that stays up with another token (issued while
\* it runs with the shared one, control_push.go:44) ends up without, so that the
\* center does not go on pushing configurations it refuses.
ControlFollowsToken ==
    \A a \in Agents :
        /\ <>[](Runs(a) /\ servers[a] = "active"
                /\ token[a] = (IF secrets[a] = NoToken THEN IngestToken ELSE secrets[a]))
             => <>[](a \in controlOK)
        /\ <>[](Runs(a) /\ servers[a] = "active" /\ a \in reached
                /\ Authorized(a, token[a])
                /\ secrets[a] \notin {NoToken, token[a]})
             => <>[](a \notin controlOK)
=============================================================================
