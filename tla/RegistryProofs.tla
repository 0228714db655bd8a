--------------------------- MODULE RegistryProofs ---------------------------
(* Proofs about Registry for any agents, saves, losses and crashes.          *)
EXTENDS Registry, TLAPS

\* What registering a server changes: that server alone, which is known then.
LEMMA RegisteredStep ==
    ASSUME TypeOK, NEW a \in Agents, Registered(a)
    PROVE  /\ servers' \in [Agents -> Modes \cup {"unknown"}]
           /\ serversFile' \in {serversFile, servers'}
           /\ \A b \in Agents \ {a} : servers'[b] = servers[b]
           /\ Known' = Known \cup {a}
           /\ spent' \in [{"crashes", "failures", "losses"} -> Nat]
           /\ unsaved' \subseteq Agents /\ unsaved \subseteq unsaved'
           /\ \/ UNCHANGED <<servers, serversFile>> \/ serversFile' = servers'
              \/ serversFile' = serversFile /\ a \in unsaved'
<1>1. CASE a \in Known
  BY <1>1 DEF Registered, TypeOK, Known
<1>2. CASE a \notin Known
  <2>1. /\ servers' = [servers EXCEPT ![a] = "passive"]
        /\ \/ serversFile' = servers' /\ UNCHANGED <<spent, unsaved>>
           \/ /\ serversFile' = serversFile /\ unsaved' = unsaved \cup {a}
              /\ spent' = [spent EXCEPT !["failures"] = @ + 1]
    BY <1>2 DEF Registered, Saved, Spend
  <2>2. /\ servers' \in [Agents -> Modes \cup {"unknown"}] /\ servers'[a] = "passive"
        /\ \A b \in Agents \ {a} : servers'[b] = servers[b]
    BY <2>1 DEF TypeOK, Modes
  <2>3. Known' = Known \cup {a}
    BY <2>2 DEF Known, Modes
  <2>4. spent["failures"] \in Nat
    BY DEF TypeOK
  <2>5. spent' \in [{"crashes", "failures", "losses"} -> Nat]
    BY <2>1, <2>4 DEF TypeOK
  <2> QED
    BY <2>1, <2>2, <2>3, <2>5 DEF TypeOK
<1> QED
  BY <1>1, <1>2

\* Every step keeps the types, one action at a time.
LEMMA TypeStep ==
    ASSUME TypeOK, [Next]_vars PROVE TypeOK'
<1> USE DEF config, memory, disk, agent, control, past
<1>0. \A what \in {"crashes", "failures", "losses"} : \A bound :
        Spend(what, bound) => spent' \in [{"crashes", "failures", "losses"} -> Nat]
  <2> SUFFICES ASSUME NEW what \in {"crashes", "failures", "losses"}, NEW bound,
                      Spend(what, bound)
               PROVE  spent' \in [{"crashes", "failures", "losses"} -> Nat]
    OBVIOUS
  <2>1. spent' = [spent EXCEPT ![what] = spent[what] + 1] /\ spent[what] + 1 \in Nat
    BY DEF Spend, TypeOK
  <2> QED BY <2>1 DEF TypeOK
<1>1. ASSUME NEW a \in Agents, NEW who \in {"agent", "admin"}, EnsureToken(a, who),
             who = "agent" => at[a] = "asking"
      PROVE  TypeOK'
  <2>1. /\ job = Idle /\ job' = [who |-> who, agent |-> a, step |-> "server"]
        /\ UNCHANGED <<config, servers, serversFile, agent, control, issued, lost>>
    BY <1>1 DEF EnsureToken
  <2>2. /\ secrets' \in [Agents -> Tokens] /\ secretsFile' \in [Agents -> Tokens]
        /\ secrets'[a] # NoToken /\ made' \in Nat
        /\ spent' \in [{"crashes", "failures", "losses"} -> Nat] /\ unsaved' \subseteq Agents
    <3>1. CASE secrets[a] # NoToken
      BY <1>1, <3>1 DEF EnsureToken, TypeOK
    <3>2. CASE secrets[a] = NoToken
      <4>1. /\ made' = made + 1 /\ secrets' = [secrets EXCEPT ![a] = FirstToken + made]
            /\ Saved(a, secretsFile, secrets')
        BY <1>1, <3>2 DEF EnsureToken
      <4>2. FirstToken + made \in Tokens /\ FirstToken + made # NoToken /\ made' \in Nat
        BY <4>1 DEF TypeOK, FirstToken, NoToken, Tokens
      <4>3. secrets' \in [Agents -> Tokens] /\ secrets'[a] # NoToken
        BY <4>1, <4>2 DEF TypeOK
      <4>4. /\ secretsFile' \in [Agents -> Tokens]
            /\ spent' \in [{"crashes", "failures", "losses"} -> Nat] /\ unsaved' \subseteq Agents
        BY <1>0, <4>1, <4>3 DEF Saved, TypeOK
      <4> QED BY <4>2, <4>3, <4>4
    <3> QED BY <3>1, <3>2
  <2>3. JobOK'
    <3>1. job' \in Jobs /\ job'.agent = a /\ job'.who = who /\ at' = at
      BY <2>1 DEF Jobs
    <3>2. \A b \in Agents : Serving(b)' => at'[b] = "asking"
      BY <1>1, <3>1 DEF Serving
    <3> QED BY <2>2, <3>1, <3>2 DEF JobOK
  <2>4. AgentsOK'
    BY <2>1 DEF AgentsOK, TypeOK
  <2> QED BY <2>1, <2>2, <2>3, <2>4 DEF TypeOK, Known
<1>2. CASE EnsureServer
  <2>1. /\ job # Idle /\ job' = [job EXCEPT !.step = "answer"] /\ Registered(job.agent)
        /\ UNCHANGED <<config, secrets, secretsFile, made, agent, control, issued, lost>>
    BY <1>2 DEF EnsureServer
  <2>2. job \in Jobs /\ job.agent \in Agents
    BY <2>1 DEF TypeOK, JobOK, Jobs
  <2>3. job' \in Jobs /\ job'.agent = job.agent /\ job'.who = job.who
    BY <2>1, <2>2 DEF Jobs
  <2>4. /\ {servers', serversFile'} \subseteq [Agents -> Modes \cup {"unknown"}]
        /\ spent' \in [{"crashes", "failures", "losses"} -> Nat]
        /\ unsaved' \subseteq Agents /\ Known \subseteq Known'
    BY <2>1, <2>2, RegisteredStep DEF TypeOK
  <2>5. JobOK'
    BY <2>1, <2>3 DEF TypeOK, JobOK, Serving
  <2>6. AgentsOK'
    BY <2>1 DEF AgentsOK, TypeOK
  <2> QED BY <2>1, <2>4, <2>5, <2>6 DEF TypeOK
<1>3. CASE Answer
  <2>1. /\ job # Idle /\ job' = Idle
        /\ UNCHANGED <<config, memory, disk, made, fileToken, canEnroll, control, lost, unsaved,
                       spent>>
        /\ issued' = issued \cup {[agent |-> job.agent, token |-> secrets[job.agent]]}
        /\ filled' = filled \/ filled' = [filled EXCEPT ![job.agent] = secrets[job.agent]]
        /\ \/ UNCHANGED <<at, token>>
           \/ /\ at' = [at EXCEPT ![job.agent] = "answered"]
              /\ token' = [token EXCEPT ![job.agent] = secrets[job.agent]]
    BY <1>3 DEF Answer
  <2>2. job.agent \in Agents /\ secrets[job.agent] \in Tokens
    BY <2>1 DEF TypeOK, JobOK, Jobs
  <2>3. JobOK'
    BY <2>1 DEF JobOK, Serving, Idle
  <2>4. AgentsOK'
    BY <2>1, <2>2 DEF AgentsOK, TypeOK
  <2>5. issued' \subseteq [agent : Agents, token : Tokens]
    BY <2>1, <2>2 DEF TypeOK
  <2> QED BY <2>1, <2>3, <2>4, <2>5 DEF TypeOK, Known
<1>4. CASE CenterRestart
  <2>1. /\ secrets' = secretsFile /\ servers' = serversFile /\ job' = Idle
        /\ reached' = {} /\ controlOK' = {} /\ probes' = {}
        /\ at' = [a \in Agents |-> IF Serving(a) THEN "down" ELSE at[a]]
        /\ UNCHANGED <<config, disk, made, fileToken, canEnroll, token, filled, issued, unsaved>>
        /\ spent' \in [{"crashes", "failures", "losses"} -> Nat]
    BY <1>0, <1>4 DEF CenterRestart
  <2>2. lost' \subseteq Agents
    BY <1>4 DEF CenterRestart, TypeOK
  <2>3. AgentsOK'
    BY <2>1 DEF AgentsOK, TypeOK
  <2>4. JobOK'
    BY <2>1 DEF JobOK, Serving, Idle
  <2> QED BY <2>1, <2>2, <2>3, <2>4 DEF TypeOK, Known
<1>5. ASSUME NEW a \in Agents, Abandoned(a), AgentsOK', at' = [at EXCEPT ![a] = "down"],
             UNCHANGED <<config, memory, disk, made, control, past>>,
             spent' \in [{"crashes", "failures", "losses"} -> Nat]
      PROVE  TypeOK'
  <2>1. JobOK'
    <3>1. CASE Serving(a)
      <4>1. job # Idle /\ job \in Jobs /\ secrets[job.agent] # NoToken
            /\ job' = [job EXCEPT !.who = "gone"]
        BY <1>5, <3>1 DEF Abandoned, Serving, TypeOK, JobOK
      <4>2. job' \in Jobs /\ job'.who = "gone" /\ job'.agent = job.agent
        BY <4>1 DEF Jobs
      <4> QED BY <1>5, <4>1, <4>2 DEF JobOK, Serving
    <3>2. CASE ~Serving(a)
      <4>1. job' = job
        BY <1>5, <3>2 DEF Abandoned
      <4>2. \A b \in Agents : Serving(b) => b # a /\ at[b] = "asking"
        BY <3>2 DEF TypeOK, JobOK
      <4>3. \A b \in Agents : Serving(b)' => at'[b] = "asking"
        BY <1>5, <4>1, <4>2 DEF Serving, TypeOK, AgentsOK
      <4> QED BY <1>5, <4>1, <4>3 DEF TypeOK, JobOK
    <3> QED BY <3>1, <3>2
  <2> QED BY <1>5, <2>1 DEF TypeOK, Known
<1>6. ASSUME NEW a \in Agents, AskingFails(a) \/ AgentCrash(a) \/ Fill(a)
      PROVE  TypeOK'
  <2>1. /\ Abandoned(a) /\ at' = [at EXCEPT ![a] = "down"]
        /\ UNCHANGED <<config, memory, disk, made, control, past>>
        /\ UNCHANGED spent \/ spent' \in [{"crashes", "failures", "losses"} -> Nat]
    BY <1>0, <1>6 DEF AskingFails, AgentCrash, Fill
  <2>2. AgentsOK'
    BY <1>6 DEF AskingFails, AgentCrash, Fill, AgentsOK, TypeOK, Tokens, NoToken
  <2> QED BY <1>5, <2>1, <2>2 DEF TypeOK
<1>7. ASSUME NEW a \in Agents, NEW mode \in Modes, Upsert(a, mode) PROVE TypeOK'
  <2>1. /\ servers' = [servers EXCEPT ![a] = mode] /\ Saved(a, serversFile, servers')
        /\ UNCHANGED <<config, secrets, secretsFile, job, made, agent, control, issued, lost>>
    BY <1>7 DEF Upsert
  <2>2. servers' \in [Agents -> Modes \cup {"unknown"}] /\ Known \subseteq Known'
    BY <2>1 DEF TypeOK, Known
  <2>3. /\ serversFile' \in [Agents -> Modes \cup {"unknown"}] /\ unsaved' \subseteq Agents
        /\ spent' \in [{"crashes", "failures", "losses"} -> Nat]
    BY <1>0, <2>1, <2>2 DEF Saved, TypeOK
  <2> QED BY <2>1, <2>2, <2>3 DEF TypeOK, JobOK, Serving, AgentsOK
<1>13. ASSUME NEW a \in Agents, Report(a) PROVE TypeOK'
  <2>1. /\ job = Idle /\ Registered(a)
        /\ UNCHANGED <<config, secrets, secretsFile, job, made, fileToken, canEnroll, token,
                       filled, controlOK, probes, issued, lost>>
        /\ reached' = reached \cup {a}
        /\ at' = [at EXCEPT ![a] = IF servers'[a] = "active" THEN "listening" ELSE "running"]
    BY <1>13 DEF Report
  <2>2. AgentsOK'
    BY <2>1 DEF AgentsOK, TypeOK
  <2>3. JobOK'
    BY <2>1 DEF JobOK, Serving
  <2>4. /\ {servers', serversFile'} \subseteq [Agents -> Modes \cup {"unknown"}]
        /\ spent' \in [{"crashes", "failures", "losses"} -> Nat]
        /\ unsaved' \subseteq Agents /\ Known' = Known \cup {a}
    BY <2>1, RegisteredStep DEF TypeOK
  <2>5. reached' \subseteq Known' /\ reached \subseteq reached'
    BY <2>1, <2>4 DEF TypeOK
  <2>6. probes' \subseteq [agent : reached', token : Tokens] /\ controlOK' \subseteq reached'
    BY <2>1, <2>5 DEF TypeOK
  <2> QED BY <2>1, <2>2, <2>3, <2>4, <2>5, <2>6 DEF TypeOK
<1>8. ASSUME NEW a \in Agents, AgentStart(a) \/ WriteConfig(a) PROVE TypeOK'
  <2>1. /\ UNCHANGED <<config, memory, disk, job, made, filled, control, past, spent>>
        /\ ~Serving(a)
    BY <1>8 DEF AgentStart, WriteConfig, TypeOK, JobOK
  <2>2. AgentsOK' /\ \A b \in Agents : b # a => at'[b] = at[b]
    BY <1>8 DEF AgentStart, WriteConfig, AgentsOK, TypeOK
  <2>3. JobOK'
    BY <2>1, <2>2 DEF TypeOK, JobOK, Serving
  <2> QED BY <2>1, <2>2, <2>3 DEF TypeOK, Known
<1>9. ASSUME NEW a \in Agents, ProbeStart(a) PROVE TypeOK'
  <2>1. /\ probes' = probes \cup {[agent |-> a, token |-> Signed(a)]}
        /\ UNCHANGED <<config, memory, disk, job, made, agent, reached, controlOK, past,
                       spent>>
        /\ a \in reached
    BY <1>9 DEF ProbeStart
  <2>2. Signed(a) \in Tokens
    BY DEF Signed, IngestToken, TypeOK, Tokens
  <2> QED BY <2>1, <2>2 DEF TypeOK, JobOK, Serving, AgentsOK, Known
<1>10. ASSUME NEW p \in probes, ProbeEnd(p) PROVE TypeOK'
  <2>1. /\ probes' = probes \ {p}
        /\ controlOK' \in {controlOK \cup {p.agent}, controlOK \ {p.agent}}
        /\ UNCHANGED spent \/ spent' \in [{"crashes", "failures", "losses"} -> Nat]
        /\ UNCHANGED <<config, memory, disk, job, made, agent, reached, past>>
    BY <1>0, <1>10 DEF ProbeEnd
  <2>2. p.agent \in reached
    BY DEF TypeOK
  <2> QED BY <2>1, <2>2 DEF TypeOK, JobOK, Serving, AgentsOK, Known
<1>11. CASE UNCHANGED vars
  BY <1>11 DEF vars, TypeOK, JobOK, Serving, AgentsOK, Known
<1>12. ASSUME NEW a \in Agents, Issue(a) \/ Enroll(a) PROVE TypeOK'
  BY <1>1, <1>12 DEF Issue, Enroll
<1> QED
  BY <1>2, <1>3, <1>4, <1>6, <1>7, <1>8, <1>9, <1>10, <1>11, <1>12, <1>13 DEF Next

\* Every variable stays in its type, a request is served while its agent waits
\* or for one that is gone, and whoever is served has a token.
THEOREM TypeCorrect == Spec => []TypeOK
<1>1. Init => TypeOK
  <2> SUFFICES ASSUME Init PROVE TypeOK
    OBVIOUS
  <2>1. JobOK /\ AgentsOK /\ spent \in [{"crashes", "failures", "losses"} -> Nat]
    BY DEF Init, JobOK, AgentsOK, Serving, Idle, Tokens, NoToken, IngestToken
  <2> QED BY <2>1 DEF Init, TypeOK, Tokens, NoToken, Modes
<1>2. TypeOK /\ [Next]_vars => TypeOK'
  BY TypeStep
<1> QED BY <1>1, <1>2, PTL DEF Spec

\* What the center keeps in memory about tokens, against its file.
SecretsInv ==
    /\ \A i \in issued : secrets[i.agent] = i.token \/ i.agent \in lost
    /\ \A i \in issued : i.token # NoToken
    /\ \A a \in Agents : secretsFile[a] # NoToken => secrets[a] = secretsFile[a]
    /\ job # Idle => job.agent \in Agents /\ secrets[job.agent] # NoToken
    /\ made \in Nat
    /\ \A i \in issued : i \in [agent : Agents, token : Tokens]
    /\ secrets \in [Agents -> Tokens] /\ secretsFile \in [Agents -> Tokens]

\* Steps that leave the tokens and their file alone.
LEMMA SecretsKept ==
    ASSUME SecretsInv, UNCHANGED <<secrets, secretsFile, made, issued, lost>>,
           job' = Idle \/ (job # Idle /\ job'.agent = job.agent)
    PROVE  SecretsInv'
BY DEF SecretsInv

LEMMA SecretsInit == Init => SecretsInv
  BY DEF Init, SecretsInv, NoToken, Tokens

LEMMA SecretsStep == SecretsInv /\ [Next]_vars => SecretsInv'
<1> SUFFICES ASSUME SecretsInv, [Next]_vars PROVE SecretsInv'
  OBVIOUS
<1> USE DEF memory, disk, agent, past
<1>1. ASSUME NEW a \in Agents, NEW who, EnsureToken(a, who) PROVE SecretsInv'
  <2>0. job' = [who |-> who, agent |-> a, step |-> "server"] /\ UNCHANGED <<issued, lost>>
    BY <1>1 DEF EnsureToken
  <2>1. job'.agent = a
    BY <2>0
  <2>2. CASE secrets[a] # NoToken
    <3>1. UNCHANGED <<secrets, secretsFile, made>>
      BY <1>1, <2>2 DEF EnsureToken
    <3> QED BY <2>0, <2>1, <2>2, <3>1 DEF SecretsInv
  <2>3. CASE secrets[a] = NoToken
    <3>1. /\ made' = made + 1 /\ secrets' = [secrets EXCEPT ![a] = FirstToken + made]
          /\ secretsFile' = secrets' \/ secretsFile' = secretsFile
      BY <1>1, <2>3 DEF EnsureToken, Saved
    <3>2. FirstToken + made \in Nat /\ FirstToken + made # NoToken /\ made' \in Nat
      BY <3>1 DEF SecretsInv, FirstToken, NoToken
    <3>3. secrets' \in [Agents -> Tokens] /\ secrets'[a] # NoToken
      BY <3>1, <3>2 DEF SecretsInv, Tokens
    <3>4. secretsFile[a] = NoToken
      BY <2>3 DEF SecretsInv
    <3>5. \A b \in Agents : secretsFile'[b] # NoToken => secrets'[b] = secretsFile'[b]
      BY <3>1, <3>4 DEF SecretsInv
    <3>6. \A i \in issued : secrets'[i.agent] = i.token \/ i.agent \in lost
      <4> SUFFICES ASSUME NEW i \in issued, i.agent \notin lost
                   PROVE  secrets'[i.agent] = i.token
        OBVIOUS
      <4>1. secrets[i.agent] = i.token /\ i.token # NoToken /\ i.agent \in Agents
        BY DEF SecretsInv
      <4>2. i.agent # a
        BY <2>3, <4>1
      <4> QED BY <3>1, <4>1, <4>2 DEF SecretsInv
    <3>7. secretsFile' \in [Agents -> Tokens]
      BY <3>1, <3>3 DEF SecretsInv
    <3> QED BY <2>0, <2>1, <3>2, <3>3, <3>5, <3>6, <3>7 DEF SecretsInv
  <2> QED BY <2>2, <2>3
<1>2. CASE EnsureServer
  <2>1. job # Idle /\ job' = [job EXCEPT !.step = "answer"]
        /\ UNCHANGED <<secrets, secretsFile, made, issued, lost>>
    BY <1>2 DEF EnsureServer
  <2>2. job'.agent = job.agent
    BY <2>1
  <2> QED BY <2>1, <2>2, SecretsKept
<1>3. CASE Answer
  <2> DEFINE new == [agent |-> job.agent, token |-> secrets[job.agent]]
  <2>1. /\ issued' = issued \cup {new} /\ job' = Idle
        /\ UNCHANGED <<secrets, secretsFile, made, lost>> /\ job # Idle
    BY <1>3 DEF Answer
  <2>2. job.agent \in Agents /\ secrets[job.agent] # NoToken /\ secrets[job.agent] \in Tokens
    BY <2>1 DEF SecretsInv
  <2> QED BY <2>1, <2>2 DEF SecretsInv
<1>4. CASE CenterRestart
  <2>1. /\ secrets' = secretsFile /\ job' = Idle
        /\ UNCHANGED <<secretsFile, made, issued>>
        /\ lost' = lost \cup {a \in Agents :
                               /\ [agent |-> a, token |-> secrets[a]] \in issued
                               /\ \/ secrets[a] # secretsFile[a]
                                  \/ a \in Known /\ serversFile[a] = "unknown"}
    BY <1>4 DEF CenterRestart
  <2>2. \A i \in issued : secrets'[i.agent] = i.token \/ i.agent \in lost'
    <3> SUFFICES ASSUME NEW i \in issued, i.agent \notin lost'
                 PROVE  secretsFile[i.agent] = i.token
      BY <2>1
    <3>1. secrets[i.agent] = i.token /\ i.agent \in Agents
      BY <2>1 DEF SecretsInv
    <3>2. i = [agent |-> i.agent, token |-> secrets[i.agent]]
      BY <3>1 DEF SecretsInv
    <3>3. [agent |-> i.agent, token |-> secrets[i.agent]] \in issued
      BY <3>2
    <3> QED BY <2>1, <3>1, <3>3
  <2> QED BY <2>1, <2>2 DEF SecretsInv
<1>5. ASSUME NEW a \in Agents, Abandoned(a),
             UNCHANGED <<secrets, secretsFile, made, issued, lost>>
      PROVE  SecretsInv'
  <2>1. CASE Serving(a)
    <3>1. job # Idle /\ job' = [job EXCEPT !.who = "gone"]
      BY <1>5, <2>1 DEF Abandoned, Serving
    <3>2. job'.agent = job.agent
      BY <3>1
    <3> QED BY <1>5, <3>1, <3>2, SecretsKept
  <2>2. CASE ~Serving(a)
    BY <1>5, <2>2, SecretsKept DEF Abandoned
  <2> QED BY <2>1, <2>2
<1>6. ASSUME NEW a \in Agents, AskingFails(a) \/ AgentCrash(a) \/ Fill(a)
      PROVE  SecretsInv'
  BY <1>5, <1>6 DEF AskingFails, AgentCrash, Fill
<1>7. ASSUME NEW a \in Agents,
             \/ \E mode \in Modes : Upsert(a, mode)
             \/ AgentStart(a) \/ WriteConfig(a) \/ Report(a) \/ ProbeStart(a)
      PROVE  SecretsInv'
  BY <1>7, SecretsKept DEF Upsert, AgentStart, WriteConfig, Report, ProbeStart
<1>8. ASSUME NEW p \in probes, ProbeEnd(p) PROVE SecretsInv'
  BY <1>8, SecretsKept DEF ProbeEnd
<1>9. CASE UNCHANGED vars
  BY <1>9, SecretsKept DEF vars
<1> QED
  BY <1>1, <1>2, <1>3, <1>4, <1>6, <1>7, <1>8, <1>9 DEF Next, Issue, Enroll

\* A token once answered is the agent's token for good, unless a restart of the
\* center, after a save that failed, lost it.
THEOREM TokensStandAlways == Spec => []TokensStand
<1>1. SecretsInv => TokensStand
  BY DEF SecretsInv, TokensStand
<1> QED BY <1>1, SecretsInit, SecretsStep, PTL DEF Spec

-----------------------------------------------------------------------------
\* The tokens an agent was ever answered with, and with the one the center has
\* for it now.
Answered(a) == {i.token : i \in {j \in issued : j.agent = a}}
TokensOf(a) == {secrets[a]} \cup Answered(a)

\* Two agents never had a token in common, for each one made is a new one.
ApartInv ==
    /\ \A a \in Agents : \A t \in TokensOf(a) :
          t = NoToken \/ (FirstToken <= t /\ t < FirstToken + made)
    /\ \A a, b \in Agents : a # b => \A t \in TokensOf(a) \cap TokensOf(b) : t = NoToken

\* A token made for one agent is nobody's, and no others come to be.
LEMMA TokensStep ==
    ASSUME TypeOK, SecretsInv, [Next]_vars
    PROVE  \/ /\ made' = made
              /\ \A b \in Agents : TokensOf(b)' \subseteq TokensOf(b) \cup {NoToken}
           \/ /\ made' = made + 1
              /\ \E a \in Agents :
                    /\ TokensOf(a)' \subseteq TokensOf(a) \cup {FirstToken + made}
                    /\ \A b \in Agents \ {a} : TokensOf(b)' \subseteq TokensOf(b)
<1> USE DEF memory, disk, agent, past
<1>1. ASSUME NEW a \in Agents, NEW who, EnsureToken(a, who), secrets[a] = NoToken
      PROVE  /\ made' = made + 1
             /\ TokensOf(a)' \subseteq TokensOf(a) \cup {FirstToken + made}
             /\ \A b \in Agents \ {a} : TokensOf(b)' \subseteq TokensOf(b)
  <2>1. /\ made' = made + 1 /\ secrets' = [secrets EXCEPT ![a] = FirstToken + made]
        /\ issued' = issued
    BY <1>1 DEF EnsureToken
  <2>2. secrets'[a] = FirstToken + made /\ \A b \in Agents \ {a} : secrets'[b] = secrets[b]
    BY <2>1 DEF TypeOK
  <2> QED
    BY <2>1, <2>2 DEF TokensOf, Answered
<1>2. ASSUME NEW a \in Agents, NEW who, EnsureToken(a, who), secrets[a] # NoToken
      PROVE  UNCHANGED <<secrets, issued, made>>
  BY <1>2 DEF EnsureToken
<1>3. CASE Answer
  <2> DEFINE new == [agent |-> job.agent, token |-> secrets[job.agent]]
  <2>1. UNCHANGED <<secrets, made>> /\ issued' = issued \cup {new}
    BY <1>3 DEF Answer
  <2>2. ASSUME NEW b \in Agents, NEW t \in TokensOf(b)' PROVE t \in TokensOf(b)
    <3>1. CASE t = secrets'[b]
      BY <2>1, <3>1 DEF TokensOf
    <3>2. CASE t # secrets'[b]
      <4>1. PICK i \in issued' : i.agent = b /\ i.token = t
        BY <3>2 DEF TokensOf, Answered
      <4>2. CASE i \in issued
        BY <4>1, <4>2 DEF TokensOf, Answered
      <4>3. CASE i = new
        BY <4>1, <4>3 DEF TokensOf
      <4> QED
        BY <2>1, <4>2, <4>3
    <3> QED
      BY <3>1, <3>2
  <2> QED
    BY <2>1, <2>2
<1>4. CASE CenterRestart
  <2>1. UNCHANGED <<made, issued>> /\ secrets' = secretsFile
    BY <1>4 DEF CenterRestart
  <2>2. \A b \in Agents : secrets'[b] = NoToken \/ secrets'[b] = secrets[b]
    BY <2>1 DEF SecretsInv
  <2> QED
    BY <2>1, <2>2 DEF TokensOf, Answered
<1>5. ASSUME UNCHANGED <<secrets, issued, made>>
      PROVE  made' = made /\ \A b \in Agents : TokensOf(b)' \subseteq TokensOf(b)
  BY <1>5 DEF TokensOf, Answered
<1>6. CASE EnsureServer \/ UNCHANGED vars \/ \E p \in probes : ProbeEnd(p)
  BY <1>5, <1>6 DEF EnsureServer, ProbeEnd, vars
<1>7. ASSUME NEW a \in Agents,
             \/ \E mode \in Modes : Upsert(a, mode)
             \/ AgentStart(a) \/ AskingFails(a) \/ WriteConfig(a) \/ AgentCrash(a)
             \/ Fill(a) \/ Report(a) \/ ProbeStart(a)
      PROVE  UNCHANGED <<secrets, issued, made>>
  BY <1>7 DEF Upsert, AgentStart, AskingFails, WriteConfig, AgentCrash, Fill, Report, ProbeStart
<1>8. ASSUME NEW a \in Agents, Issue(a) \/ Enroll(a)
      PROVE  \E who : EnsureToken(a, who)
  BY <1>8 DEF Issue, Enroll
<1> QED
  BY <1>1, <1>2, <1>3, <1>4, <1>5, <1>6, <1>7, <1>8 DEF Next

LEMMA ApartStep ==
    ASSUME TypeOK, SecretsInv, ApartInv, [Next]_vars PROVE ApartInv'
<1>1. made \in Nat
  BY DEF TypeOK
<1>2. CASE made' = made /\ \A b \in Agents : TokensOf(b)' \subseteq TokensOf(b) \cup {NoToken}
  BY <1>2 DEF ApartInv
<1>3. ASSUME made' = made + 1, NEW a \in Agents,
             TokensOf(a)' \subseteq TokensOf(a) \cup {FirstToken + made},
             \A b \in Agents \ {a} : TokensOf(b)' \subseteq TokensOf(b)
      PROVE  ApartInv'
  <2>1. \A b \in Agents : \A t \in TokensOf(b) :
            t = NoToken \/ (t \in Nat /\ FirstToken <= t /\ t < FirstToken + made)
    <3>1. \A b \in Agents : \A t \in TokensOf(b) : t \in Nat
      BY DEF TypeOK, TokensOf, Answered, Tokens
    <3> QED
      BY <3>1 DEF ApartInv
  <2>2. \A b \in Agents : FirstToken + made \notin TokensOf(b)
    BY <1>1, <2>1 DEF FirstToken, NoToken
  <2>3. \A b \in Agents : \A t \in TokensOf(b)' :
            t = NoToken \/ (FirstToken <= t /\ t < FirstToken + made')
    <3> SUFFICES ASSUME NEW b \in Agents, NEW t \in TokensOf(b)'
                 PROVE  t = NoToken \/ (FirstToken <= t /\ t < FirstToken + made')
      OBVIOUS
    <3>1. t \in TokensOf(b) \/ t = FirstToken + made
      BY <1>3
    <3> QED
      BY <1>1, <1>3, <2>1, <3>1 DEF FirstToken
  <2>4. ASSUME NEW b \in Agents, NEW c \in Agents, b # c,
               NEW t \in TokensOf(b)' \cap TokensOf(c)'
        PROVE  t = NoToken
    <3>1. CASE t \in TokensOf(b) /\ t \in TokensOf(c)
      BY <2>4, <3>1 DEF ApartInv
    <3>2. CASE t = FirstToken + made
      BY <1>3, <2>2, <2>4, <3>2
    <3> QED
      BY <1>3, <2>4, <3>1, <3>2
  <2> QED
    BY <2>3, <2>4 DEF ApartInv
<1> QED
  BY <1>2, <1>3, TokensStep

\* What an agent holds was answered to it, is the shared token, or nothing; once
\* it has its answer it holds a token.
Given(a) == {NoToken, IngestToken} \cup Answered(a)
HeldInv ==
    \A a \in Agents :
        /\ {token[a], fileToken[a], filled[a]} \subseteq Given(a)
        /\ at[a] \in {"answered", "running", "listening"} => token[a] # NoToken

LEMMA HeldStep ==
    ASSUME TypeOK, SecretsInv, HeldInv, [Next]_vars PROVE HeldInv'
<1> USE DEF memory, disk, agent, past
<1>1. \A a \in Agents : Given(a) \subseteq Given(a)'
  <2>1. issued \subseteq issued'
    BY DEF Next, EnsureServer, Answer, CenterRestart, Issue, Upsert, AgentStart, Enroll,
           EnsureToken, AskingFails, WriteConfig, AgentCrash, Fill, Report, ProbeStart, ProbeEnd,
           vars
  <2> QED
    BY <2>1 DEF Given, Answered
<1>2. ASSUME UNCHANGED <<token, fileToken, filled>>,
             \A a \in Agents : at'[a] \in {at[a], "down", "asking"}
                                 \/ (Runs(a) /\ at'[a] \in {"running", "listening"})
      PROVE  HeldInv'
  BY <1>1, <1>2 DEF HeldInv, Runs
<1>3. CASE Answer
  <2>1. PICK a \in Agents : a = job.agent /\ secrets[a] # NoToken
    BY <1>3 DEF Answer, SecretsInv
  <2>2. /\ issued' = issued \cup {[agent |-> a, token |-> secrets[a]]} /\ UNCHANGED fileToken
        /\ filled' = filled \/ filled' = [filled EXCEPT ![a] = secrets[a]]
        /\ \/ UNCHANGED <<at, token>>
           \/ /\ at' = [at EXCEPT ![a] = "answered"]
              /\ token' = [token EXCEPT ![a] = secrets[a]]
    BY <1>3, <2>1 DEF Answer
  <2>3. secrets[a] \in Given(a)'
    <3> DEFINE new == [agent |-> a, token |-> secrets[a]]
    <3>1. new \in issued'
      BY <2>2
    <3>2. new.agent = a /\ new.token = secrets[a]
      OBVIOUS
    <3> HIDE DEF new
    <3> QED
      BY <3>1, <3>2 DEF Given, Answered
  <2>4. \A b \in Agents : /\ filled'[b] = filled[b] \/ (b = a /\ filled'[b] = secrets[a])
                          /\ \/ token'[b] = token[b] /\ at'[b] = at[b]
                             \/ b = a /\ token'[b] = secrets[a]
    BY <2>1, <2>2 DEF TypeOK, AgentsOK
  <2>5. ASSUME NEW b \in Agents
        PROVE  /\ {token'[b], fileToken'[b], filled'[b]} \subseteq Given(b)'
               /\ at'[b] \in {"answered", "running", "listening"} => token'[b] # NoToken
    <3>1. /\ {token[b], fileToken[b], filled[b]} \subseteq Given(b)'
          /\ at[b] \in {"answered", "running", "listening"} => token[b] # NoToken
      BY <1>1 DEF HeldInv
    <3> QED
      BY <2>1, <2>2, <2>3, <2>4, <3>1
  <2> QED
    BY <2>5 DEF HeldInv
<1>4. CASE CenterRestart
  <2>1. UNCHANGED <<token, fileToken, filled>>
        /\ \A a \in Agents : at'[a] \in {at[a], "down"}
    BY <1>4 DEF CenterRestart
  <2> QED
    BY <1>2, <2>1
<1>5. ASSUME NEW a \in Agents, AgentStart(a) PROVE HeldInv'
  <2>1. UNCHANGED <<fileToken, filled>>
    BY <1>5 DEF AgentStart
  <2>2. /\ \A b \in Agents \ {a} : at'[b] = at[b] /\ token'[b] = token[b]
        /\ \/ at'[a] = "running" /\ token'[a] = fileToken[a] /\ fileToken[a] # NoToken
           \/ at'[a] = "asking" /\ token'[a] = token[a]
    BY <1>5 DEF AgentStart, TypeOK, AgentsOK
  <2> QED
    BY <1>1, <2>1, <2>2 DEF HeldInv
<1>6. ASSUME NEW a \in Agents, WriteConfig(a) PROVE HeldInv'
  <2>1. /\ UNCHANGED <<token, filled>> /\ at[a] = "answered"
        /\ fileToken'[a] = token[a] /\ at'[a] = "running"
        /\ \A b \in Agents \ {a} : at'[b] = at[b] /\ fileToken'[b] = fileToken[b]
    BY <1>6 DEF WriteConfig, TypeOK, AgentsOK
  <2> QED
    BY <1>1, <2>1 DEF HeldInv
<1>7. ASSUME NEW a \in Agents, AgentCrash(a) PROVE HeldInv'
  <2>1. /\ UNCHANGED <<fileToken, filled>> /\ token'[a] = NoToken /\ at'[a] = "down"
        /\ \A b \in Agents \ {a} : at'[b] = at[b] /\ token'[b] = token[b]
    BY <1>7 DEF AgentCrash, TypeOK, AgentsOK
  <2> QED
    BY <1>1, <2>1 DEF HeldInv, Given
<1>8. ASSUME NEW a \in Agents, Fill(a) PROVE HeldInv'
  <2>1. /\ fileToken'[a] = filled[a] /\ filled'[a] = NoToken
        /\ token'[a] = NoToken /\ at'[a] = "down"
        /\ \A b \in Agents \ {a} : /\ at'[b] = at[b] /\ token'[b] = token[b]
                                    /\ fileToken'[b] = fileToken[b] /\ filled'[b] = filled[b]
    BY <1>8 DEF Fill, TypeOK, AgentsOK
  <2> QED
    BY <1>1, <2>1 DEF HeldInv, Given
<1>9. ASSUME NEW a \in Agents, AskingFails(a) \/ Report(a) PROVE HeldInv'
  <2>1. /\ UNCHANGED <<token, fileToken, filled>>
        /\ \A b \in Agents \ {a} : at'[b] = at[b]
        /\ at'[a] \in {at[a], "down"} \/ (Runs(a) /\ at'[a] \in {"running", "listening"})
    BY <1>9 DEF AskingFails, Report, TypeOK, AgentsOK
  <2> QED
    BY <1>2, <2>1
<1>10. ASSUME UNCHANGED agent PROVE HeldInv'
  BY <1>2, <1>10
<1>11. CASE EnsureServer \/ UNCHANGED vars \/ \E p \in probes : ProbeEnd(p)
  BY <1>10, <1>11 DEF EnsureServer, ProbeEnd, vars
<1>12. ASSUME NEW a \in Agents,
              Issue(a) \/ (\E mode \in Modes : Upsert(a, mode)) \/ Enroll(a) \/ ProbeStart(a)
       PROVE  HeldInv'
  BY <1>10, <1>12 DEF Issue, Enroll, EnsureToken, Upsert, ProbeStart
<1> QED
  BY <1>3, <1>4, <1>5, <1>6, <1>7, <1>8, <1>9, <1>11, <1>12 DEF Next

\* Whoever was answered is a server the center knows, unless a restart lost it.
KnownInv ==
    /\ \A i \in issued : i.agent \in Known \/ i.agent \in lost
    /\ job # Idle /\ job.step = "answer" => job.agent \in Known

LEMMA KnownStep ==
    ASSUME TypeOK, SecretsInv, KnownInv, [Next]_vars PROVE KnownInv'
<1> USE DEF memory, disk, agent, past
<1>1. ASSUME UNCHANGED <<issued, lost>>, Known \subseteq Known',
             job' = Idle \/ (job # Idle /\ job'.agent = job.agent /\ job'.step = job.step)
      PROVE  KnownInv'
  BY <1>1 DEF KnownInv
<1>2. ASSUME NEW a \in Agents, NEW who, EnsureToken(a, who) PROVE KnownInv'
  <2>1. /\ job' = [who |-> who, agent |-> a, step |-> "server"]
        /\ UNCHANGED <<servers, issued, lost>>
    BY <1>2 DEF EnsureToken
  <2>2. job'.step = "server"
    BY <2>1
  <2> QED
    BY <2>1, <2>2 DEF KnownInv, Known
<1>3. CASE EnsureServer
  <2>1. /\ job # Idle /\ job' = [job EXCEPT !.step = "answer"]
        /\ Registered(job.agent) /\ UNCHANGED <<issued, lost>>
    BY <1>3 DEF EnsureServer
  <2>2. job'.agent = job.agent /\ job.agent \in Agents
    BY <2>1 DEF SecretsInv
  <2>3. Known' = Known \cup {job.agent}
    BY <2>1, <2>2, RegisteredStep
  <2> QED
    BY <2>1, <2>2, <2>3 DEF KnownInv
<1>4. CASE Answer
  <2> DEFINE new == [agent |-> job.agent, token |-> secrets[job.agent]]
  <2>1. /\ issued' = issued \cup {new} /\ job' = Idle /\ UNCHANGED <<servers, lost>>
        /\ job # Idle /\ job.step = "answer"
    BY <1>4 DEF Answer
  <2> QED
    BY <2>1 DEF KnownInv, Known
<1>5. CASE CenterRestart
  <2>1. /\ servers' = serversFile /\ job' = Idle /\ UNCHANGED issued
        /\ lost' = lost \cup {a \in Agents :
                               /\ [agent |-> a, token |-> secrets[a]] \in issued
                               /\ \/ secrets[a] # secretsFile[a]
                                  \/ a \in Known /\ serversFile[a] = "unknown"}
    BY <1>5 DEF CenterRestart
  <2>2. ASSUME NEW i \in issued, i.agent \notin lost' PROVE i.agent \in Known'
    <3>1. i.agent \in Agents /\ secrets[i.agent] = i.token /\ i \in [agent : Agents, token : Tokens]
      BY <2>1, <2>2 DEF SecretsInv
    <3>2. i = [agent |-> i.agent, token |-> secrets[i.agent]]
      BY <3>1
    <3>3. i.agent \in Known
      BY <2>1, <2>2 DEF KnownInv
    <3>4. serversFile[i.agent] # "unknown"
      BY <2>1, <2>2, <3>1, <3>2, <3>3
    <3> QED
      BY <2>1, <3>1, <3>4 DEF Known, TypeOK
  <2> QED
    BY <2>1, <2>2 DEF KnownInv
<1>6. ASSUME NEW a \in Agents, Abandoned(a), UNCHANGED <<issued, lost, servers>>
      PROVE  KnownInv'
  <2>1. CASE Serving(a)
    <3>1. job # Idle /\ job' = [job EXCEPT !.who = "gone"]
      BY <1>6, <2>1 DEF Abandoned, Serving
    <3>2. job'.agent = job.agent /\ job'.step = job.step
      BY <3>1
    <3> QED
      BY <1>1, <1>6, <3>1, <3>2 DEF Known
  <2>2. CASE ~Serving(a)
    BY <1>6, <2>2 DEF Abandoned, KnownInv, Known
  <2> QED
    BY <2>1, <2>2
<1>7. ASSUME NEW a \in Agents, AskingFails(a) \/ AgentCrash(a) \/ Fill(a) PROVE KnownInv'
  BY <1>6, <1>7 DEF AskingFails, AgentCrash, Fill
<1>8. ASSUME NEW a \in Agents, AgentStart(a) \/ WriteConfig(a) \/ ProbeStart(a)
      PROVE  KnownInv'
  BY <1>8 DEF AgentStart, WriteConfig, ProbeStart, KnownInv, Known
<1>9. CASE UNCHANGED vars \/ \E p \in probes : ProbeEnd(p)
  BY <1>9 DEF vars, ProbeEnd, KnownInv, Known
<1>10. ASSUME NEW a \in Agents, Report(a) PROVE KnownInv'
  <2>1. UNCHANGED <<issued, lost, job>> /\ Registered(a)
    BY <1>10 DEF Report
  <2>2. Known \subseteq Known'
    BY <2>1, RegisteredStep
  <2> QED
    BY <2>1, <2>2 DEF KnownInv
<1>11. ASSUME NEW a \in Agents, NEW mode \in Modes, Upsert(a, mode) PROVE KnownInv'
  <2>1. UNCHANGED <<issued, lost, job>> /\ servers' = [servers EXCEPT ![a] = mode]
    BY <1>11 DEF Upsert
  <2>2. Known \subseteq Known'
    BY <2>1 DEF Known, TypeOK
  <2> QED
    BY <2>1, <2>2 DEF KnownInv
<1> QED
  BY <1>2, <1>3, <1>4, <1>5, <1>7, <1>8, <1>9, <1>10, <1>11 DEF Next, Issue, Enroll

\* What is in memory and not in the files is of agents for which a save failed.
UnsavedInv ==
    /\ lost \subseteq unsaved
    /\ \A a \in Agents \ unsaved :
          secrets[a] = secretsFile[a] /\ (a \in Known => serversFile[a] # "unknown")

LEMMA UnsavedStep ==
    ASSUME TypeOK, UnsavedInv, [Next]_vars PROVE UnsavedInv'
<1> USE DEF memory, disk, past
<1>1. ASSUME NEW a \in Agents, NEW who, EnsureToken(a, who) PROVE UnsavedInv'
  <2>1. UNCHANGED <<servers, serversFile, lost>>
    BY <1>1 DEF EnsureToken
  <2>2. CASE UNCHANGED <<secrets, secretsFile, unsaved>>
    BY <2>1, <2>2 DEF UnsavedInv, Known
  <2>3. CASE secretsFile' = secrets' /\ unsaved' = unsaved
    BY <2>1, <2>3 DEF UnsavedInv, Known
  <2>4. CASE /\ secrets' = [secrets EXCEPT ![a] = FirstToken + made]
             /\ secretsFile' = secretsFile /\ unsaved' = unsaved \cup {a}
    <3>1. \A b \in Agents \ {a} : secrets'[b] = secrets[b]
      BY <2>4 DEF TypeOK
    <3> QED
      BY <2>1, <2>4, <3>1 DEF UnsavedInv, Known
  <2> QED
    BY <1>1, <2>2, <2>3, <2>4 DEF EnsureToken, Saved
<1>2. ASSUME NEW a \in Agents, UNCHANGED <<secrets, secretsFile, lost>>, TypeOK',
             unsaved \subseteq unsaved',
             \A b \in Agents \ {a} : servers'[b] = servers[b],
             \/ serversFile' = servers'
             \/ serversFile' = serversFile /\ (a \in unsaved' \/ servers' = servers)
      PROVE  UnsavedInv'
  BY <1>2 DEF UnsavedInv, Known, Modes
<1>3. ASSUME NEW a \in Agents, Registered(a), UNCHANGED <<secrets, secretsFile, lost>>, TypeOK'
      PROVE  UnsavedInv'
  BY <1>2, <1>3, RegisteredStep
<1>4. CASE EnsureServer
  <2>1. job.agent \in Agents
    BY <1>4 DEF EnsureServer, TypeOK, JobOK, Jobs
  <2> QED
    BY <1>3, <1>4, <2>1, TypeStep DEF EnsureServer
<1>5. ASSUME NEW a \in Agents, Report(a) PROVE UnsavedInv'
  BY <1>3, <1>5, TypeStep DEF Report
<1>6. ASSUME NEW a \in Agents, NEW mode \in Modes, Upsert(a, mode) PROVE UnsavedInv'
  <2>1. /\ UNCHANGED <<secrets, secretsFile, lost>> /\ servers' = [servers EXCEPT ![a] = mode]
        /\ \/ serversFile' = servers' /\ unsaved' = unsaved
           \/ serversFile' = serversFile /\ unsaved' = unsaved \cup {a}
    BY <1>6 DEF Upsert, Saved
  <2>2. \A b \in Agents \ {a} : servers'[b] = servers[b]
    BY <2>1 DEF TypeOK
  <2> QED
    BY <1>2, <2>1, <2>2, TypeStep
<1>7. CASE CenterRestart
  <2>1. /\ secrets' = secretsFile /\ servers' = serversFile
        /\ UNCHANGED <<secretsFile, serversFile, unsaved>>
        /\ lost' \subseteq lost \cup {a \in Agents :
                                      \/ secrets[a] # secretsFile[a]
                                      \/ a \in Known /\ serversFile[a] = "unknown"}
    BY <1>7 DEF CenterRestart
  <2>2. lost' \subseteq unsaved
    BY <2>1 DEF UnsavedInv
  <2> QED
    BY <2>1, <2>2 DEF UnsavedInv, Known, Modes
<1>8. ASSUME UNCHANGED <<secrets, servers, secretsFile, serversFile, lost, unsaved>>
      PROVE  UnsavedInv'
  BY <1>8 DEF UnsavedInv, Known
<1>9. CASE Answer \/ UNCHANGED vars \/ \E p \in probes : ProbeEnd(p)
  BY <1>8, <1>9 DEF Answer, ProbeEnd, vars
<1>10. ASSUME NEW a \in Agents,
              AgentStart(a) \/ AskingFails(a) \/ WriteConfig(a) \/ AgentCrash(a)
              \/ Fill(a) \/ ProbeStart(a)
       PROVE  UnsavedInv'
  BY <1>8, <1>10 DEF AgentStart, AskingFails, WriteConfig, AgentCrash, Fill, ProbeStart
<1> QED
  BY <1>1, <1>4, <1>5, <1>6, <1>7, <1>9, <1>10 DEF Next, Issue, Enroll

\* Only a failed save loses anything: whatever requests the center's deaths cut
\* short and however often, an agent for which every save worked keeps the token
\* it was answered and its server.
THEOREM LossNeedsFailureAlways == Spec => []LossNeedsFailure
<1>1. Init => UnsavedInv
  BY DEF Init, UnsavedInv, Known, Modes
<1>2. UnsavedInv => LossNeedsFailure
  BY DEF UnsavedInv, LossNeedsFailure
<1> QED
  BY <1>1, <1>2, TypeCorrect, UnsavedStep, PTL DEF Spec

TokensInv == TypeOK /\ SecretsInv /\ ApartInv /\ HeldInv /\ KnownInv

LEMMA TokensInvariant == Spec => []TokensInv
<1>1. Init => ApartInv /\ HeldInv /\ KnownInv
  BY DEF Init, ApartInv, TokensOf, Answered, HeldInv, Given, KnownInv
<1>2. TypeOK /\ SecretsInv /\ ApartInv /\ [Next]_vars => ApartInv'
  BY ApartStep
<1>3. TypeOK /\ SecretsInv /\ HeldInv /\ [Next]_vars => HeldInv'
  BY HeldStep
<1>4. TypeOK /\ SecretsInv /\ KnownInv /\ [Next]_vars => KnownInv'
  BY KnownStep
<1> QED
  BY <1>1, <1>2, <1>3, <1>4, TypeCorrect, SecretsInit, SecretsStep, PTL DEF Spec, TokensInv

\* No agent can report for another with a token of its own: handleIngest takes
\* the shared token for every server and any other for one server alone, the one
\* it was made for, whatever was lost, restarted or asked for twice.
THEOREM TokensAreApart ==
    Spec => [](\A a, b \in Agents :
                  token[a] # IngestToken /\ Authorized(b, token[a]) => a = b)
<1>1. TokensInv => \A a, b \in Agents :
                      token[a] # IngestToken /\ Authorized(b, token[a]) => a = b
  <2> SUFFICES ASSUME TokensInv, NEW a \in Agents, NEW b \in Agents,
                      token[a] # IngestToken, Authorized(b, token[a])
               PROVE  a = b
    OBVIOUS
  <2>1. secrets[b] # NoToken /\ token[a] = secrets[b]
    BY DEF Authorized
  <2>2. token[a] \in Answered(a)
    BY <2>1 DEF TokensInv, HeldInv, Given
  <2> QED
    BY <2>1, <2>2 DEF TokensInv, ApartInv, TokensOf
<1> QED
  BY <1>1, TokensInvariant, PTL

\* An agent that runs is not turned away: the token it holds is accepted, and
\* with a token of its own it is a server the center knows, however it came by
\* the token, unless a restart of the center lost what had been answered.
THEOREM RunningIsServed ==
    Spec => [](\A a \in Agents :
                  Runs(a) /\ a \notin lost =>
                      Authorized(a, token[a]) /\ (token[a] # IngestToken => a \in Known))
<1>1. TokensInv => \A a \in Agents :
                      Runs(a) /\ a \notin lost =>
                          Authorized(a, token[a]) /\ (token[a] # IngestToken => a \in Known)
  <2> SUFFICES ASSUME TokensInv, NEW a \in Agents, Runs(a), a \notin lost, token[a] # IngestToken
               PROVE  Authorized(a, token[a]) /\ a \in Known
    BY DEF Authorized
  <2>1. token[a] # NoToken
    BY DEF TokensInv, HeldInv, Runs
  <2>2. PICK i \in issued : i.agent = a /\ i.token = token[a]
    BY <2>1 DEF TokensInv, HeldInv, Given, Answered
  <2>3. secrets[a] = token[a]
    BY <2>2 DEF TokensInv, SecretsInv
  <2> QED
    BY <2>1, <2>2, <2>3 DEF Authorized, TokensInv, KnownInv
<1> QED
  BY <1>1, TokensInvariant, PTL
=============================================================================
