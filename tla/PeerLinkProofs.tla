---- MODULE PeerLinkProofs ----
(***************************************************************************)
(* Theorems about PeerLink, for any distributions, options of connect,      *)
(* folders and number of commands, whatever fails.                          *)
(***************************************************************************)
EXTENDS PeerLink, TLAPS

\* The parts of the state are made of their parts.
LEMMA PartTypes ==
  /\ Win \in Repos /\ NoRuntime \in Runtime /\ NoConfig \in Config /\ TornConfig \in Config
  /\ \A link \in Repos \cup {None}, runtime \in Runtime : Saved(link, runtime) \in Config
  /\ \A r \in Repos : Idle(r) \in Process
<1>1. Win \in Repos /\ NoRuntime \in Runtime
  BY DEF Repos, NoRuntime, Runtime
<1>2. NoConfig \in Config
  BY <1>1 DEF NoConfig, Config
<1>3. TornConfig \in Config
  BY <1>2 DEF TornConfig, Config
<1>4. \A link \in Repos \cup {None}, runtime \in Runtime : Saved(link, runtime) \in Config
  BY DEF Saved, Config
<1>5. \A r \in Repos : Idle(r) \in Process
  BY <1>2 DEF Idle, Process
<1> QED BY <1>1, <1>2, <1>3, <1>4, <1>5

\* What connect makes of preferences are preferences, and what it reaches clones.
LEMMA RuntimeTypes ==
  ASSUME NEW r \in Repos, NEW runtime \in Runtime
  PROVE  /\ \A option \in Options : Override(runtime, option) \in Runtime
         /\ Resolved(r, runtime) \in Runtime
         /\ Reached(r, runtime) \in Repos
         /\ Reverse(r, runtime) \in Repos
         /\ r # Win => Reverse(r, runtime) \in Distros
         /\ r = Win => Reached(r, runtime) \in Distros
         /\ r # Win => Reached(r, runtime) = Win
<1>1. /\ runtime.distro \in Distros \cup {None} /\ runtime.embedded \in Distros \cup {None}
      /\ Default \in Distros /\ Distros \subseteq Repos /\ (r # Win => r \in Distros)
  BY DistroAssumption DEF Runtime, Repos
<1>2. \A option \in Options : Override(runtime, option) \in Runtime
  <2> SUFFICES ASSUME NEW option \in Options PROVE Override(runtime, option) \in Runtime
    OBVIOUS
  <2>1. PICK given \in SUBSET {"distro", "embedded"} : option \in [given -> Distros \cup {None}]
    BY OptionAssumption DEF Option
  <2>2. \A k \in {"distro", "embedded"} :
          k \in DOMAIN option => option[k] \in Distros \cup {None}
    BY <2>1
  <2> QED BY <1>1, <2>2 DEF Override, Runtime
<1>3. Resolved(r, runtime) \in Runtime
  BY <1>1 DEF Resolved, Runtime
<1> QED BY <1>1, <1>2, <1>3, PartTypes DEF Reached, Reverse

\* The steps of the command of r, and of its peer, leave well-formed processes.
LEMMA CliToType ==
  ASSUME TypeOK, NEW r \in Repos, NEW process \in Process, CliTo(r, process)
  PROVE  /\ cli' \in [Repos -> Process] /\ peer' \in [Repos -> Process]
         /\ started' \in 0..MaxCommands /\ alone' \subseteq Repos /\ wrapped' \in BOOLEAN
BY DEF TypeOK, CliTo

\* A step of the peer to a well-formed process leaves the processes well-formed.
LEMMA PeerToType ==
  ASSUME TypeOK, NEW r \in Repos, NEW process \in Process, PeerTo(r, process)
  PROVE  /\ cli' \in [Repos -> Process] /\ peer' \in [Repos -> Process]
         /\ started' \in 0..MaxCommands /\ alone' \subseteq Repos /\ wrapped' \in BOOLEAN
BY DEF TypeOK, PeerTo

\* So does a step of either process, the command or its peer.
LEMMA ToType ==
  ASSUME TypeOK, NEW r \in Repos, NEW who, NEW process \in Process, To(r, who, process)
  PROVE  /\ cli' \in [Repos -> Process] /\ peer' \in [Repos -> Process]
         /\ started' \in 0..MaxCommands /\ alone' \subseteq Repos /\ wrapped' \in BOOLEAN
BY CliToType, PeerToType DEF To

\* The processes of a clone and what they load are well-formed.
LEMMA ProcessType ==
  ASSUME TypeOK, NEW r \in Repos
  PROVE  /\ cli[r] \in Process /\ peer[r] \in Process
         /\ \A who : Running(r, who) \in Process
         /\ config[r] \in Config /\ config[r].runtime \in Runtime
BY DEF TypeOK, Running, Config

\* A process that goes on to another step stays well-formed.
LEMMA NextStepType ==
  ASSUME NEW q \in Process, NEW pc \in {"idle"} \cup InitSteps \cup PeerSteps \cup CliSteps
  PROVE  /\ q.repo \in Repos /\ q.at \in Repos \X {"root", "sub"} /\ q.config \in Config
         /\ q.config.runtime \in Runtime /\ q.config.peer \in Repos \cup {None}
         /\ q.link \in Repos \cup {None}
         /\ [q EXCEPT !.pc = pc] \in Process
         /\ \A c \in Config : [q EXCEPT !.pc = pc, !.config = c] \in Process
         /\ \A marked \in BOOLEAN : [q EXCEPT !.pc = pc, !.marked = marked] \in Process
         /\ \A link \in Repos \cup {None}, c \in Config :
              [q EXCEPT !.pc = pc, !.link = link, !.config = c] \in Process
<1>1. q.config.runtime \in Runtime /\ q.config.peer \in Repos \cup {None}
  BY DEF Process, Config
<1> HIDE DEF Config, Runtime
<1> QED BY <1>1 DEF Process

----
\* Who acts where, and with what: a command c in its own clone r, its peer p in
\* the one that the command has reached, with the link back to it.
PlacedAt(r, c, p) ==
  /\ c.repo = r /\ c.at[1] = r
  /\ c.pc \in {"idle"} \cup InitSteps \cup CliSteps
  /\ p.pc \in {"idle"} \cup InitSteps \cup PeerSteps
  /\ c.pc \in {"configure", "await", "save"} => c.link = Reached(r, c.config.runtime)
  /\ c.pc = "await" => p.repo = c.link /\ p.link = Reverse(r, c.config.runtime)
  /\ p.pc # "idle" /\ r = Win => p.repo # Win /\ p.link = Win
  /\ p.pc # "idle" /\ r # Win => p.repo = Win /\ p.link \in Distros

Placed == \A r \in Repos : PlacedAt(r, cli[r], peer[r])

\* TypeOK is kept by every step from a state where processes are placed: what a
\* connect is about to save are a clone and its own link.
LEMMA TypeKept ==
  ASSUME TypeOK, Placed, [Next]_vars
  PROVE  TypeOK'
<1> USE DEF files
<1>0. \A who : Initialized(who) \in {"idle"} \cup PeerSteps
  BY DEF Initialized, PeerSteps
<1>1. ASSUME NEW r \in Repos, NEW step \in {"initLoad", "connectLoad", "disconnectLoad", "deinitConfig"},
             Start(r, step)
      PROVE  TypeOK'
  <2>1. \A f \in Folders : [Idle(r) EXCEPT !.pc = step, !.at = <<r, f>>] \in Process
    BY PartTypes, FolderAssumption DEF Process, InitSteps, CliSteps
  <2>2. cli' \in [Repos -> Process]
    BY <1>1, <2>1 DEF Start, TypeOK
  <2>3. started' \in 0..MaxCommands
    BY <1>1, CommandsAssumption DEF Start, TypeOK
  <2> QED BY <1>1, <2>2, <2>3 DEF Start, TypeOK
<1>2. ASSUME NEW r \in Repos, NEW who \in {"cli", "peer"}, InitLoad(r, who) PROVE TypeOK'
  <2> DEFINE q == Running(r, who)
  <2>1. q \in Process /\ q.repo \in Repos /\ config[q.repo] \in Config
    BY ProcessType, NextStepType DEF InitSteps
  <2>2. [q EXCEPT !.pc = "initExclude", !.config = config[q.repo]] \in Process
    BY <2>1, NextStepType DEF InitSteps
  <2> QED BY <1>2, <2>2, ToType DEF InitLoad, TypeOK
<1>3. ASSUME NEW r \in Repos, NEW who \in {"cli", "peer"}, InitExclude(r, who) PROVE TypeOK'
  <2> DEFINE q == Running(r, who)
  <2>1. q \in Process /\ q.at \in Repos \X {"root", "sub"}
    BY ProcessType, NextStepType DEF InitSteps
  <2>2. ASSUME NEW pc \in {Initialized(who), "initConfig"}, NEW marked \in BOOLEAN
        PROVE  [q EXCEPT !.pc = pc, !.marked = marked] \in Process
    BY <1>0, <2>1, NextStepType DEF InitSteps
  <2>3. PICK process \in Process : To(r, who, process)
    BY <1>3, <2>2 DEF InitExclude
  <2>4. exclude' \in [Repos \X {"root", "sub"} -> BOOLEAN]
    BY <1>3, <2>1 DEF InitExclude, TypeOK
  <2> QED BY <1>3, <2>3, <2>4, ToType DEF InitExclude, TypeOK
<1>4. ASSUME NEW r \in Repos, NEW who \in {"cli", "peer"}, InitConfig(r, who) PROVE TypeOK'
  <2> DEFINE q == Running(r, who)
  <2>1. q \in Process /\ q.repo \in Repos /\ Saved(q.config.peer, q.config.runtime) \in Config
    BY ProcessType, NextStepType, PartTypes DEF InitSteps
  <2>2. ASSUME NEW pc \in {Initialized(who), "initMarker"} PROVE [q EXCEPT !.pc = pc] \in Process
    BY <1>0, <2>1, NextStepType DEF InitSteps
  <2>3. PICK process \in Process : To(r, who, process)
    BY <1>4, <2>2 DEF InitConfig
  <2>4. config' \in [Repos -> Config]
    BY <1>4, <2>1 DEF InitConfig, TypeOK
  <2> QED BY <1>4, <2>3, <2>4, ToType DEF InitConfig, TypeOK
<1>5. ASSUME NEW r \in Repos, NEW who \in {"cli", "peer"}, InitMarker(r, who) PROVE TypeOK'
  <2> DEFINE q == Running(r, who)
  <2>1. q \in Process /\ q.repo \in Repos
    BY ProcessType, NextStepType DEF InitSteps
  <2>2. [q EXCEPT !.pc = Initialized(who)] \in Process
    BY <1>0, <2>1, NextStepType
  <2>3. marker' \in [Repos -> {"none", "torn", "current"}]
    BY <1>5, <2>1 DEF InitMarker, TypeOK
  <2> QED BY <1>5, <2>2, <2>3, ToType DEF InitMarker, TypeOK
<1>6. ASSUME NEW r \in Repos, ConnectLoad(r) PROVE TypeOK'
  <2>1. /\ cli[r] \in Process /\ config[r].runtime \in Runtime
        /\ config[r].peer \in Repos \cup {None}
    BY ProcessType DEF Config
  <2>2. ASSUME NEW option \in Options
        PROVE  LET runtime == Override(config[r].runtime, option)
               IN [cli[r] EXCEPT !.pc = "configure", !.link = Reached(r, runtime),
                       !.config = Saved(config[r].peer, runtime)] \in Process
    <3> DEFINE runtime == Override(config[r].runtime, option)
    <3>1. Reached(r, runtime) \in Repos /\ Saved(config[r].peer, runtime) \in Config
      BY <2>1, RuntimeTypes, PartTypes
    <3> QED BY <2>1, <3>1, NextStepType DEF CliSteps
  <2>3. PICK process \in Process : CliTo(r, process)
    BY <1>6, <2>2, PartTypes DEF ConnectLoad
  <2> QED BY <1>6, <2>3, CliToType DEF ConnectLoad, TypeOK
<1>7. ASSUME NEW r \in Repos, Configure(r) PROVE TypeOK'
  <2> DEFINE q == [Idle(cli[r].link) EXCEPT !.pc = "configLoad", !.at = cli[r].at,
                               !.link = Reverse(r, cli[r].config.runtime)]
  <2>1. /\ cli[r] \in Process /\ [cli[r] EXCEPT !.pc = "await"] \in Process
        /\ cli[r].config.runtime \in Runtime /\ cli[r].at \in Repos \X {"root", "sub"}
    BY ProcessType, NextStepType DEF CliSteps
  <2>2. cli[r].link \in Repos /\ Reverse(r, cli[r].config.runtime) \in Repos
    BY <1>7, <2>1, RuntimeTypes DEF Configure, Placed, PlacedAt
  <2>3. q \in Process
    BY <2>1, <2>2, PartTypes DEF Process, PeerSteps
  <2>4. cli' \in [Repos -> Process] /\ peer' \in [Repos -> Process]
    BY <1>7, <2>1, <2>3 DEF Configure, TypeOK
  <2> QED BY <1>7, <2>4 DEF Configure, TypeOK
<1>8. ASSUME NEW r \in Repos, ConfigLoad(r) PROVE TypeOK'
  <2> DEFINE q == peer[r]
  <2>1. q \in Process /\ q.repo \in Repos /\ config[q.repo] \in Config
    BY ProcessType, NextStepType DEF InitSteps
  <2>2. /\ [q EXCEPT !.pc = "configSave", !.config = config[q.repo]] \in Process
        /\ [q EXCEPT !.pc = "initLoad"] \in Process
    BY <2>1, NextStepType DEF InitSteps, PeerSteps
  <2>3. PICK process \in Process : PeerTo(r, process)
    BY <1>8, <2>2 DEF ConfigLoad
  <2> QED BY <1>8, <2>3, PeerToType DEF ConfigLoad, TypeOK
<1>9. ASSUME NEW r \in Repos, ConfigSave(r) PROVE TypeOK'
  <2> DEFINE q == peer[r]
  <2>1. /\ q \in Process /\ q.repo \in Repos /\ q.config.runtime \in Runtime
        /\ q.link \in Repos \cup {None}
    BY ProcessType, NextStepType DEF InitSteps
  <2>2. q.repo = Win => q.link \in Distros
    BY <1>9 DEF ConfigSave, Placed, PlacedAt
  <2>3. Saved(q.link, Configured(q.repo, q.config.runtime, q.link)) \in Config
    <3>1. Configured(q.repo, q.config.runtime, q.link) \in Runtime
      BY <2>1, <2>2 DEF Configured, Runtime
    <3> QED BY <2>1, <3>1, PartTypes
  <2>4. config' \in [Repos -> Config]
    BY <1>9, <2>1, <2>3 DEF ConfigSave, TypeOK
  <2>5. [cli[r] EXCEPT !.pc = "save"] \in Process
    BY ProcessType, NextStepType DEF CliSteps
  <2>6. cli' \in [Repos -> Process] /\ peer' \in [Repos -> Process]
    BY <1>9, <2>5, PartTypes DEF ConfigSave, TypeOK
  <2> QED BY <1>9, <2>4, <2>6 DEF ConfigSave, TypeOK
<1>10. ASSUME NEW r \in Repos, Save(r) PROVE TypeOK'
  <2>1. Saved(cli[r].link, Resolved(r, cli[r].config.runtime)) \in Config
    BY ProcessType, NextStepType, RuntimeTypes, PartTypes DEF InitSteps
  <2>2. config' \in [Repos -> Config]
    BY <1>10, <2>1 DEF Save, TypeOK
  <2>3. cli' \in [Repos -> Process] /\ wrapped' \in BOOLEAN
    BY <1>10, PartTypes DEF Save, TypeOK
  <2> QED BY <1>10, <2>2, <2>3 DEF Save, TypeOK
<1>11. ASSUME NEW r \in Repos, Disconnect(r) PROVE TypeOK'
  <2>1. cli[r] \in Process /\ cli[r].config.runtime \in Runtime /\ config[r] \in Config
    BY ProcessType, NextStepType DEF InitSteps
  <2>2. [cli[r] EXCEPT !.pc = "disconnectSave", !.config = config[r]] \in Process
    BY <2>1, NextStepType DEF CliSteps
  <2>3. PICK process \in Process : CliTo(r, process)
    BY <1>11, <2>2, PartTypes DEF Disconnect
  <2>4. config' \in [Repos -> Config]
    <3>1. Saved(None, cli[r].config.runtime) \in Config
      BY <2>1, PartTypes
    <3> QED BY <1>11, <3>1 DEF Disconnect, TypeOK
  <2>5. UNCHANGED <<marker, exclude, manifest>>
    BY <1>11 DEF Disconnect
  <2> QED BY <2>3, <2>4, <2>5, CliToType DEF TypeOK
<1>12. ASSUME NEW r \in Repos, Deinit(r) PROVE TypeOK'
  <2>1. \A pc \in CliSteps : [cli[r] EXCEPT !.pc = pc] \in Process
    BY ProcessType, NextStepType
  <2>2. PICK process \in Process : CliTo(r, process)
    BY <1>12, <2>1, PartTypes DEF Deinit, DeinitConfig, CliSteps
  <2>3. /\ config' \in [Repos -> Config]
        /\ marker' \in [Repos -> {"none", "torn", "current"}]
        /\ exclude' \in [Repos \X {"root", "sub"} -> BOOLEAN]
        /\ manifest' \in [Repos -> BOOLEAN]
    BY <1>12, PartTypes DEF Deinit, DeinitConfig, TypeOK
  <2> QED BY <2>2, <2>3, CliToType DEF TypeOK
<1>13. ASSUME NEW r \in Repos, Sync(r) PROVE TypeOK'
  <2>1. manifest' \in [Repos -> BOOLEAN]
    <3>1. manifest[r] \in BOOLEAN /\ config[r].peer \in Repos
      BY <1>13 DEF Sync, TypeOK, Config
    <3>2. manifest[config[r].peer] \in BOOLEAN
      BY <3>1 DEF TypeOK
    <3> QED BY <1>13, <3>1, <3>2 DEF Sync, TypeOK
  <2> QED BY <1>13, <2>1 DEF Sync, TypeOK
<1>14. ASSUME NEW r \in Repos, CliStops(r) \/ PeerStops(r)
       PROVE  /\ cli' \in [Repos -> Process] /\ peer' \in [Repos -> Process]
              /\ started' \in 0..MaxCommands /\ alone' \subseteq Repos /\ wrapped' \in BOOLEAN
  BY <1>14, PartTypes DEF CliStops, PeerStops, TypeOK
<1>15. ASSUME NEW r \in Repos, Refuse(r) PROVE TypeOK'
  BY <1>14, <1>15 DEF Refuse, TypeOK
<1>16. ASSUME NEW r \in Repos, Fail(r) PROVE TypeOK'
  <2>1. PICK q \in Process : TornBy(q)
    BY <1>16, ProcessType DEF Fail
  <2>2. /\ config' \in [Repos -> Config]
        /\ marker' \in [Repos -> {"none", "torn", "current"}]
        /\ exclude' \in [Repos \X {"root", "sub"} -> BOOLEAN]
        /\ manifest' \in [Repos -> BOOLEAN]
    BY <2>1, PartTypes DEF TornBy, TypeOK
  <2> QED BY <1>14, <1>16, <2>2 DEF Fail, TypeOK
<1>17. CASE UNCHANGED vars
  BY <1>17 DEF vars, TypeOK
<1> QED BY <1>1, <1>2, <1>3, <1>4, <1>5, <1>6, <1>7, <1>8, <1>9, <1>10, <1>11, <1>12,
           <1>13, <1>15, <1>16, <1>17 DEF Next, StartCommand, Initialize, Connect

\* A step of r: the body of Next.
StepOf(r) ==
  \/ StartCommand(r) \/ Initialize(r) \/ Connect(r) \/ Disconnect(r) \/ Deinit(r)
  \/ Sync(r) \/ Refuse(r) \/ Fail(r)

\* The processes of the other clones take no part in it.
LEMMA OthersStay ==
  ASSUME TypeOK, NEW r \in Repos, StepOf(r), NEW s \in Repos, s # r
  PROVE  cli'[s] = cli[s] /\ peer'[s] = peer[s]
<1>1. CASE StartCommand(r)
  BY <1>1 DEF StartCommand, Start, TypeOK
<1>2. CASE Initialize(r)
  <2>1. ASSUME NEW who, NEW process, To(r, who, process)
        PROVE  cli'[s] = cli[s] /\ peer'[s] = peer[s]
    BY <2>1 DEF To, CliTo, PeerTo, TypeOK
  <2> QED BY <1>2, <2>1 DEF Initialize, InitLoad, InitExclude, InitConfig, InitMarker
<1>3. CASE Connect(r)
  BY <1>3 DEF Connect, ConnectLoad, Configure, ConfigLoad, ConfigSave, Save, CliTo, PeerTo, TypeOK
<1>4. CASE Disconnect(r)
  BY <1>4 DEF Disconnect, CliTo, TypeOK
<1>5. CASE Deinit(r)
  BY <1>5 DEF Deinit, DeinitConfig, CliTo, TypeOK
<1>6. CASE Sync(r)
  BY <1>6 DEF Sync
<1>7. CASE Refuse(r) \/ Fail(r)
  BY <1>7 DEF Refuse, Fail, CliStops, PeerStops, TypeOK
<1> QED BY <1>1, <1>2, <1>3, <1>4, <1>5, <1>6, <1>7 DEF StepOf

\* A step of r that leaves its processes in their places leaves all of them.
LEMMA PlacedKept ==
  ASSUME TypeOK, Placed, NEW r \in Repos, StepOf(r), PlacedAt(r, cli'[r], peer'[r])
  PROVE  Placed'
<1> SUFFICES ASSUME NEW s \in Repos PROVE PlacedAt(s, cli'[s], peer'[s])
  BY DEF Placed, PlacedAt
<1>1. CASE s = r
  BY <1>1
<1>2. CASE s # r
  BY <1>2, OthersStay DEF Placed
<1> QED BY <1>1, <1>2

\* The steps of initialize_repo: what they find of their process, and leave of it.
LEMMA InitializeStep ==
  ASSUME TypeOK, NEW r \in Repos, NEW who \in {"cli", "peer"},
         InitLoad(r, who) \/ InitExclude(r, who) \/ InitConfig(r, who) \/ InitMarker(r, who)
  PROVE  \E process \in Process :
           /\ Running(r, who).pc \in InitSteps
           /\ To(r, who, process)
           /\ process.pc \in InitSteps \cup {Initialized(who)}
           /\ process.repo = Running(r, who).repo
           /\ process.at = Running(r, who).at
           /\ process.link = Running(r, who).link
           /\ process.config = IF Running(r, who).pc = "initLoad" THEN config[process.repo]
                               ELSE Running(r, who).config
<1> DEFINE q == Running(r, who)
<1>1. q \in Process /\ config[q.repo] \in Config
  BY ProcessType, NextStepType DEF InitSteps, TypeOK
<1>2. Initialized(who) \in {"idle"} \cup PeerSteps
  BY DEF Initialized, PeerSteps
<1>3. CASE InitLoad(r, who)
  <2> DEFINE process == [q EXCEPT !.pc = "initExclude", !.config = config[q.repo]]
  <2>1. process \in Process /\ To(r, who, process) /\ q.pc = "initLoad"
    BY <1>1, <1>3, NextStepType DEF InitLoad, InitSteps
  <2>2. /\ process.pc = "initExclude" /\ process.repo = q.repo /\ process.at = q.at
        /\ process.link = q.link /\ process.config = config[q.repo]
    BY <1>1 DEF Process
  <2> QED BY <2>1, <2>2 DEF InitSteps
<1>4. CASE InitExclude(r, who)
  <2>1. PICK pc \in {Initialized(who), "initConfig"}, marked \in BOOLEAN :
          To(r, who, [q EXCEPT !.pc = pc, !.marked = marked])
    BY <1>4 DEF InitExclude
  <2> DEFINE process == [q EXCEPT !.pc = pc, !.marked = marked]
  <2>2. process \in Process
    BY <1>1, <1>2, NextStepType DEF InitSteps
  <2>3. /\ process.pc = pc /\ process.repo = q.repo /\ process.at = q.at
        /\ process.link = q.link /\ process.config = q.config
    BY <1>1 DEF Process
  <2>4. q.pc \in InitSteps /\ q.pc # "initLoad"
    BY <1>4 DEF InitExclude, InitSteps
  <2>5. pc \in InitSteps \cup {Initialized(who)}
    BY DEF InitSteps
  <2> HIDE DEF process
  <2> QED BY <2>1, <2>2, <2>3, <2>4, <2>5 DEF process
<1>5. CASE InitConfig(r, who) \/ InitMarker(r, who)
  <2>1. \A pc : LET p == [q EXCEPT !.pc = pc]
                IN p.pc = pc /\ p.repo = q.repo /\ p.at = q.at /\ p.link = q.link
                   /\ p.config = q.config
    BY <1>1 DEF Process
  <2>2. PICK pc \in {Initialized(who), "initMarker"} : To(r, who, [q EXCEPT !.pc = pc])
    BY <1>5 DEF InitConfig, InitMarker
  <2>3. [q EXCEPT !.pc = pc] \in Process
    BY <1>1, <1>2, NextStepType DEF InitSteps
  <2>4. q.pc \in InitSteps /\ q.pc # "initLoad"
    BY <1>5 DEF InitConfig, InitMarker, InitSteps
  <2> QED BY <2>1, <2>2, <2>3, <2>4 DEF InitSteps
<1> QED BY <1>3, <1>4, <1>5

\* A step of initialize_repo keeps its process in its place.
LEMMA InitializePlaced ==
  ASSUME TypeOK, Placed, NEW r \in Repos, Initialize(r)
  PROVE  PlacedAt(r, cli'[r], peer'[r])
<1>1. PICK who \in {"cli", "peer"} :
        InitLoad(r, who) \/ InitExclude(r, who) \/ InitConfig(r, who) \/ InitMarker(r, who)
  BY DEF Initialize
<1>2. PICK q \in Process :
        /\ Running(r, who).pc \in InitSteps
        /\ To(r, who, q)
        /\ q.pc \in InitSteps \cup {Initialized(who)}
        /\ q.repo = Running(r, who).repo /\ q.at = Running(r, who).at
        /\ q.link = Running(r, who).link
  BY <1>1, InitializeStep
<1>3. PlacedAt(r, cli[r], peer[r])
  BY DEF Placed
<1>4. CASE who = "cli"
  <2>1. cli'[r] = q /\ peer'[r] = peer[r] /\ cli[r].pc \in InitSteps
    BY <1>2, <1>4 DEF To, CliTo, Running, TypeOK
  <2>2. q.pc \in InitSteps \cup {"idle"} /\ q.repo = cli[r].repo /\ q.at = cli[r].at
    BY <1>2, <1>4 DEF Running, Initialized
  <2> QED BY <1>3, <2>1, <2>2 DEF PlacedAt, InitSteps
<1>5. CASE who = "peer"
  <2>1. cli'[r] = cli[r] /\ peer'[r] = q /\ peer[r].pc \in InitSteps
    BY <1>2, <1>5 DEF To, PeerTo, Running, TypeOK
  <2>2. q.pc \in InitSteps \cup {"configReload"} /\ q.repo = peer[r].repo /\ q.link = peer[r].link
    BY <1>2, <1>5 DEF Running, Initialized
  <2>3. peer[r].pc # "idle"
    BY <2>1 DEF InitSteps
  <2> QED BY <1>3, <2>1, <2>2, <2>3 DEF PlacedAt, InitSteps, PeerSteps
<1> QED BY <1>4, <1>5

\* So does every other step: connect asks the clone it has reached for a link
\* back, and no other step gives a process another place.
LEMMA StepPlaced ==
  ASSUME TypeOK, Placed, NEW r \in Repos, StepOf(r)
  PROVE  PlacedAt(r, cli'[r], peer'[r])
<1> DEFINE c == cli[r]  p == peer[r]
<1>1. c \in Process /\ p \in Process /\ PlacedAt(r, c, p)
  BY ProcessType DEF Placed
<1>2. PlacedAt(r, Idle(r), p)
  BY <1>1 DEF PlacedAt, Idle
<1>3. PlacedAt(r, Idle(r), Idle(r))
  BY DEF PlacedAt, Idle
<1>4. c.pc # "await" => PlacedAt(r, c, Idle(r))
  BY <1>1 DEF PlacedAt, Idle
<1>5. ASSUME NEW pc \in CliSteps \ {"configure", "await", "save"}
      PROVE  PlacedAt(r, [c EXCEPT !.pc = pc], p)
  BY <1>1 DEF PlacedAt, Process
<1>6. CASE StartCommand(r)
  <2>1. PICK step \in InitSteps \cup (CliSteps \ {"configure", "await", "save"}), f \in Folders :
          cli' = [cli EXCEPT ![r] = [Idle(r) EXCEPT !.pc = step, !.at = <<r, f>>]]
    BY <1>6 DEF StartCommand, Start, InitSteps, CliSteps
  <2>2. PlacedAt(r, [Idle(r) EXCEPT !.pc = step, !.at = <<r, f>>], p)
    BY <1>1, <2>1 DEF PlacedAt, Idle, InitSteps, CliSteps
  <2>3. peer' = peer
    BY <1>6 DEF StartCommand, Start
  <2> QED BY <2>1, <2>2, <2>3 DEF TypeOK
<1>7. CASE Initialize(r)
  BY <1>7, InitializePlaced
<1>8. CASE ConnectLoad(r)
  <2>1. ASSUME NEW runtime \in Runtime, NEW d \in Config, d.runtime = runtime
        PROVE  PlacedAt(r, [c EXCEPT !.pc = "configure", !.link = Reached(r, runtime),
                                     !.config = d], p)
    BY <1>1, <2>1 DEF PlacedAt, Process, CliSteps
  <2>2. CASE CliTo(r, Idle(r))
    BY <1>2, <2>2 DEF CliTo, TypeOK
  <2>3. ASSUME NEW option \in Options,
               LET runtime == Override(config[r].runtime, option)
               IN CliTo(r, [cli[r] EXCEPT !.pc = "configure", !.link = Reached(r, runtime),
                              !.config = Saved(config[r].peer, runtime)])
        PROVE  PlacedAt(r, cli'[r], peer'[r])
    <3> DEFINE runtime == Override(config[r].runtime, option)
               d == Saved(config[r].peer, runtime)
    <3>1. runtime \in Runtime /\ config[r].peer \in Repos \cup {None}
      BY ProcessType, RuntimeTypes DEF Config
    <3>2. d \in Config /\ d.runtime = runtime
      BY <3>1, PartTypes DEF Saved
    <3> HIDE DEF runtime, d
    <3> QED BY <2>1, <2>3, <3>1, <3>2 DEF runtime, d, CliTo, TypeOK
  <2> QED BY <1>8, <2>2, <2>3 DEF ConnectLoad
<1>9. CASE Configure(r)
  <2>1. /\ cli'[r] = [c EXCEPT !.pc = "await"]
        /\ peer'[r] = [Idle(c.link) EXCEPT !.pc = "configLoad", !.at = c.at,
                                 !.link = Reverse(r, c.config.runtime)]
    BY <1>9 DEF Configure, TypeOK
  <2>2. c.link = Reached(r, c.config.runtime) /\ c.config.runtime \in Runtime
    BY <1>1, <1>9, NextStepType DEF Configure, PlacedAt, InitSteps
  <2>3. /\ r = Win => c.link # Win /\ Reverse(r, c.config.runtime) = Win
        /\ r # Win => c.link = Win /\ Reverse(r, c.config.runtime) \in Distros
    BY <2>2, RuntimeTypes, DistroAssumption DEF Reverse
  <2> QED BY <1>1, <2>1, <2>2, <2>3 DEF PlacedAt, Process, Idle, CliSteps, PeerSteps
<1>10. CASE ConfigLoad(r)
  <2>1. /\ peer'[r].pc \in {"configSave", "initLoad"}
        /\ peer'[r].repo = p.repo /\ peer'[r].link = p.link
    <3>1. \/ peer'[r] = [p EXCEPT !.pc = "configSave", !.config = config[p.repo]]
          \/ peer'[r] = [p EXCEPT !.pc = "initLoad"]
      BY <1>10 DEF ConfigLoad, PeerTo, TypeOK
    <3> QED BY <1>1, <3>1 DEF Process
  <2>2. cli'[r] = c /\ p.pc # "idle"
    BY <1>10 DEF ConfigLoad, PeerTo
  <2> QED BY <1>1, <2>1, <2>2 DEF PlacedAt, Process, InitSteps, PeerSteps
<1>11. CASE ConfigSave(r)
  <2>1. peer'[r] = Idle(r) /\ cli'[r] = IF c.pc = "await" THEN [c EXCEPT !.pc = "save"] ELSE c
    BY <1>11 DEF ConfigSave, TypeOK
  <2>2. c.pc = "await" => PlacedAt(r, [c EXCEPT !.pc = "save"], Idle(r))
    BY <1>1 DEF PlacedAt, Process, Idle, CliSteps
  <2> QED BY <1>4, <2>1, <2>2
<1>12. CASE Save(r)
  BY <1>2, <1>12 DEF Save, CliTo, TypeOK
<1>13. CASE Disconnect(r)
  <2>1. ASSUME NEW d \in Config
        PROVE  PlacedAt(r, [c EXCEPT !.pc = "disconnectSave", !.config = d], p)
    BY <1>1 DEF PlacedAt, Process, CliSteps
  <2>2. CASE CliTo(r, Idle(r))
    BY <1>2, <2>2 DEF CliTo, TypeOK
  <2>3. CASE CliTo(r, [c EXCEPT !.pc = "disconnectSave", !.config = config[r]])
    BY <2>1, <2>3, ProcessType DEF CliTo, TypeOK
  <2> QED BY <1>13, <2>2, <2>3 DEF Disconnect
<1>14. CASE Deinit(r)
  <2>1. CASE CliTo(r, Idle(r))
    BY <1>2, <2>1 DEF CliTo, TypeOK
  <2>2. ASSUME NEW pc \in CliSteps \ {"configure", "await", "save"},
               CliTo(r, [c EXCEPT !.pc = pc])
        PROVE  PlacedAt(r, cli'[r], peer'[r])
    BY <1>5, <2>2 DEF CliTo, TypeOK
  <2> QED BY <1>14, <2>1, <2>2 DEF Deinit, DeinitConfig, CliSteps
<1>15. CASE Sync(r)
  BY <1>1, <1>15 DEF Sync
<1>16. CASE Refuse(r) \/ Fail(r)
  <2>1. CASE CliStops(r)
    BY <1>2, <2>1 DEF CliStops, TypeOK
  <2>2. CASE PeerStops(r)
    BY <1>3, <1>4, <2>2 DEF PeerStops, TypeOK
  <2> QED BY <1>16, <2>1, <2>2 DEF Refuse, Fail
<1> QED BY <1>6, <1>7, <1>8, <1>9, <1>10, <1>11, <1>12, <1>13, <1>14, <1>15, <1>16
        DEF StepOf, Connect

----
\* Every process is in its place in every reachable state.
LEMMA ProcessesPlaced == Spec => [](TypeOK /\ Placed)
<1>1. Init => TypeOK /\ Placed
  <2> SUFFICES ASSUME Init PROVE TypeOK /\ Placed
    OBVIOUS
  <2>1. /\ config \in [Repos -> Config]
        /\ marker \in [Repos -> {"none", "torn", "current"}]
        /\ exclude \in [Repos \X {"root", "sub"} -> BOOLEAN]
        /\ manifest \in [Repos -> BOOLEAN]
    BY PartTypes DEF Init
  <2>2. cli \in [Repos -> Process] /\ peer \in [Repos -> Process]
    <3>1. \A r \in Repos : Idle(r) \in Process
      BY PartTypes
    <3>2. [r \in Repos |-> Idle(r)] \in [Repos -> Process]
      BY <3>1, Zenon
    <3> QED BY <3>2 DEF Init
  <2>3. started \in 0..MaxCommands /\ alone \subseteq Repos /\ wrapped \in BOOLEAN
    <3>1. started = 0 /\ alone = {} /\ wrapped = FALSE
      BY Zenon DEF Init
    <3>2. 0 \in 0..MaxCommands
      BY CommandsAssumption
    <3> QED BY <3>1, <3>2, Zenon
  <2>4. TypeOK
    BY <2>1, <2>2, <2>3, Zenon DEF TypeOK
  <2>5. Placed
    BY DEF Init, Placed, PlacedAt, Idle
  <2> QED BY <2>4, <2>5
<1>2. TypeOK /\ Placed /\ [Next]_vars => TypeOK' /\ Placed'
  <2> SUFFICES ASSUME TypeOK, Placed, [Next]_vars PROVE Placed'
    BY TypeKept
  <2>1. CASE UNCHANGED vars
    BY <2>1 DEF vars, Placed, PlacedAt
  <2>2. ASSUME NEW r \in Repos, StepOf(r) PROVE Placed'
    BY <2>2, StepPlaced, PlacedKept
  <2> QED BY <2>1, <2>2 DEF Next, StepOf
<1> QED BY <1>1, <1>2, PTL DEF Spec

\* Every file and every process is well-formed in every reachable state.
THEOREM LinkTypeCorrect == Spec => []TypeOK
BY ProcessesPlaced, PTL

----
\* While a command is alone nothing else runs but the peer it waits for, or has
\* left behind; and what the command has brought about is still so.
Alone(r) ==
  /\ Busy \subseteq {r}
  /\ peer[r].pc # "idle" => cli[r].pc \in {"idle", "await"}
  /\ cli[r].pc = "save" =>
       /\ config[cli[r].link].state = "saved"
       /\ config[cli[r].link].peer = Reverse(r, cli[r].config.runtime)
  /\ cli[r].pc \in {"deinitManifest", "deinitMarker", "deinitExclude"} => config[r] = NoConfig
  /\ cli[r].pc \in {"deinitMarker", "deinitExclude"} => ~manifest[r]
  /\ cli[r].pc = "deinitExclude" => marker[r] = "none"

Undisturbed == \A r \in alone : Alone(r)

\* Every step but the start of a command, or a synchronization, is one of a
\* running process, and leaves the history as it is.
LEMMA BusyStep ==
  ASSUME TypeOK, NEW s \in Repos, StepOf(s)
  PROVE  StartCommand(s) \/ Sync(s) \/ (s \in Busy /\ alone' = alone)
<1>1. CASE Initialize(s)
  <2>1. PICK who \in {"cli", "peer"} :
          /\ Running(s, who).pc \in InitSteps
          /\ \E process \in Process : To(s, who, process)
    BY <1>1, InitializeStep DEF Initialize
  <2> QED BY <2>1 DEF Running, InitSteps, To, CliTo, PeerTo, Busy
<1>2. CASE Connect(s)
  BY <1>2 DEF Connect, ConnectLoad, Configure, ConfigLoad, ConfigSave, Save, CliTo, PeerTo, Busy
<1>3. CASE Disconnect(s) \/ Deinit(s)
  BY <1>3 DEF Disconnect, Deinit, DeinitConfig, CliTo, Busy
<1>4. CASE Refuse(s) \/ Fail(s)
  BY <1>4 DEF Refuse, Fail, Unusable, CliStops, PeerStops, Busy
<1> QED BY <1>1, <1>2, <1>3, <1>4 DEF StepOf

\* A clone that is alone is the only one to take such a step.
LEMMA AloneSteps ==
  ASSUME TypeOK, Undisturbed, NEW s \in Repos, StepOf(s), NEW r \in alone,
         ~StartCommand(s), ~Sync(s)
  PROVE  s = r
BY BusyStep DEF Undisturbed, Alone

\* What a command that is alone has brought about is kept by its own steps.
LEMMA OwnStepKeeps ==
  ASSUME TypeOK, Placed, NEW r \in Repos, Alone(r), StepOf(r), ~StartCommand(r), ~Sync(r)
  PROVE  Alone(r)'
<1> DEFINE c == cli[r]  p == peer[r]
<1>1. c \in Process /\ p \in Process /\ PlacedAt(r, c, p)
  BY ProcessType DEF Placed
<1>2. Busy' \subseteq {r}
  BY OthersStay DEF Alone, Busy
<1>3. ASSUME p'.pc # "idle" => c'.pc \in {"idle", "await"},
             c'.pc \notin {"save", "deinitManifest", "deinitMarker", "deinitExclude"}
      PROVE  Alone(r)'
  BY <1>2, <1>3 DEF Alone
<1>4. c.pc \notin {"idle", "await"} => p.pc = "idle"
  BY DEF Alone
<1>5. CASE Initialize(r)
  <2>1. PICK who \in {"cli", "peer"}, q \in Process :
          /\ Running(r, who).pc \in InitSteps
          /\ To(r, who, q)
          /\ q.pc \in InitSteps \cup {Initialized(who)}
    BY <1>5, InitializeStep DEF Initialize
  <2>2. CASE who = "cli"
    <3>1. c' = q /\ p' = p /\ c.pc \in InitSteps /\ q.pc \in InitSteps \cup {"idle"}
      BY <2>1, <2>2 DEF To, CliTo, Running, Initialized, TypeOK
    <3> QED BY <1>3, <1>4, <3>1 DEF InitSteps
  <2>3. CASE who = "peer"
    <3>1. c' = c /\ p.pc \in InitSteps
      BY <2>1, <2>3 DEF To, PeerTo, Running
    <3> QED BY <1>3, <1>4, <3>1 DEF InitSteps
  <2> QED BY <2>2, <2>3
<1>6. CASE ConnectLoad(r)
  <2>1. c.pc = "connectLoad" /\ p' = p /\ c'.pc \in {"configure", "idle"}
    <3>1. CASE CliTo(r, Idle(r))
      BY <1>6, <3>1 DEF ConnectLoad, CliTo, Idle, TypeOK
    <3>2. ASSUME NEW link, NEW d,
                 CliTo(r, [c EXCEPT !.pc = "configure", !.link = link, !.config = d])
          PROVE  p' = p /\ c'.pc = "configure"
      <4>1. c' = [c EXCEPT !.pc = "configure", !.link = link, !.config = d]
        BY <3>2 DEF CliTo, TypeOK
      <4> QED BY <1>1, <3>2, <4>1 DEF CliTo, Process
    <3> QED BY <1>6, <3>1, <3>2 DEF ConnectLoad
  <2> QED BY <1>3, <1>4, <2>1
<1>7. CASE Configure(r)
  <2>1. c'.pc = "await"
    BY <1>1, <1>7 DEF Configure, TypeOK, Process
  <2> QED BY <1>3, <2>1
<1>8. CASE ConfigLoad(r)
  <2>1. c' = c /\ p.pc # "idle"
    BY <1>8 DEF ConfigLoad, PeerTo
  <2> QED BY <1>3, <1>4, <2>1
<1>9. CASE ConfigSave(r)
  <2>1. p.pc # "idle" /\ p'.pc = "idle"
    BY <1>9 DEF ConfigSave, Idle, TypeOK
  <2>2. CASE c.pc # "await"
    <3>1. c' = c /\ c.pc = "idle"
      BY <1>4, <1>9, <2>1, <2>2 DEF ConfigSave
    <3> QED BY <1>3, <3>1
  <2>3. CASE c.pc = "await"
    <3>1. c'.pc = "save" /\ c'.link = c.link /\ c'.config = c.config
      BY <1>1, <1>9, <2>3 DEF ConfigSave, TypeOK, Process
    <3>2. p.repo = c.link /\ p.link = Reverse(r, c.config.runtime) /\ p.repo \in Repos
      BY <1>1, <2>3 DEF PlacedAt, Process
    <3>3. config'[p.repo] = Saved(p.link, Configured(p.repo, p.config.runtime, p.link))
      BY <1>9, <3>2 DEF ConfigSave, TypeOK
    <3>4. config'[c'.link].state = "saved" /\ config'[c'.link].peer = Reverse(r, c'.config.runtime)
      BY <3>1, <3>2, <3>3 DEF Saved
    <3> QED BY <1>2, <2>1, <3>1, <3>4 DEF Alone
  <2> QED BY <2>2, <2>3
<1>10. CASE Save(r)
  <2>1. c.pc = "save" /\ p' = p /\ c'.pc = "idle"
    BY <1>10 DEF Save, CliTo, Idle, TypeOK
  <2> QED BY <1>3, <1>4, <2>1
<1>11. CASE Disconnect(r)
  <2>1. /\ c.pc \in {"disconnectLoad", "disconnectSave"} /\ p' = p
        /\ c'.pc \in {"disconnectSave", "idle"}
    <3>1. CASE CliTo(r, Idle(r))
      BY <1>11, <3>1 DEF Disconnect, CliTo, Idle, TypeOK
    <3>2. CASE CliTo(r, [c EXCEPT !.pc = "disconnectSave", !.config = config[r]])
      <4>1. c' = [c EXCEPT !.pc = "disconnectSave", !.config = config[r]]
        BY <3>2 DEF CliTo, TypeOK
      <4>2. c'.pc = "disconnectSave"
        BY <1>1, <4>1 DEF Process
      <4> QED BY <1>11, <3>2, <4>2 DEF Disconnect, CliTo
    <3> QED BY <1>11, <3>1, <3>2 DEF Disconnect
  <2> QED BY <1>3, <1>4, <2>1
<1>12. CASE Deinit(r)
  <2>1. c.pc \in {"deinitConfig", "deinitManifest", "deinitMarker", "deinitExclude"} /\ p' = p
    BY <1>12 DEF Deinit, DeinitConfig, CliTo
  <2>2. \A pc : cli' = [cli EXCEPT ![r] = [c EXCEPT !.pc = pc]] => c'.pc = pc
    BY <1>1 DEF TypeOK, Process
  <2>3. CASE DeinitConfig(r)
    <3>1. c'.pc = "deinitManifest" /\ config'[r] = NoConfig
      BY <2>2, <2>3 DEF DeinitConfig, CliTo, TypeOK
    <3> QED BY <1>2, <1>4, <2>1, <3>1 DEF Alone
  <2>4. CASE /\ c.pc = "deinitManifest"
             /\ manifest' = [manifest EXCEPT ![r] = FALSE]
             /\ CliTo(r, [c EXCEPT !.pc = "deinitMarker"])
             /\ UNCHANGED <<config, marker, exclude>>
    <3>1. c'.pc = "deinitMarker" /\ ~manifest'[r] /\ config' = config
      BY <2>2, <2>4 DEF CliTo, TypeOK
    <3> QED BY <1>2, <1>4, <2>1, <2>4, <3>1 DEF Alone
  <2>5. CASE /\ c.pc = "deinitMarker"
             /\ marker' = [marker EXCEPT ![r] = "none"]
             /\ CliTo(r, [c EXCEPT !.pc = "deinitExclude"])
             /\ UNCHANGED <<config, exclude, manifest>>
    <3>1. c'.pc = "deinitExclude" /\ marker'[r] = "none" /\ config' = config /\ manifest' = manifest
      BY <2>2, <2>5 DEF CliTo, TypeOK
    <3> QED BY <1>2, <1>4, <2>1, <2>5, <3>1 DEF Alone
  <2>6. CASE CliTo(r, Idle(r))
    <3>1. c'.pc = "idle"
      BY <2>6 DEF CliTo, Idle, TypeOK
    <3> QED BY <1>3, <3>1
  <2> QED BY <1>12, <2>3, <2>4, <2>5, <2>6 DEF Deinit
<1>13. CASE Refuse(r) \/ Fail(r)
  <2>1. CASE CliStops(r)
    <3>1. c'.pc = "idle"
      BY <2>1 DEF CliStops, Idle, TypeOK
    <3> QED BY <1>3, <3>1
  <2>2. CASE PeerStops(r) /\ p.pc # "idle"
    <3>1. c'.pc = "idle"
      BY <1>4, <2>2 DEF PeerStops, Idle, TypeOK
    <3> QED BY <1>3, <3>1
  <2> QED BY <1>13, <2>1, <2>2 DEF Refuse, Fail, Unusable
<1> QED BY <1>5, <1>6, <1>7, <1>8, <1>9, <1>10, <1>11, <1>12, <1>13 DEF StepOf, Connect

\* Undisturbed holds of every reachable state.
LEMMA CommandsUndisturbed == Spec => []Undisturbed
<1>1. Init => Undisturbed
  BY DEF Init, Undisturbed
<1>2. TypeOK /\ Placed /\ Undisturbed /\ [Next]_vars => Undisturbed'
  <2> SUFFICES ASSUME TypeOK, Placed, Undisturbed, [Next]_vars, NEW r \in alone' PROVE Alone(r)'
    BY DEF Undisturbed
  <2>1. CASE UNCHANGED vars
    <3>1. r \in alone /\ Alone(r)
      BY <2>1 DEF vars, Undisturbed
    <3> QED BY <2>1, <3>1 DEF vars, files, Alone, Busy
  <2>2. ASSUME NEW s \in Repos, StepOf(s) PROVE Alone(r)'
    <3>1. CASE StartCommand(s)
      <4>1. PICK step \in {"initLoad", "connectLoad", "disconnectLoad", "deinitConfig"} : Start(s, step)
        BY <3>1 DEF StartCommand
      <4>2. r = s /\ Busy = {}
        BY <4>1 DEF Start
      <4>3. Busy' \subseteq {r} /\ peer'[r].pc = "idle"
        BY <2>2, <4>1, <4>2, OthersStay DEF Busy, Start
      <4>4. cli'[r].pc = step
        BY <4>1, <4>2 DEF Start, Idle, TypeOK
      <4> QED BY <4>3, <4>4 DEF Alone
    <3>2. CASE Sync(s)
      BY <3>2 DEF Sync
    <3>3. CASE ~StartCommand(s) /\ ~Sync(s)
      <4>1. r \in alone /\ s = r
        BY <2>2, <3>3, BusyStep, AloneSteps
      <4> QED BY <2>2, <3>3, <4>1, OwnStepKeeps DEF Undisturbed
    <3> QED BY <3>1, <3>2, <3>3
  <2> QED BY <2>1, <2>2 DEF Next, StepOf
<1> QED BY <1>1, <1>2, ProcessesPlaced, PTL DEF Spec

----
\* The link that a command saves is, and stays, another clone's.
LEMMA SaveLink ==
  ASSUME TypeOK, Placed, NEW r \in Repos, cli[r].pc = "save"
  PROVE  cli[r].link \in Repos /\ cli[r].link # r
<1>1. cli[r].link = Reached(r, cli[r].config.runtime) /\ cli[r].config.runtime \in Runtime
  BY ProcessType, NextStepType DEF Placed, PlacedAt, InitSteps
<1> QED BY <1>1, RuntimeTypes, PartTypes, DistroAssumption

\* A step of a command that is alone, and about to save its link, writes no
\* other clone's config.
LEMMA SaveWritesOwn ==
  ASSUME TypeOK, Placed, NEW r \in Repos, Alone(r), StepOf(r), cli[r].pc = "save",
         NEW s \in Repos, s # r
  PROVE  config'[s] = config[s]
<1>1. peer[r].pc = "idle" /\ cli[r].repo = r
  BY DEF Alone, Placed, PlacedAt
<1>2. CASE Initialize(r)
  BY <1>1, <1>2, InitializeStep DEF Initialize, Running, InitSteps
<1>3. CASE StartCommand(r) \/ Sync(r) \/ Refuse(r)
  BY <1>3 DEF StartCommand, Start, Sync, Refuse, files
<1>4. CASE Connect(r)
  BY <1>1, <1>4 DEF Connect, ConnectLoad, Configure, ConfigLoad, ConfigSave, Save, TypeOK
<1>5. CASE Disconnect(r) \/ Deinit(r)
  BY <1>5 DEF Disconnect, Deinit, DeinitConfig
<1>6. CASE Fail(r)
  BY <1>1, <1>6 DEF Fail, TornBy, TypeOK
<1> QED BY <1>2, <1>3, <1>4, <1>5, <1>6 DEF StepOf

\* When a connect that is alone saves its link, whatever options it was given,
\* the clone it names is linked to the one that its preferences say it will
\* reach in turn.
LEMMA SavedLinkIsReturned ==
  ASSUME TypeOK, Placed, Undisturbed, Next, NEW r \in alone, cli[r].pc = "save"
  PROVE  /\ config'[cli[r].link].state = "saved"
         /\ config'[cli[r].link].peer = Reverse(r, cli[r].config.runtime)
<1>1. r \in Repos /\ Alone(r)
  BY DEF TypeOK, Undisturbed
<1>2. /\ config[cli[r].link].state = "saved"
      /\ config[cli[r].link].peer = Reverse(r, cli[r].config.runtime)
  BY <1>1 DEF Alone
<1>3. PICK s \in Repos : StepOf(s)
  BY DEF Next, StepOf
<1>4. CASE StartCommand(s) \/ Sync(s)
  BY <1>2, <1>4 DEF StartCommand, Start, Sync, files
<1>5. CASE ~StartCommand(s) /\ ~Sync(s)
  <2>1. s = r
    BY <1>3, <1>5, AloneSteps
  <2> QED BY <1>1, <1>2, <1>3, <2>1, SaveLink, SaveWritesOwn
<1> QED BY <1>4, <1>5

\* connect configures both sides, unless an option names a distribution inside
\* the peer's command: then a command in a distribution has its peer link to that
\* one, whichever distribution the command runs in.
THEOREM ConnectLinksBack ==
  Spec => [][\A r \in alone :
               cli[r].pc = "save" /\ config'[r].state = "saved" /\ config'[r].peer = cli[r].link =>
                 LET p == cli[r].link
                 IN  /\ config'[p].state = "saved"
                     /\ config'[p].peer = Reverse(r, cli[r].config.runtime)]_vars
<1>1. TypeOK /\ Placed /\ Undisturbed /\ [Next]_vars =>
        [\A r \in alone :
           cli[r].pc = "save" /\ config'[r].state = "saved" /\ config'[r].peer = cli[r].link =>
             LET p == cli[r].link
             IN  /\ config'[p].state = "saved"
                 /\ config'[p].peer = Reverse(r, cli[r].config.runtime)]_vars
  BY SavedLinkIsReturned
<1> QED BY <1>1, ProcessesPlaced, CommandsUndisturbed, PTL DEF Spec

\* deinit on its own restores the clone, for any options and whatever failed
\* before: it removes its files in an order that no other process comes between.
THEOREM DeinitRestoresClone == Spec => DeinitRestores
<1>1. ASSUME TypeOK, Placed, Undisturbed, Next, NEW r \in alone,
             cli[r].pc = "deinitExclude", exclude' # exclude, cli[r].at = <<r, "root">>
      PROVE  /\ config[r] = NoConfig /\ ~manifest[r] /\ marker[r] = "none"
             /\ ~exclude'[<<r, "root">>]
  <2>1. r \in Repos /\ Alone(r) /\ peer[r].pc = "idle"
    BY <1>1 DEF TypeOK, Undisturbed, Alone
  <2>2. config[r] = NoConfig /\ ~manifest[r] /\ marker[r] = "none"
    BY <1>1, <2>1 DEF Alone
  <2>3. PICK s \in Repos : StepOf(s)
    BY <1>1 DEF Next, StepOf
  <2>4. ~StartCommand(s) /\ ~Sync(s)
    BY <1>1 DEF StartCommand, Start, Sync, files
  <2>5. s = r
    BY <1>1, <2>3, <2>4, AloneSteps
  <2>6. ~Initialize(r)
    BY <1>1, <2>1, InitializeStep DEF Initialize, Running, InitSteps
  <2>7. ~Connect(r) /\ ~Disconnect(r) /\ ~Refuse(r) /\ ~Fail(r)
    BY <1>1 DEF Connect, ConnectLoad, Configure, ConfigLoad, ConfigSave, Save, Disconnect,
                Refuse, Fail, TornBy, files
  <2>8. Deinit(r)
    BY <2>3, <2>4, <2>5, <2>6, <2>7 DEF StepOf
  <2>9. exclude' = [exclude EXCEPT ![<<r, "root">>] = FALSE]
    BY <1>1, <2>8 DEF Deinit, DeinitConfig
  <2>10. ~exclude'[<<r, "root">>]
    <3> DEFINE f == <<r, "root">>
    <3>1. f \in Repos \X {"root", "sub"} /\ exclude \in [Repos \X {"root", "sub"} -> BOOLEAN]
      BY <1>1, <2>1 DEF TypeOK
    <3> HIDE DEF f
    <3>2. exclude' = [exclude EXCEPT ![f] = FALSE] => ~exclude'[f]
      BY <3>1
    <3> QED BY <2>9, <3>2 DEF f
  <2> QED BY <2>2, <2>10
<1>2. TypeOK /\ Placed /\ Undisturbed /\ [Next]_vars =>
        [\A r \in alone :
           cli[r].pc = "deinitExclude" /\ exclude' # exclude /\ cli[r].at = <<r, "root">> =>
             /\ config[r] = NoConfig /\ ~manifest[r] /\ marker[r] = "none"
             /\ ~exclude'[<<r, "root">>]]_vars
  BY <1>1
<1> QED BY <1>2, ProcessesPlaced, CommandsUndisturbed, PTL DEF Spec, DeinitRestores

----
\* A config that leads to the peer it names: on Windows by the distribution that is
\* named, by wsl_distro only, or else the default one, unless (w) a connect has
\* taken a distribution from --wsl-peer-command.
Leads(w, r, c) ==
  /\ r # Win => c.peer \in {None, Win}
  /\ r = Win =>
       /\ c.runtime.embedded = None
       /\ c.peer # None => IF c.runtime.distro # None THEN c.peer = c.runtime.distro
                           ELSE w \/ c.peer = Default

\* So do the configs that a command c of r, or its peer p, is about to write back.
ProcessLeads(w, r, c, p) ==
  /\ c.pc \in (InitSteps \ {"initLoad"}) \cup {"disconnectSave"} => Leads(w, r, c.config)
  /\ p.pc \in InitSteps \ {"initLoad"} => Leads(w, p.repo, p.config)

Consistent ==
  \A r \in Repos : Leads(wrapped, r, config[r]) /\ ProcessLeads(wrapped, r, cli[r], peer[r])

\* Configs without a link are consistent; so are the two that a connect saves.
LEMMA LinksLead ==
  ASSUME NEW w \in BOOLEAN, NEW r \in Repos
  PROVE  /\ Leads(w, r, NoConfig) /\ Leads(w, r, TornConfig)
         /\ \A link \in Repos \cup {None}, runtime \in Runtime :
              /\ (r = Win => runtime.embedded = None) => Leads(w, r, Saved(None, runtime))
              /\ (r = Win /\ runtime.distro = None /\ runtime.embedded # None => w) =>
                   Leads(w, r, Saved(Reached(r, runtime), Resolved(r, runtime)))
              /\ (IF r = Win THEN link \in Distros ELSE link = Win) =>
                   Leads(w, r, Saved(link, Configured(r, runtime, link)))
<1>1. Leads(w, r, NoConfig) /\ Leads(w, r, TornConfig)
  BY DEF Leads, NoConfig, TornConfig, NoRuntime
<1>2. ASSUME NEW link \in Repos \cup {None}, NEW runtime \in Runtime
      PROVE  /\ (r = Win => runtime.embedded = None) => Leads(w, r, Saved(None, runtime))
             /\ (r = Win /\ runtime.distro = None /\ runtime.embedded # None => w) =>
                  Leads(w, r, Saved(Reached(r, runtime), Resolved(r, runtime)))
             /\ (IF r = Win THEN link \in Distros ELSE link = Win) =>
                  Leads(w, r, Saved(link, Configured(r, runtime, link)))
  <2>1. (r = Win => runtime.embedded = None) => Leads(w, r, Saved(None, runtime))
    BY DEF Leads, Saved
  <2>2. r = Win => /\ Resolved(r, runtime).embedded = None
                   /\ Resolved(r, runtime).distro = runtime.distro
    BY DEF Resolved, Runtime
  <2>3. ASSUME r = Win /\ runtime.distro = None /\ runtime.embedded # None => w
        PROVE  Leads(w, r, Saved(Reached(r, runtime), Resolved(r, runtime)))
    BY <2>2, <2>3 DEF Leads, Saved, Reached
  <2>4. ASSUME IF r = Win THEN link \in Distros ELSE link = Win
        PROVE  Leads(w, r, Saved(link, Configured(r, runtime, link)))
    BY <2>4, DistroAssumption DEF Leads, Saved, Configured, Repos
  <2> QED BY <2>1, <2>3, <2>4
<1> QED BY <1>1, <1>2

\* wrapped never becomes false again, and a consistent config stays so.
LEMMA WrappedGrows ==
  ASSUME TypeOK, NEW r \in Repos, StepOf(r)
  PROVE  /\ wrapped' \in BOOLEAN /\ (wrapped => wrapped')
         /\ \A s, c : Leads(wrapped, s, c) => Leads(wrapped', s, c)
         /\ \A s, c, p : ProcessLeads(wrapped, s, c, p) => ProcessLeads(wrapped', s, c, p)
<1>1. wrapped' = wrapped \/ Save(r)
  <2>1. CASE StartCommand(r) \/ Sync(r)
    BY <2>1 DEF StartCommand, Start, Sync
  <2>2. CASE Initialize(r)
    BY <2>2 DEF Initialize, InitLoad, InitExclude, InitConfig, InitMarker, To, CliTo, PeerTo
  <2>3. CASE Connect(r)
    BY <2>3 DEF Connect, ConnectLoad, Configure, ConfigLoad, ConfigSave, CliTo, PeerTo
  <2>4. CASE Disconnect(r) \/ Deinit(r)
    BY <2>4 DEF Disconnect, Deinit, DeinitConfig, CliTo
  <2>5. CASE Refuse(r) \/ Fail(r)
    BY <2>5 DEF Refuse, Fail, CliStops, PeerStops
  <2> QED BY <2>1, <2>2, <2>3, <2>4, <2>5 DEF StepOf
<1>2. wrapped' \in BOOLEAN /\ (wrapped => wrapped')
  BY <1>1 DEF Save, TypeOK
<1>3. \A s, c : Leads(wrapped, s, c) => Leads(wrapped', s, c)
  BY <1>2 DEF Leads
<1> QED BY <1>2, <1>3 DEF ProcessLeads

\* No step writes a config that does not lead to the peer it names.
LEMMA ConfigsLead ==
  ASSUME TypeOK, Placed, Consistent, NEW r \in Repos, StepOf(r), NEW s \in Repos
  PROVE  Leads(wrapped', s, config'[s])
<1> DEFINE c == cli[r]  p == peer[r]
<1>1. /\ c \in Process /\ p \in Process /\ PlacedAt(r, c, p)
      /\ Leads(wrapped', s, config[s]) /\ ProcessLeads(wrapped', r, c, p)
      /\ c.config.runtime \in Runtime /\ p.config.runtime \in Runtime
      /\ wrapped' \in BOOLEAN
  BY ProcessType, NextStepType, WrappedGrows DEF Placed, Consistent, InitSteps
<1>2. CASE config' = config
  BY <1>1, <1>2
<1>3. ASSUME NEW q \in Repos, NEW d, config' = [config EXCEPT ![q] = d], Leads(wrapped', q, d)
      PROVE  Leads(wrapped', s, config'[s])
  BY <1>1, <1>3 DEF TypeOK
<1>4. CASE Initialize(r)
  <2>1. PICK who \in {"cli", "peer"} :
          InitLoad(r, who) \/ InitExclude(r, who) \/ InitConfig(r, who) \/ InitMarker(r, who)
    BY <1>4 DEF Initialize
  <2>2. CASE InitLoad(r, who) \/ InitExclude(r, who) \/ InitMarker(r, who)
    BY <1>2, <2>2 DEF InitLoad, InitExclude, InitMarker, files
  <2>3. CASE InitConfig(r, who)
    <3> DEFINE q == Running(r, who)
    <3>1. q.repo \in Repos /\ Leads(wrapped', q.repo, q.config)
      BY <1>1, <2>1, <2>3 DEF InitConfig, Running, PlacedAt, ProcessLeads, InitSteps, Process
    <3>2. Leads(wrapped', q.repo, Saved(q.config.peer, q.config.runtime))
      BY <3>1 DEF Leads, Saved
    <3> QED BY <1>3, <2>3, <3>1, <3>2 DEF InitConfig
  <2> QED BY <2>1, <2>2, <2>3
<1>5. CASE ConfigSave(r)
  <2>1. /\ p.pc # "idle" /\ p.repo \in Repos /\ p.link \in Repos \cup {None}
        /\ config' = [config EXCEPT ![p.repo] =
             Saved(p.link, Configured(p.repo, p.config.runtime, p.link))]
    BY <1>1, <1>5 DEF ConfigSave, Process
  <2>2. IF p.repo = Win THEN p.link \in Distros ELSE p.link = Win
    BY <1>1, <2>1 DEF PlacedAt
  <2>3. Leads(wrapped', p.repo, Saved(p.link, Configured(p.repo, p.config.runtime, p.link)))
    BY <1>1, <2>1, <2>2, LinksLead
  <2> QED BY <1>3, <2>1, <2>3
<1>6. CASE Save(r)
  <2>1. c.link = Reached(r, c.config.runtime)
    BY <1>1, <1>6 DEF Save, PlacedAt
  <2>2. r = Win /\ c.config.runtime.distro = None /\ c.config.runtime.embedded # None => wrapped'
    BY <1>6 DEF Save
  <2>3. Leads(wrapped', r, Saved(c.link, Resolved(r, c.config.runtime)))
    BY <1>1, <2>1, <2>2, LinksLead
  <2> QED BY <1>3, <1>6, <2>3 DEF Save
<1>7. CASE ConnectLoad(r) \/ Configure(r) \/ ConfigLoad(r)
  BY <1>2, <1>7 DEF ConnectLoad, Configure, ConfigLoad, files
<1>8. CASE Disconnect(r)
  <2>1. c.pc = "disconnectSave" => Leads(wrapped', r, Saved(None, c.config.runtime))
    BY <1>1, LinksLead DEF ProcessLeads, Leads
  <2> QED BY <1>2, <1>3, <1>8, <2>1 DEF Disconnect, files
<1>9. CASE Deinit(r)
  BY <1>1, <1>2, <1>3, <1>9, LinksLead DEF Deinit, DeinitConfig
<1>10. CASE StartCommand(r) \/ Sync(r) \/ Refuse(r)
  BY <1>2, <1>10 DEF StartCommand, Start, Sync, Refuse, files
<1>11. CASE Fail(r)
  <2>1. PICK q \in Process : TornBy(q)
    BY <1>1, <1>11 DEF Fail
  <2>2. q.repo \in Repos
    BY DEF Process
  <2> QED BY <1>1, <1>2, <1>3, <2>1, <2>2, LinksLead DEF TornBy
<1> QED BY <1>4, <1>5, <1>6, <1>7, <1>8, <1>9, <1>10, <1>11 DEF StepOf, Connect

\* A step of initialize_repo is about to write back what it has loaded.
LEMMA InitializeLeads ==
  ASSUME TypeOK, Placed, Consistent, NEW r \in Repos, Initialize(r)
  PROVE  ProcessLeads(wrapped, r, cli'[r], peer'[r])
<1>1. PICK who \in {"cli", "peer"} :
        InitLoad(r, who) \/ InitExclude(r, who) \/ InitConfig(r, who) \/ InitMarker(r, who)
  BY DEF Initialize
<1>2. PICK q \in Process :
        /\ Running(r, who).pc \in InitSteps
        /\ To(r, who, q)
        /\ q.pc \in InitSteps \cup {Initialized(who)}
        /\ q.repo = Running(r, who).repo
        /\ q.config = IF Running(r, who).pc = "initLoad" THEN config[q.repo]
                      ELSE Running(r, who).config
  BY <1>1, InitializeStep
<1>3. PlacedAt(r, cli[r], peer[r]) /\ ProcessLeads(wrapped, r, cli[r], peer[r])
  BY DEF Placed, Consistent
<1>4. q.repo \in Repos => Leads(wrapped, q.repo, config[q.repo])
  BY DEF Consistent
<1>5. Leads(wrapped, q.repo, q.config)
  <2>1. CASE Running(r, who).pc = "initLoad"
    BY <1>2, <1>4, <2>1 DEF Process
  <2>2. CASE Running(r, who).pc # "initLoad"
    BY <1>2, <1>3, <2>2 DEF Running, ProcessLeads, PlacedAt, InitSteps
  <2> QED BY <2>1, <2>2
<1>6. CASE who = "cli"
  <2>1. cli'[r] = q /\ peer'[r] = peer[r] /\ q.repo = r
    BY <1>2, <1>3, <1>6 DEF To, CliTo, Running, PlacedAt, TypeOK
  <2> QED BY <1>3, <1>5, <2>1 DEF ProcessLeads
<1>7. CASE who = "peer"
  <2>1. cli'[r] = cli[r] /\ peer'[r] = q
    BY <1>2, <1>7 DEF To, PeerTo, TypeOK
  <2> QED BY <1>3, <1>5, <2>1 DEF ProcessLeads
<1> QED BY <1>6, <1>7

\* So is every other step.
LEMMA StepLeads ==
  ASSUME TypeOK, Placed, Consistent, NEW r \in Repos, StepOf(r)
  PROVE  ProcessLeads(wrapped, r, cli'[r], peer'[r])
<1> DEFINE c == cli[r]  p == peer[r]  Loaded == (InitSteps \ {"initLoad"}) \cup {"disconnectSave"}
<1>1. c \in Process /\ p \in Process /\ ProcessLeads(wrapped, r, c, p)
  BY ProcessType DEF Consistent
<1>2. \A q : q.pc \notin Loaded => /\ ProcessLeads(wrapped, r, q, p)
                                   /\ ProcessLeads(wrapped, r, c, q)
                                   /\ ProcessLeads(wrapped, r, q, Idle(r))
  BY <1>1 DEF ProcessLeads, Idle, InitSteps
<1>3. Idle(r).pc \notin Loaded
  BY DEF Idle, InitSteps
<1>4. \A pc \in CliSteps : [c EXCEPT !.pc = pc].pc = pc
  BY <1>1 DEF Process, CliSteps
<1>5. CASE StartCommand(r)
  <2>1. PICK step \in {"initLoad", "connectLoad", "disconnectLoad", "deinitConfig"}, f \in Folders :
          cli' = [cli EXCEPT ![r] = [Idle(r) EXCEPT !.pc = step, !.at = <<r, f>>]]
    BY <1>5 DEF StartCommand, Start
  <2>2. cli'[r].pc \notin Loaded /\ peer'[r] = p
    BY <1>5, <2>1 DEF StartCommand, Start, Idle, TypeOK, InitSteps
  <2> QED BY <1>2, <2>2
<1>6. CASE Initialize(r)
  BY <1>6, InitializeLeads
<1>7. CASE ConnectLoad(r)
  <2>1. CASE CliTo(r, Idle(r))
    BY <1>2, <1>3, <2>1 DEF CliTo, TypeOK
  <2>2. ASSUME NEW link, NEW d,
               CliTo(r, [c EXCEPT !.pc = "configure", !.link = link, !.config = d])
        PROVE  ProcessLeads(wrapped, r, cli'[r], peer'[r])
    <3>1. cli'[r].pc = "configure" /\ peer'[r] = p
      BY <1>1, <2>2 DEF CliTo, TypeOK, Process
    <3> QED BY <1>2, <3>1 DEF InitSteps
  <2> QED BY <1>7, <2>1, <2>2 DEF ConnectLoad
<1>8. CASE Configure(r)
  <2>1. cli'[r].pc = "await" /\ peer'[r].pc = "configLoad"
    BY <1>4, <1>8 DEF Configure, Idle, TypeOK, CliSteps
  <2> QED BY <2>1 DEF ProcessLeads, InitSteps
<1>9. CASE ConfigLoad(r)
  <2>1. /\ peer'[r] = [p EXCEPT !.pc = "configSave", !.config = config[p.repo]]
              \/ peer'[r] = [p EXCEPT !.pc = "initLoad"]
        /\ cli'[r] = c
    BY <1>9 DEF ConfigLoad, PeerTo, TypeOK
  <2>2. peer'[r].pc \in {"configSave", "initLoad"}
    BY <1>1, <2>1 DEF Process
  <2> QED BY <1>2, <2>1, <2>2 DEF InitSteps
<1>10. CASE ConfigSave(r)
  <2>1. peer'[r] = Idle(r) /\ (cli'[r] = c \/ cli'[r] = [c EXCEPT !.pc = "save"])
    BY <1>10 DEF ConfigSave, TypeOK
  <2>2. CASE cli'[r] = c
    BY <1>2, <1>3, <2>1, <2>2
  <2>3. CASE cli'[r] = [c EXCEPT !.pc = "save"]
    <3>1. cli'[r].pc \notin Loaded
      BY <1>4, <2>3 DEF CliSteps, InitSteps
    <3> QED BY <1>2, <2>1, <3>1
  <2> QED BY <2>1, <2>2, <2>3
<1>11. CASE Save(r)
  BY <1>2, <1>3, <1>11 DEF Save, TypeOK
<1>12. CASE Disconnect(r)
  <2>1. CASE CliTo(r, Idle(r))
    BY <1>2, <1>3, <2>1 DEF CliTo, TypeOK
  <2>2. CASE CliTo(r, [c EXCEPT !.pc = "disconnectSave", !.config = config[r]])
    <3>1. cli'[r].pc = "disconnectSave" /\ cli'[r].config = config[r] /\ peer'[r] = p
      BY <1>1, <2>2 DEF CliTo, TypeOK, Process
    <3> QED BY <1>1, <3>1 DEF ProcessLeads, Consistent
  <2> QED BY <1>12, <2>1, <2>2 DEF Disconnect
<1>13. CASE Deinit(r)
  <2>1. CASE CliTo(r, Idle(r))
    BY <1>2, <1>3, <2>1 DEF CliTo, TypeOK
  <2>2. ASSUME NEW pc \in CliSteps \ {"disconnectSave"}, CliTo(r, [c EXCEPT !.pc = pc])
        PROVE  ProcessLeads(wrapped, r, cli'[r], peer'[r])
    <3>1. cli'[r].pc = pc /\ peer'[r] = p
      BY <1>4, <2>2 DEF CliTo, TypeOK
    <3> QED BY <1>2, <2>2, <3>1 DEF CliSteps, InitSteps
  <2> QED BY <1>13, <2>1, <2>2 DEF Deinit, DeinitConfig, CliSteps
<1>14. CASE Sync(r)
  BY <1>1, <1>14 DEF Sync
<1>15. CASE Refuse(r) \/ Fail(r)
  <2>1. CASE CliStops(r)
    BY <1>2, <1>3, <2>1 DEF CliStops, TypeOK
  <2>2. CASE PeerStops(r)
    BY <1>2, <1>3, <2>2 DEF PeerStops, TypeOK
  <2> QED BY <1>15, <2>1, <2>2 DEF Refuse, Fail
<1> QED BY <1>5, <1>6, <1>7, <1>8, <1>9, <1>10, <1>11, <1>12, <1>13, <1>14, <1>15
        DEF StepOf, Connect

\* Every config leads to the peer it names, in every reachable state.
LEMMA ConfigsConsistent == Spec => []Consistent
<1>1. Init => Consistent
  <2> SUFFICES ASSUME Init, NEW r \in Repos
               PROVE  Leads(wrapped, r, config[r]) /\ ProcessLeads(wrapped, r, cli[r], peer[r])
    BY DEF Consistent
  <2>1. Leads(wrapped, r, config[r])
    BY DEF Init, Leads, NoConfig, NoRuntime
  <2>2. cli[r].pc = "idle" /\ peer[r].pc = "idle"
    BY DEF Init, Idle
  <2> QED BY <2>1, <2>2 DEF ProcessLeads, InitSteps
<1>2. TypeOK /\ Placed /\ Consistent /\ [Next]_vars => Consistent'
  <2> SUFFICES ASSUME TypeOK, Placed, Consistent, [Next]_vars PROVE Consistent'
    OBVIOUS
  <2>1. CASE UNCHANGED vars
    BY <2>1 DEF vars, files, Consistent
  <2>2. ASSUME NEW r \in Repos, StepOf(r), NEW s \in Repos
        PROVE  /\ Leads(wrapped', s, config'[s])
               /\ ProcessLeads(wrapped', s, cli'[s], peer'[s])
    <3>1. ProcessLeads(wrapped, s, cli'[s], peer'[s])
      BY <2>2, StepLeads, OthersStay DEF Consistent
    <3> QED BY <2>2, <3>1, ConfigsLead, WrappedGrows
  <2> QED BY <2>1, <2>2 DEF Consistent, Next, StepOf
<1> QED BY <1>1, <1>2, ProcessesPlaced, PTL DEF Spec

\* connect is bilateral, for any clones and options and whatever fails: no clone
\* that connects on its own is left with a link that is not returned, to it or to
\* the distribution that its --wsl-peer-command names in its place.
THEOREM ConnectConfiguresBothSides == Spec => ConnectIsBilateral
<1>1. TypeOK /\ Placed /\ Undisturbed /\ [Next]_vars =>
        [\A r \in alone :
           cli[r].pc = "save" /\ config'[r].state = "saved" /\ config'[r].peer = cli[r].link =>
             LET p == cli[r].link
                 named == cli[r].config.runtime.embedded
             IN /\ config'[p].state = "saved"
                /\ config'[p].peer = IF r # Win /\ named # None THEN named ELSE r]_vars
  BY SavedLinkIsReturned DEF Reverse
<1> QED BY <1>1, ProcessesPlaced, CommandsUndisturbed, PTL DEF Spec, ConnectIsBilateral

\* connect without new options reaches the clone that the link names, whichever
\* commands of either side have written the config since, and whatever failed.
THEOREM ReconnectReachesSamePeer == Spec => ReconnectKeepsNamedPeer
<1>1. ASSUME TypeOK, Placed, Consistent, Next, NEW r \in Repos, Reconnects(r),
             ~(r = Win /\ wrapped /\ config[r].runtime.distro = None)
      PROVE  cli'[r].link = config[r].peer
  <2>0. /\ cli[r].pc = "connectLoad" /\ cli'[r].pc = "configure"
        /\ config[r].peer # None /\ cli'[r].config.runtime = config[r].runtime
    BY <1>1 DEF Reconnects
  <2>1. PICK s \in Repos : StepOf(s)
    BY <1>1 DEF Next, StepOf
  <2>2. s = r
    BY <1>1, <2>0, <2>1, OthersStay
  <2>3. ~Initialize(r)
    <3>1. ASSUME NEW who \in {"cli", "peer"}, NEW q, To(r, who, q), Running(r, who).pc \in InitSteps,
                 q.pc \in InitSteps \cup {Initialized(who)}
          PROVE  FALSE
      BY <1>1, <2>0, <3>1 DEF To, CliTo, PeerTo, Running, InitSteps, TypeOK
    <3> QED BY <1>1, <3>1, InitializeStep DEF Initialize
  <2>4. ~StartCommand(r) /\ ~Disconnect(r) /\ ~Deinit(r) /\ ~Sync(r)
    BY <1>1, <2>0 DEF StartCommand, Start, Disconnect, CliTo, Deinit, DeinitConfig, Sync, Idle, TypeOK
  <2>5. ~Refuse(r) /\ ~Fail(r)
    BY <1>1, <2>0 DEF Refuse, Fail, CliStops, PeerStops, Idle, TypeOK
  <2>6. ConnectLoad(r)
    BY <2>0, <2>1, <2>2, <2>3, <2>4, <2>5
       DEF StepOf, Connect, Configure, ConfigLoad, ConfigSave, Save, PeerTo
  <2>7. cli' # [cli EXCEPT ![r] = Idle(r)]
    BY <1>1, <2>0 DEF Idle, TypeOK
  <2>8. PICK option \in Options :
          LET runtime == Override(config[r].runtime, option)
          IN CliTo(r, [cli[r] EXCEPT !.pc = "configure", !.link = Reached(r, runtime),
                         !.config = Saved(config[r].peer, runtime)])
    BY <2>6, <2>7 DEF ConnectLoad, CliTo
  <2> DEFINE runtime == Override(config[r].runtime, option)
  <2>9. cli'[r].link = Reached(r, runtime) /\ cli'[r].config = Saved(config[r].peer, runtime)
    BY <1>1, <2>8 DEF CliTo, TypeOK, Process
  <2>10. runtime = config[r].runtime
    BY <2>0, <2>9 DEF Saved
  <2>11. Leads(wrapped, r, config[r])
    BY <1>1 DEF Consistent
  <2> QED BY <1>1, <2>0, <2>9, <2>10, <2>11 DEF Leads, Reached
<1>2. TypeOK /\ Placed /\ Consistent /\ [Next]_vars =>
        [\A r \in Repos :
           Reconnects(r) /\ ~(r = Win /\ wrapped /\ config[r].runtime.distro = None)
             => cli'[r].link = config[r].peer]_vars
  BY <1>1
<1> QED BY <1>2, ProcessesPlaced, ConfigsConsistent, PTL DEF Spec, ReconnectKeepsNamedPeer
====
