---- MODULE PeerLink ----
(***************************************************************************)
(* How two clones of a project come to be linked, and stop being so:        *)
(* `wdsync init`, `connect`, `disconnect` and `deinit`, with what they read  *)
(* and write in each repository, file by file.                              *)
(*                                                                         *)
(* There is one clone on Windows and one in each WSL distribution.  A       *)
(* command runs in one of them; connect also starts a peer process, which   *)
(* acts in another and may outlive the command.  No lock is held and no     *)
(* write is atomic: a process may die at any step, and in the middle of a   *)
(* write.                                                                   *)
(***************************************************************************)
EXTENDS Naturals

CONSTANTS
  Win,          \* the clone on Windows
  Distros,      \* the WSL distributions, each standing for the clone in it
  Default,      \* the distribution that wsl.exe starts when none is named
  None,
  Options,      \* what connect's options may be, see Option
  Folders,      \* where commands are started: the root of the worktree, a subdirectory
  MaxCommands,  \* bound on the number of commands (model checking)
  MayFail       \* whether processes may fail or die

Repos == Distros \cup {Win}

\* The preferences that decide which distribution a Windows command reaches:
\* wsl_distro, and a distribution named inside wsl_peer_command_argv.
Runtime == [distro: Distros \cup {None}, embedded: Distros \cup {None}]

\* The options given to one connect: --wsl-distro, and --wsl-peer-command, whose
\* command may or may not be wrapped in a wsl.exe that names a distribution.
Option == UNION {[given -> Distros \cup {None}] : given \in SUBSET {"distro", "embedded"}}

ASSUME DistroAssumption == Default \in Distros /\ Win \notin Distros /\ None \notin Repos
ASSUME OptionAssumption == Options \subseteq Option
ASSUME FolderAssumption == Folders \subseteq {"root", "sub"}
ASSUME CommandsAssumption == MaxCommands \in Nat /\ MayFail \in BOOLEAN

VARIABLES
  config,    \* config[r]: .git/wdsync/config.json
  marker,    \* marker[r]: the .wdsync file
  exclude,   \* exclude[<<r, f>>]: folder f of r holds .git/info/exclude with our entry
  manifest,  \* manifest[r]: .git/wdsync/manifest.json lists mirrored paths
  cli,       \* cli[r]: the command running in r
  peer,      \* peer[r]: the peer process that the last connect of r has started
  started,   \* commands started so far
  alone,     \* history: the clones whose command nothing has disturbed
  wrapped    \* history: a Windows connect has linked to a distribution that was
             \* named inside --wsl-peer-command, and nowhere else

files == <<config, marker, exclude, manifest>>
vars == <<files, cli, peer, started, alone, wrapped>>

NoRuntime == [distro |-> None, embedded |-> None]
Config == [state: {"missing", "torn", "saved"}, peer: Repos \cup {None}, runtime: Runtime]
NoConfig == [state |-> "missing", peer |-> None, runtime |-> NoRuntime]
TornConfig == [NoConfig EXCEPT !.state = "torn"]
Saved(link, runtime) == [state |-> "saved", peer |-> link, runtime |-> runtime]

InitSteps == {"initLoad", "initExclude", "initConfig", "initMarker"}
PeerSteps == {"configLoad", "configReload", "configSave"}
CliSteps == {"connectLoad", "configure", "await", "save", "disconnectLoad", "disconnectSave",
             "deinitConfig", "deinitManifest", "deinitMarker", "deinitExclude"}
Process ==
  [pc: {"idle"} \cup InitSteps \cup PeerSteps \cup CliSteps,
   repo: Repos,               \* where it acts
   at: Repos \X {"root", "sub"},  \* its working directory
   config: Config,            \* config as loaded, with the options applied
   marked: BOOLEAN,           \* init: the marker was current when it was looked at
   link: Repos \cup {None}]   \* the peer it is about to save

Idle(r) == [pc |-> "idle", repo |-> r, at |-> <<r, "root">>, config |-> NoConfig,
            marked |-> FALSE, link |-> None]

TypeOK ==
  /\ config \in [Repos -> Config]
  /\ marker \in [Repos -> {"none", "torn", "current"}]
  /\ exclude \in [Repos \X {"root", "sub"} -> BOOLEAN]
  /\ manifest \in [Repos -> BOOLEAN]
  /\ cli \in [Repos -> Process]
  /\ peer \in [Repos -> Process]
  /\ started \in 0..MaxCommands
  /\ alone \subseteq Repos /\ wrapped \in BOOLEAN

Init ==
  /\ config = [r \in Repos |-> NoConfig]
  /\ marker = [r \in Repos |-> "none"]
  /\ exclude = [f \in Repos \X {"root", "sub"} |-> FALSE]
  /\ manifest = [r \in Repos |-> FALSE]
  /\ cli = [r \in Repos |-> Idle(r)]
  /\ peer = [r \in Repos |-> Idle(r)]
  /\ started = 0
  /\ alone = {} /\ wrapped = FALSE

----
Busy == {r \in Repos : cli[r].pc # "idle" \/ peer[r].pc # "idle"}

\* A command starts in a folder of r; it is alone while nothing else is running.
Start(r, step) ==
  /\ cli[r].pc = "idle" /\ (step = "connectLoad" => peer[r].pc = "idle")
  /\ started < MaxCommands /\ started' = started + 1
  /\ \E f \in Folders :
       cli' = [cli EXCEPT ![r] = [Idle(r) EXCEPT !.pc = step, !.at = <<r, f>>]]
  /\ alone' = IF Busy = {} THEN {r} ELSE {}
  /\ UNCHANGED <<files, peer, wrapped>>

StartCommand(r) ==
  \E step \in {"initLoad", "connectLoad", "disconnectLoad", "deinitConfig"} : Start(r, step)

\* The next step of the command of r, and of the peer process it has started.
CliTo(r, process) == cli' = [cli EXCEPT ![r] = process] /\ UNCHANGED <<peer, started, alone, wrapped>>
PeerTo(r, process) == peer' = [peer EXCEPT ![r] = process] /\ UNCHANGED <<cli, started, alone, wrapped>>

\* initialize_repo runs in a command (init) and in the peer (configure_peer).
Running(r, who) == IF who = "cli" THEN cli[r] ELSE peer[r]
To(r, who, process) ==
  (who = "cli" /\ CliTo(r, process)) \/ (who = "peer" /\ PeerTo(r, process))
Initialized(who) == IF who = "cli" THEN "idle" ELSE "configReload"

InitLoad(r, who) ==
  LET q == Running(r, who) IN
  /\ q.pc = "initLoad"
  /\ config[q.repo].state # "torn"
  /\ To(r, who, [q EXCEPT !.pc = "initExclude", !.config = config[q.repo]])
  /\ UNCHANGED files

\* `git rev-parse --git-path` answers relative to the repository, and the answer
\* is opened relative to the working directory of the process.
InitExclude(r, who) ==
  LET q == Running(r, who)
      marked == marker[q.repo] = "current"
      already == q.config.state = "saved" /\ marked /\ exclude[q.at]
  IN /\ q.pc = "initExclude"
     /\ exclude' = [exclude EXCEPT ![q.at] = TRUE]
     /\ To(r, who, [q EXCEPT !.pc = IF already THEN Initialized(who) ELSE "initConfig",
                             !.marked = marked])
     /\ UNCHANGED <<config, marker, manifest>>

InitConfig(r, who) ==
  LET q == Running(r, who) IN
  /\ q.pc = "initConfig"
  /\ config' = [config EXCEPT ![q.repo] = Saved(q.config.peer, q.config.runtime)]
  /\ To(r, who, [q EXCEPT !.pc = IF q.marked THEN Initialized(who) ELSE "initMarker"])
  /\ UNCHANGED <<marker, exclude, manifest>>

InitMarker(r, who) ==
  LET q == Running(r, who) IN
  /\ q.pc = "initMarker"
  /\ marker' = [marker EXCEPT ![q.repo] = "current"]
  /\ To(r, who, [q EXCEPT !.pc = Initialized(who)])
  /\ UNCHANGED <<config, exclude, manifest>>

Initialize(r) ==
  \E who \in {"cli", "peer"} :
    InitLoad(r, who) \/ InitExclude(r, who) \/ InitConfig(r, who) \/ InitMarker(r, who)

----
\* _runtime_from_options: what is given replaces what is saved, a peer command
\* as a whole, whether or not it names a distribution.
Override(runtime, option) ==
  [k \in {"distro", "embedded"} |-> IF k \in DOMAIN option THEN option[k] ELSE runtime[k]]

\* Mutant: nothing but --wsl-distro names a distribution.
ReachedByOption(r, runtime) == IF r # Win THEN Win ELSE runtime.distro

\* resolve_peer_command_for_environment: the clone whose side is started
Reached(r, runtime) ==
  IF r # Win THEN Win
  ELSE IF runtime.distro # None THEN runtime.distro
  ELSE IF runtime.embedded # None THEN runtime.embedded ELSE Default

\* resolve_reverse_peer_command_for_environment: the clone that the peer will
\* reach in turn; WSL_DISTRO_NAME is the distribution of r.
Reverse(r, runtime) ==
  IF r = Win \/ runtime.embedded = None THEN r ELSE runtime.embedded

\* runtime_with_resolved_peer_command: on Windows the command is stored without
\* the distribution it was wrapped in.
Resolved(r, runtime) == IF r = Win THEN [runtime EXCEPT !.embedded = None] ELSE runtime

\* runtime_with_configured_peer_command, which keeps the wrapper's distribution;
\* the mutant drops it, as the above does.
ConfiguredBare(r, runtime, link) == IF r = Win THEN [runtime EXCEPT !.embedded = None] ELSE runtime
Configured(r, runtime, link) == IF r = Win THEN [distro |-> link, embedded |-> None] ELSE runtime

\* connect, up to the configure_peer request: an existing link is replaced only
\* if the user agrees.  The search for the peer's clone finds the native one.
ConnectLoad(r) ==
  /\ cli[r].pc = "connectLoad"
  /\ config[r].state = "saved"
  /\ \/ \E option \in Options :
          LET runtime == Override(config[r].runtime, option)
          IN CliTo(r, [cli[r] EXCEPT !.pc = "configure", !.link = Reached(r, runtime),
                         !.config = Saved(config[r].peer, runtime)])
     \/ config[r].peer # None /\ CliTo(r, Idle(r))
  /\ UNCHANGED files

\* Mutant: the link is saved before the peer is asked for its own.
ConfigureLast(r) ==
  /\ cli[r].pc = "configure"
  /\ CliTo(r, [cli[r] EXCEPT !.pc = "save"])
  /\ UNCHANGED files

\* The request starts a handler in the peer process, which inherits the working
\* directory of the command.
Configure(r) ==
  /\ cli[r].pc = "configure"
  /\ cli' = [cli EXCEPT ![r].pc = "await"]
  /\ peer' = [peer EXCEPT ![r] =
       [Idle(cli[r].link) EXCEPT !.pc = "configLoad", !.at = cli[r].at,
                                 !.link = Reverse(r, cli[r].config.runtime)]]
  /\ UNCHANGED <<files, started, alone, wrapped>>

\* _handle_configure_peer: a clone without a config is initialized and reloaded.
ConfigLoad(r) ==
  LET q == peer[r] IN
  /\ q.pc \in {"configLoad", "configReload"}
  /\ \/ /\ config[q.repo].state = "saved"
        /\ PeerTo(r, [q EXCEPT !.pc = "configSave", !.config = config[q.repo]])
     \/ /\ config[q.repo].state = "missing" /\ q.pc = "configLoad"
        /\ PeerTo(r, [q EXCEPT !.pc = "initLoad"])
  /\ UNCHANGED files

ConfigSave(r) ==
  LET q == peer[r] IN
  /\ q.pc = "configSave"
  /\ config' = [config EXCEPT ![q.repo] =
       Saved(q.link, Configured(q.repo, q.config.runtime, q.link))]
  /\ peer' = [peer EXCEPT ![r] = Idle(r)]
  /\ cli' = IF cli[r].pc = "await" THEN [cli EXCEPT ![r].pc = "save"] ELSE cli
  /\ UNCHANGED <<marker, exclude, manifest, started, alone, wrapped>>

Save(r) ==
  LET runtime == cli[r].config.runtime IN
  /\ cli[r].pc = "save"
  /\ config' = [config EXCEPT ![r] = Saved(cli[r].link, Resolved(r, runtime))]
  /\ cli' = [cli EXCEPT ![r] = Idle(r)]
  /\ wrapped' = (wrapped \/ (r = Win /\ runtime.distro = None /\ runtime.embedded # None))
  /\ UNCHANGED <<marker, exclude, manifest, peer, started, alone>>

Connect(r) == ConnectLoad(r) \/ Configure(r) \/ ConfigLoad(r) \/ ConfigSave(r) \/ Save(r)

----
Disconnect(r) ==
  \/ /\ cli[r].pc = "disconnectLoad" /\ config[r].state = "saved"
     /\ CliTo(r, IF config[r].peer = None THEN Idle(r)
                 ELSE [cli[r] EXCEPT !.pc = "disconnectSave", !.config = config[r]])
     /\ UNCHANGED files
  \/ /\ cli[r].pc = "disconnectSave"
     /\ config' = [config EXCEPT ![r] = Saved(None, cli[r].config.runtime)]
     /\ CliTo(r, Idle(r))
     /\ UNCHANGED <<marker, exclude, manifest>>

\* deinitialize_repo removes file after file, and reads none of them first; a
\* file that is not there is passed over.  The mutant keeps the manifest.
DeinitConfigOnly(r) ==
  /\ cli[r].pc = "deinitConfig"
  /\ config' = [config EXCEPT ![r] = NoConfig]
  /\ CliTo(r, [cli[r] EXCEPT !.pc = "deinitMarker"])
  /\ UNCHANGED <<marker, exclude, manifest>>

DeinitConfig(r) ==
  /\ cli[r].pc = "deinitConfig"
  /\ config' = [config EXCEPT ![r] = NoConfig]
  /\ CliTo(r, [cli[r] EXCEPT !.pc = "deinitManifest"])
  /\ UNCHANGED <<marker, exclude, manifest>>

Deinit(r) ==
  \/ DeinitConfig(r)
  \/ /\ cli[r].pc = "deinitManifest"
     /\ manifest' = [manifest EXCEPT ![r] = FALSE]
     /\ CliTo(r, [cli[r] EXCEPT !.pc = "deinitMarker"])
     /\ UNCHANGED <<config, marker, exclude>>
  \/ /\ cli[r].pc = "deinitMarker"
     /\ marker' = [marker EXCEPT ![r] = "none"]
     /\ CliTo(r, [cli[r] EXCEPT !.pc = "deinitExclude"])
     /\ UNCHANGED <<config, exclude, manifest>>
  \/ /\ cli[r].pc = "deinitExclude"
     /\ exclude' = [exclude EXCEPT ![cli[r].at] = FALSE]
     /\ CliTo(r, Idle(r))
     /\ UNCHANGED <<config, marker, manifest>>

----
\* Whichever distribution a Windows command has reached, its rsync runs in the
\* default one (rsync_command_for_environment).
TransfersTo(r) == IF r = Win THEN Default ELSE Win

\* A whole fetch or send of r, of which only the manifests count here: both are
\* read, whichever clones their paths were mirrored between, and both written.
Sync(r) ==
  LET p == config[r].peer
      known == manifest[r] \/ manifest[p]
  IN /\ cli[r].pc = "idle" /\ config[r].state = "saved" /\ p # None
     /\ \E mirrored \in {TransfersTo(r) = p \/ known, FALSE} :
          manifest' = [manifest EXCEPT ![r] = mirrored, ![p] = mirrored]
     /\ alone' = {}
     /\ UNCHANGED <<config, marker, exclude, cli, peer, started, wrapped>>

\* The command of r, or the peer process it has started, is gone.
CliStops(r) == cli' = [cli EXCEPT ![r] = Idle(r)] /\ UNCHANGED <<peer, started, alone, wrapped>>
PeerStops(r) ==
  /\ peer' = [peer EXCEPT ![r] = Idle(r)]
  /\ cli' = IF cli[r].pc = "await" THEN [cli EXCEPT ![r] = Idle(r)] ELSE cli
  /\ UNCHANGED <<started, alone, wrapped>>

\* A config that cannot be used ends the command, or is the peer's answer to it.
Unusable(q) ==
  \/ q.pc \in {"initLoad", "configLoad"} /\ config[q.repo].state = "torn"
  \/ q.pc \in {"connectLoad", "disconnectLoad", "configReload"} /\ config[q.repo].state # "saved"

Refuse(r) ==
  /\ \/ Unusable(cli[r]) /\ CliStops(r)
     \/ Unusable(peer[r]) /\ PeerStops(r)
  /\ UNCHANGED files

\* A process fails or dies before its next step, or in the middle of it: no
\* write is atomic (write_text truncates the file, then fills it).
TornBy(q) ==
  /\ \/ UNCHANGED <<config, marker>>
     \/ /\ q.pc \in {"initConfig", "configSave", "save", "disconnectSave"}
        /\ config' = [config EXCEPT ![q.repo] = TornConfig] /\ UNCHANGED marker
     \/ /\ q.pc = "initMarker"
        /\ marker' = [marker EXCEPT ![q.repo] = "torn"] /\ UNCHANGED config
  /\ UNCHANGED <<exclude, manifest>>

Fail(r) ==
  /\ MayFail
  /\ \/ cli[r].pc # "idle" /\ CliStops(r) /\ TornBy(cli[r])
     \/ peer[r].pc # "idle" /\ PeerStops(r) /\ TornBy(peer[r])

Next ==
  \E r \in Repos :
    \/ StartCommand(r) \/ Initialize(r) \/ Connect(r) \/ Disconnect(r) \/ Deinit(r)
    \/ Sync(r) \/ Refuse(r) \/ Fail(r)

Spec == Init /\ [][Next]_vars

----
\* connect configures both sides: when it saves the link of r, the clone it
\* names has already been linked back, and is still so.  Whatever fails, no
\* clone that connects on its own is left with a link that is not returned.  The
\* way back is to r, but for a user in one distribution whose --wsl-peer-command
\* names another one for Windows to reach.
ConnectIsBilateral ==
  [][\A r \in alone :
       cli[r].pc = "save" /\ config'[r].state = "saved" /\ config'[r].peer = cli[r].link =>
         LET p == cli[r].link
             named == cli[r].config.runtime.embedded
         IN /\ config'[p].state = "saved"
            /\ config'[p].peer = IF r # Win /\ named # None THEN named ELSE r]_vars

\* deinit on its own restores the clone to its state before init, whatever an
\* earlier command that failed has left there.
DeinitRestores ==
  [][\A r \in alone :
       cli[r].pc = "deinitExclude" /\ exclude' # exclude /\ cli[r].at = <<r, "root">> =>
         /\ config[r] = NoConfig /\ ~manifest[r] /\ marker[r] = "none"
         /\ ~exclude'[<<r, "root">>]]_vars

\* A connect of r to which no option was given, or none that says anything new,
\* though r is linked.
Reconnects(r) ==
  /\ cli[r].pc = "connectLoad" /\ cli'[r].pc = "configure"
  /\ config[r].peer # None /\ cli'[r].config.runtime = config[r].runtime

\* Such a connect reaches the clone the link already names: the preferences, as
\* either side has saved them, reproduce it.  The exception is a Windows clone
\* without a --wsl-distro, after a distribution was named in --wsl-peer-command.
ReconnectKeepsNamedPeer ==
  [][\A r \in Repos :
       Reconnects(r) /\ ~(r = Win /\ wrapped /\ config[r].runtime.distro = None)
         => cli'[r].link = config[r].peer]_vars

\* docs/ARCHITECTURE.md: the runtime block persists the overrides of the peer's
\* launch.  Refuted in the exception above.
ReconnectKeepsPeer ==
  [][\A r \in Repos : Reconnects(r) => cli'[r].link = config[r].peer]_vars

\* The marker is hidden from git by the exclude entry of its clone (README).
MarkerHidden == \A r \in Repos : marker[r] = "current" => exclude[<<r, "root">>]

\* Either side of a link can transfer files to the other (README).
EitherSideCanSync ==
  \A r \in Repos : config[r].peer # None => TransfersTo(r) = config[r].peer
====
